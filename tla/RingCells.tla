----------------------------- MODULE RingCells -----------------------------
(***************************************************************************)
(* The index arithmetic shared by the two ring buffers of the library,     *)
(* details::DataBuf (include/membuf.h) and astlog::details::SPSCQueue      *)
(* (include/spsc_ring.h): cells 0 .. Cells - 1, an index h of the oldest   *)
(* element, an index t of the cell the next element goes to, and one cell  *)
(* always unused, so that h = t means empty.                               *)
(***************************************************************************)
EXTENDS Integers, Sequences

CONSTANTS
  Cells,      \* number of cells: CacheSize of DataBuf, capacity_ of SPSCQueue
  Raw         \* the content of a cell in which no object lives

ASSUME CellsAssumption == Cells \in Nat /\ Cells >= 2

Slot == 0 .. Cells - 1

(* Mutant: the index does not wrap.                                        *)
SuccNoWrap(i) == i + 1

(* (i + 1) % CacheSize, and (i + 1) & mask_ for a power of two.            *)
Succ(i) == (i + 1) % Cells

(* The number of elements between the two indices.                         *)
Span(h, t) == IF t >= h THEN t - h ELSE (Cells - h) + t

(* The cell of the i-th oldest element.                                    *)
Cell(h, i) == IF h + i - 1 < Cells THEN h + i - 1 ELSE h + i - 1 - Cells

(* The cells in use.                                                       *)
Window(h, t) == {Cell(h, i) : i \in 1 .. Span(h, t)}

(* The storage after an object was destroyed in, or constructed in, cell c. *)
Cleared(s, c) == [s EXCEPT ![c] = Raw]

Filled(s, c, v) == [s EXCEPT ![c] = v]

(* The elements in a storage s, oldest first.                              *)
Elements(h, t, s) == [i \in 1 .. Span(h, t) |-> s[Cell(h, i)]]

(* Exactly the cells in use hold an object.                                *)
Live(h, t, s) == \A c \in Slot : s[c] # Raw <=> c \in Window(h, t)
=============================================================================
