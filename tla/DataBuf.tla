------------------------------ MODULE DataBuf ------------------------------
(***************************************************************************)
(* details::DataBuf<DataType, CacheSize> of include/membuf.h: the ring of  *)
(* raw storage in which the thread pool keeps queued log messages.  A push *)
(* into a full ring destroys the oldest element to make room.              *)
(*                                                                         *)
(* A cell of `storage` holds the object constructed in it, or Raw when no  *)
(* object lives there; destroying a Raw cell, or constructing over a live  *)
(* one, would be undefined behaviour (or a leak) of the program.           *)
(*                                                                         *)
(* This module has the state and the operations only.  DataBufObject runs  *)
(* them in one thread; ThreadPool runs the steps they are made of          *)
(* (DropHead, Store) inside a critical section other threads contend for.  *)
(***************************************************************************)
EXTENDS RingCells

VARIABLES
  head,       \* m_head: the cell of the oldest element
  tail,       \* m_tail: the cell the next element goes to
  storage     \* m_storage

bufVars == <<head, tail, storage>>

BufInit ==
  /\ head = 0
  /\ tail = 0
  /\ storage = [c \in Slot |-> Raw]

Empty == head = tail

(* Mutant: full one element early.                                         *)
FullEarly == Succ(Succ(tail)) = head

Full == Succ(tail) = head

(* Mutant: front() returns the newest object.                              *)
FrontNewest ==
  IF Empty THEN Raw ELSE storage[IF tail = 0 THEN Cells - 1 ELSE tail - 1]

(* front(): the oldest object, or nullptr (here Raw) when empty.           *)
Front == IF Empty THEN Raw ELSE storage[head]

(* Mutant: the cell is stepped over and its object stays alive.            *)
DropHeadUndestroyed == head' = Succ(head) /\ UNCHANGED <<storage, tail>>

(* std::destroy_at the oldest object and step over its cell: the second    *)
(* half of pop(), the eviction of push() and one round of ~DataBuf().      *)
DropHead ==
  /\ storage' = Cleared(storage, head)
  /\ head' = Succ(head)
  /\ UNCHANGED tail

(* std::construct_at in the tail cell, then publish it.                    *)
Store(d) ==
  /\ storage' = Filled(storage, tail, d)
  /\ tail' = Succ(tail)
  /\ UNCHANGED head

(* Mutant: a full ring drops what comes.                                   *)
PushDropNewest(d) == IF Full THEN UNCHANGED bufVars ELSE Store(d)

Push(d) ==
  IF Full
  THEN /\ storage' = Filled(Cleared(storage, head), tail, d)
       /\ head' = Succ(head)
       /\ tail' = Succ(tail)
  ELSE Store(d)

Pop == IF Empty THEN UNCHANGED bufVars ELSE DropHead

(* ~DataBuf(): destroy what is left, oldest first.                         *)
DestroyAll ==
  /\ storage' = [c \in Slot |-> IF c \in Window(head, tail) THEN Raw
                                                           ELSE storage[c]]
  /\ head' = tail
  /\ UNCHANGED tail

Contents == Elements(head, tail, storage)

LiveCells == Live(head, tail, storage)

BufTypeOK(Value) ==
  /\ head \in Slot
  /\ tail \in Slot
  /\ storage \in [Slot -> Value \cup {Raw}]
=============================================================================
