---------------------------- MODULE InlineBuffer ----------------------------
(***************************************************************************)
(* details::inlineBuffer (include/membuf.h): text of up to InlineCapacity  *)
(* characters lives in an array inside the object; the first append that   *)
(* does not fit moves all of it to a vector, in which it stays until the   *)
(* vector is cut to nothing.                                               *)
(*                                                                         *)
(* A buffer is a record [inline, overflow, size]; the operations map a     *)
(* buffer to the buffer after the call.                                    *)
(***************************************************************************)
EXTENDS Integers, Sequences

CONSTANTS
  InlineCapacity,
  Char,
  NUL

ASSUME InlineBufferAssumption == InlineCapacity \in Nat /\ NUL \in Char

EmptyBuffer == [inline |-> [i \in 1 .. InlineCapacity |-> NUL],
                overflow |-> << >>,
                size |-> 0]

(* std::memcpy(a + at, data).                                              *)
Copied(a, at, data) ==
  [i \in DOMAIN a |->
     IF at < i /\ i <= at + Len(data) THEN data[i - at] ELSE a[i]]

(* Mutant: one character more than the array holds is taken to fit.        *)
FitsOneMore(b, data) ==
  b.overflow = << >> /\ b.size + Len(data) <= InlineCapacity + 1

Fits(b, data) ==
  b.overflow = << >> /\ b.size + Len(data) <= InlineCapacity

(* Mutant: what is in the array is not moved.                              *)
SpilledNothing(b) == b.overflow

Spilled(b) == IF b.overflow = << >> THEN SubSeq(b.inline, 1, b.size)
                                    ELSE b.overflow

BufAppend(b, data) ==
  IF data = << >> THEN b
  ELSE IF Fits(b, data)
       THEN [b EXCEPT !.inline = Copied(b.inline, b.size, data),
                      !.size = b.size + Len(data)]
       ELSE [b EXCEPT !.overflow = Spilled(b) \o data,
                      !.size = Len(Spilled(b)) + Len(data)]

(* std::vector::resize(k).                                                 *)
Resized(v, k) == [i \in 1 .. k |-> IF i <= Len(v) THEN v[i] ELSE NUL]

(* The last write of erase goes to element m_size of the container, which  *)
(* has this many.                                                          *)
ContainerSize(b) == IF b.overflow = << >> THEN InlineCapacity ELSE Len(b.overflow)

(* Mutant: the text is cut, and the size is not.                           *)
BufEraseKeepsSize(b, k) ==
  IF k >= InlineCapacity THEN b
  ELSE IF b.overflow = << >>
       THEN [b EXCEPT !.inline = [@ EXCEPT ![k + 1] = NUL]]
       ELSE [b EXCEPT !.overflow = Resized(b.overflow, k)]

(* A k beyond the array is ignored.  With a vector, the NUL is written one *)
(* past its last element, into memory the first append reserved; the text  *)
(* does not show it.                                                       *)
BufErase(b, k) ==
  IF k >= InlineCapacity THEN b
  ELSE IF b.overflow = << >>
       THEN [b EXCEPT !.inline = [@ EXCEPT ![k + 1] = NUL], !.size = k]
       ELSE [b EXCEPT !.overflow = Resized(b.overflow, k), !.size = k]

(* view(): data() and size().                                              *)
View(b) == IF b.overflow = << >> THEN SubSeq(b.inline, 1, b.size)
                                 ELSE SubSeq(b.overflow, 1, b.size)

(* Where the text lives, and that size() counts it.                        *)
BufferOK(b) ==
  /\ b \in [inline : [1 .. InlineCapacity -> Char],
            overflow : Seq(Char),
            size : Nat]
  /\ IF b.overflow = << >> THEN b.size <= InlineCapacity
                           ELSE b.size = Len(b.overflow)
=============================================================================
