----------------------------- MODULE TextBuffer -----------------------------
(***************************************************************************)
(* What details::inlineBuffer promises: a text that grows at its end and   *)
(* can be cut back, to a length below Limit.                               *)
(***************************************************************************)
EXTENDS Integers, Sequences

CONSTANTS
  Data,     \* the strings that are appended
  Limit

VARIABLE text

Init == text = << >>

Put(data) == text' = text \o data

Cut(k) == /\ k <= Len(text) /\ k < Limit
          /\ text' = SubSeq(text, 1, k)

Next == (\E data \in Data : Put(data)) \/ (\E k \in 0 .. Limit - 1 : Cut(k))

Spec == Init /\ [][Next]_text
=============================================================================
