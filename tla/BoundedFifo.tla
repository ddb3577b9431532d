---------------------------- MODULE BoundedFifo ----------------------------
(***************************************************************************)
(* What astlog::details::SPSCQueue promises: a first-in first-out queue of *)
(* at most Capacity values.  A push or a pop may always fail.              *)
(***************************************************************************)
EXTENDS Integers, Sequences

CONSTANTS
  Value,
  Capacity

VARIABLES
  fifo,       \* the values, oldest first
  open        \* FALSE once the queue was destroyed

vars == <<fifo, open>>

Init == fifo = << >> /\ open = TRUE

Put(v) ==
  /\ open /\ Len(fifo) < Capacity
  /\ fifo' = Append(fifo, v)
  /\ UNCHANGED open

Get ==
  /\ open /\ fifo # << >>
  /\ fifo' = Tail(fifo)
  /\ UNCHANGED open

Destroy == open /\ open' = FALSE /\ fifo' = << >>

Next == Get \/ Destroy \/ \E v \in Value : Put(v)

Spec == Init /\ [][Next]_vars
=============================================================================
