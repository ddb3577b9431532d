-------------------------- MODULE DropOldestQueue --------------------------
(***************************************************************************)
(* What the log buffer of the thread pool promises: a FIFO queue of at     *)
(* most Capacity elements whose Push never fails and never blocks.  When   *)
(* the queue is full a Push makes room by dropping the oldest element.     *)
(* DataBuf (include/membuf.h) is shown to implement it.                    *)
(***************************************************************************)
EXTENDS Integers, Sequences

CONSTANTS
  Capacity,   \* the most elements the queue holds
  Value       \* the elements

VARIABLES
  queue,      \* the elements, oldest first
  open        \* FALSE once the queue was destroyed

vars == <<queue, open>>

Init ==
  /\ queue = << >>
  /\ open = TRUE

(* The newest element goes in; the oldest goes out when there is no room.  *)
Push(d) ==
  /\ open
  /\ queue' = Append(IF Len(queue) = Capacity THEN Tail(queue) ELSE queue, d)
  /\ UNCHANGED open

Pop ==
  /\ open
  /\ queue # << >>
  /\ queue' = Tail(queue)
  /\ UNCHANGED open

(* Destruction discards whatever is left.                                  *)
Destroy ==
  /\ open
  /\ queue' = << >>
  /\ open' = FALSE

Next == Pop \/ Destroy \/ \E d \in Value : Push(d)

Spec == Init /\ [][Next]_vars
=============================================================================
