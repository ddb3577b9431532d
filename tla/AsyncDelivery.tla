--------------------------- MODULE AsyncDelivery ---------------------------
(***************************************************************************)
(* What details::threadPool promises to those who post to it.              *)
(*                                                                         *)
(* A post is accepted at once, whatever the backlog: when Capacity         *)
(* messages wait, the oldest of them is dropped.  Workers take the waiting *)
(* messages in the order in which they were accepted, one each, and hand   *)
(* every message they took to its sink exactly once.  Closing refuses new  *)
(* messages and discards none: the pool is joined only when nothing waits  *)
(* and no worker holds a message.                                          *)
(*                                                                         *)
(* ThreadPool is shown to implement this module, and AsyncLogging builds   *)
(* on it in place of the pool.                                             *)
(***************************************************************************)
EXTENDS Integers, Sequences

CONSTANTS
  Capacity,   \* how many messages can wait
  Worker,     \* the threads that deliver
  Message,    \* what is posted
  Sinkless,   \* the messages that name no sink: they are swallowed
  NoMsg       \* a worker holds nothing

VARIABLES
  queue,      \* accepted and waiting, oldest first
  inflight,   \* what each worker took and did not finish
  logged,     \* what the sinks were given, in order
  evicted,    \* what was dropped to make room
  phase       \* "open", "closing" or "joined"

vars == <<queue, inflight, logged, evicted, phase>>

Init ==
  /\ queue = << >>
  /\ inflight = [w \in Worker |-> NoMsg]
  /\ logged = << >>
  /\ evicted = {}
  /\ phase = "open"

Accept(m) ==
  /\ phase = "open"
  /\ IF Len(queue) = Capacity
     THEN /\ queue' = Append(Tail(queue), m)
          /\ evicted' = evicted \cup {Head(queue)}
     ELSE /\ queue' = Append(queue, m)
          /\ UNCHANGED evicted
  /\ UNCHANGED <<inflight, logged, phase>>

(* Mutant: the message is copied and stays in the queue.                   *)
TakeCopy(w) ==
  /\ inflight[w] = NoMsg
  /\ queue # << >>
  /\ inflight' = [inflight EXCEPT ![w] = Head(queue)]
  /\ UNCHANGED <<queue, logged, evicted, phase>>

Take(w) ==
  /\ inflight[w] = NoMsg
  /\ queue # << >>
  /\ inflight' = [inflight EXCEPT ![w] = Head(queue)]
  /\ queue' = Tail(queue)
  /\ UNCHANGED <<logged, evicted, phase>>

Deliver(w) ==
  /\ inflight[w] # NoMsg
  /\ logged' = IF inflight[w] \in Sinkless THEN logged
                                         ELSE Append(logged, inflight[w])
  /\ inflight' = [inflight EXCEPT ![w] = NoMsg]
  /\ UNCHANGED <<queue, evicted, phase>>

Close ==
  /\ phase = "open"
  /\ phase' = "closing"
  /\ UNCHANGED <<queue, inflight, logged, evicted>>

Join ==
  /\ phase = "closing"
  /\ queue = << >>
  /\ \A w \in Worker : inflight[w] = NoMsg
  /\ phase' = "joined"
  /\ UNCHANGED <<queue, inflight, logged, evicted>>

Next ==
  \/ Close
  \/ Join
  \/ \E m \in Message : Accept(m)
  \/ \E w \in Worker : Take(w) \/ Deliver(w)

Spec == Init /\ [][Next]_vars
=============================================================================
