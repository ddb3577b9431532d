------------------------------ MODULE SPSCRing ------------------------------
(***************************************************************************)
(* astlog::details::SPSCQueue (include/spsc_ring.h): a ring that one       *)
(* producer and one consumer use without a lock.                           *)
(*                                                                         *)
(* Each index is stored by one thread and loaded by the other.  A load     *)
(* with memory_order_acquire returns the index as of some store between    *)
(* the last one this thread saw and the latest; with it the thread sees    *)
(* all that the other did before that store.  headSeen and tailSeen are    *)
(* what was loaded last.  Cells are plain memory: that a thread only       *)
(* touches cells it may is what the properties say.                        *)
(***************************************************************************)
EXTENDS RingCells, FiniteSetsExt

CONSTANTS
  Value,
  NoValue,
  Requested      \* argument of the constructor

(* cap in the constructor: the least power of two above the argument.      *)
CellsFor(n) == Min({c \in {2 ^ k : k \in 0 .. n} : c >= n + 1})

ASSUME SPSCAssumption ==
  /\ Requested \in Nat \ {0}
  /\ Cells = CellsFor(Requested)
  /\ Raw \notin Value /\ NoValue \notin Value

VARIABLES
  head, tail,    \* head_ and tail_
  cells,         \* the storage
  ppc, value,    \* where the producer is, and what it pushes
  headSeen,      \* what it last loaded from head_
  cpc, out,      \* where the consumer is, and what it got
  tailSeen       \* what it last loaded from tail_

producerVars == <<tail, ppc, value, headSeen>>
consumerVars == <<head, cpc, out, tailSeen>>
vars == <<cells, producerVars, consumerVars>>

Init ==
  /\ head = 0 /\ tail = 0
  /\ cells = [c \in Slot |-> Raw]
  /\ ppc = "idle" /\ value = NoValue /\ headSeen = 0
  /\ cpc = "idle" /\ out = NoValue /\ tailSeen = 0

(* What a load may return when last it returned seen and now stands at i.  *)
Loads(seen, i) == Window(seen, i) \cup {i}

-----------------------------------------------------------------------------
(* The producer: try_push and try_emplace                                  *)

PushCall(v) ==
  /\ ppc = "idle"
  /\ ppc' = "load" /\ value' = v
  /\ UNCHANGED <<cells, tail, headSeen, consumerVars>>

(* Mutant: the ring is never taken to be full.                             *)
NeverFull(h) == FALSE

IsFull(h) == Succ(tail) = h

PushLoad ==
  /\ ppc = "load"
  /\ headSeen' \in Loads(headSeen, head)
  /\ ppc' = IF IsFull(headSeen') THEN "idle" ELSE "construct"
  /\ UNCHANGED <<cells, tail, value, consumerVars>>

PushConstruct ==
  /\ ppc = "construct"
  /\ cells' = Filled(cells, tail, value)
  /\ ppc' = "publish"
  /\ UNCHANGED <<tail, value, headSeen, consumerVars>>

PushPublish ==
  /\ ppc = "publish"
  /\ tail' = Succ(tail)
  /\ ppc' = "idle"
  /\ UNCHANGED <<cells, value, headSeen, consumerVars>>

-----------------------------------------------------------------------------
(* The consumer: try_pop, which clear repeats, and peek                    *)

(* Mutant: the ring is never taken to be empty.                            *)
NeverEmpty(t) == FALSE

IsEmpty(t) == head = t

ConsumerLoad(then) ==
  /\ cpc = "idle"
  /\ tailSeen' \in Loads(tailSeen, tail)
  /\ cpc' = IF IsEmpty(tailSeen') THEN "idle" ELSE then
  /\ UNCHANGED <<cells, producerVars, head, out>>

PopLoad == ConsumerLoad("move")

PeekLoad == ConsumerLoad("copy")

PeekCopy ==
  /\ cpc = "copy"
  /\ out' = cells[head]
  /\ cpc' = "idle"
  /\ UNCHANGED <<cells, producerVars, head, tailSeen>>

PopMove ==
  /\ cpc = "move"
  /\ out' = cells[head]
  /\ cpc' = "destroy"
  /\ UNCHANGED <<cells, producerVars, head, tailSeen>>

(* Mutant: the object is left in its cell.                                 *)
PopForget ==
  /\ cpc = "destroy"
  /\ cpc' = "publish"
  /\ UNCHANGED <<cells, producerVars, head, out, tailSeen>>

PopDestroy ==
  /\ cpc = "destroy"
  /\ cells' = Cleared(cells, head)
  /\ cpc' = "publish"
  /\ UNCHANGED <<producerVars, head, out, tailSeen>>

PopPublish ==
  /\ cpc = "publish"
  /\ head' = Succ(head)
  /\ cpc' = "idle"
  /\ UNCHANGED <<cells, producerVars, out, tailSeen>>

-----------------------------------------------------------------------------
(* ~SPSCQueue, when both threads are done with it                          *)

Destroy ==
  /\ ppc = "idle" /\ cpc = "idle"
  /\ cells' = [c \in Slot |-> IF c \in Window(head, tail) THEN Raw ELSE cells[c]]
  /\ ppc' = "gone" /\ cpc' = "gone"
  /\ UNCHANGED <<tail, value, headSeen, head, out, tailSeen>>

Over == ppc = "gone" /\ UNCHANGED vars

Producer ==
  (\E v \in Value : PushCall(v)) \/ PushLoad \/ PushConstruct \/ PushPublish

Consumer ==
  PopLoad \/ PeekLoad \/ PeekCopy \/ PopMove \/ PopDestroy \/ PopPublish

Next == Producer \/ Consumer \/ Destroy \/ Over

Spec == Init /\ [][Next]_vars

-----------------------------------------------------------------------------
TypeOK ==
  /\ {head, tail, headSeen, tailSeen} \subseteq Slot
  /\ cells \in [Slot -> Value \cup {Raw}]
  /\ ppc \in {"idle", "load", "construct", "publish", "gone"}
  /\ cpc \in {"idle", "copy", "move", "destroy", "publish", "gone"}
  /\ value \in Value \cup {NoValue}
  /\ out \in Value \cup {NoValue}

(* The consumer reads and destroys objects, the producer constructs into   *)
(* raw memory, and never both in one cell, however late each sees the      *)
(* index of the other.                                                     *)
CellsAreApart ==
  /\ cpc \in {"copy", "move", "destroy"} => cells[head] # Raw
  /\ ppc = "construct" => cells[tail] = Raw
  /\ ppc \in {"construct", "publish"} /\ cpc \in {"copy", "move", "destroy"}
       => head # tail

(* size() called by the consumer never promises more than there is to pop, *)
(* and called by the producer never more room than there is.               *)
SizeIsSafe ==
  /\ \A t \in Loads(tailSeen, tail) : Span(head, t) <= Span(head, tail)
  /\ \A h \in Loads(headSeen, head) : Span(h, tail) >= Span(head, tail)

(* No object is lost or left: outside a call, an object lives in exactly   *)
(* the cells between the indices, and after the destructor in none.        *)
NothingLeaks ==
  /\ ppc \in {"idle", "load", "construct"} /\ cpc \notin {"publish", "gone"}
       => Live(head, tail, cells)
  /\ ppc = "gone" => \A c \in Slot : cells[c] = Raw

(* What is in the queue: an element stays until head_ passes it.           *)
Contents ==
  IF ppc = "gone" THEN << >>
  ELSE [i \in 1 .. Span(head, tail) |->
          IF i = 1 /\ cpc = "publish" THEN out ELSE cells[Cell(head, i)]]

Fifo == INSTANCE BoundedFifo
          WITH fifo <- Contents, open <- ppc # "gone", Capacity <- Cells - 1

(* Values come out in the order in which they went in, each once.          *)
ImplementsBoundedFifo == Fifo!Spec
=============================================================================
