----------------------------- MODULE ThreadPool -----------------------------
(***************************************************************************)
(* details::threadPool (include/thread_pool.h, thread_pool-inl.h): a queue *)
(* of log messages behind one mutex and one condition variable, any number *)
(* of threads that post, worker threads that hand messages to their sinks, *)
(* and one thread that destroys the pool.                                  *)
(*                                                                         *)
(* A step is what a thread does between two points where another thread    *)
(* can see or change shared state: acquiring the mutex, each DataBuf call  *)
(* made under it, evaluating the wait predicate, blocking (which releases  *)
(* the mutex in the same step), notifying, and the sink call, made without *)
(* the mutex.  std::condition_variable is the set of workers whose wpc is  *)
(* "waiting"; a woken worker has to acquire the mutex again and re-test.   *)
(***************************************************************************)
EXTENDS DataBuf, FiniteSets

CONSTANTS
  Producers,    \* threads that call postmsg
  NumWorkers,   \* constructor argument
  Sinks,        \* what a post may name as its sink
  NoSink,       \* the null sinkPtr
  NoMsg,        \* a default-constructed async_msg
  Free,         \* nobody holds the mutex
  MaxPosts,     \* bound: posts per producer
  MaxSpurious   \* bound: spurious wakeups of the condition variable

(* The constructor makes at least one worker.                              *)
Workers == 1 .. (IF NumWorkers = 0 THEN 1 ELSE NumWorkers)

(* A post is told apart from every other one; the text does not matter.    *)
Message == [from : Producers, nr : 0 .. MaxPosts - 1, sink : Sinks]

ASSUME PoolAssumption ==
  /\ NumWorkers \in Nat
  /\ IsFiniteSet(Producers)
  /\ Free \notin Workers \cup Producers
  /\ Workers \cap Producers = {}
  /\ MaxPosts \in Nat
  /\ MaxSpurious \in Nat

(* The markers of an empty cell and an empty async_msg are no messages.    *)
ASSUME MarkerAssumption == Raw \notin Message /\ NoMsg \notin Message

VARIABLES
  mtx,          \* holder of m_mtx
  stop,         \* m_stop
  ppc,          \* where each producer is in postmsg
  asmsg,        \* the async_msg a producer is posting
  sent,         \* calls of postmsg made by each producer
  wpc,          \* where each worker is in worker()
  msg,          \* the local msg of each worker
  dpc,          \* where the destroying thread is in ~impl
  spurious,     \* spurious wakeups so far
  accepted,     \* history: what was pushed, in order
  evicted,      \* history: what push dropped
  logged        \* history: what was passed to a sink, in order

producerVars == <<ppc, asmsg, sent>>
workerVars == <<wpc, msg>>
historyVars == <<accepted, evicted, logged>>
vars == <<bufVars, mtx, stop, producerVars, workerVars, dpc, spurious,
          historyVars>>

Init ==
  /\ BufInit
  /\ mtx = Free
  /\ stop = FALSE
  /\ ppc = [p \in Producers |-> "idle"]
  /\ asmsg = [p \in Producers |-> NoMsg]
  /\ sent = [p \in Producers |-> 0]
  /\ wpc = [w \in Workers |-> "lock"]
  /\ msg = [w \in Workers |-> NoMsg]
  /\ dpc = "running"
  /\ spurious = 0
  /\ accepted = << >>
  /\ evicted = {}
  /\ logged = << >>

-----------------------------------------------------------------------------
(* The library: std::mutex and std::condition_variable                     *)

(* Mutant: the pool is built with a mutex that does not lock (NonMutex).   *)
LockedOrNot == TRUE

CanLock == mtx = Free

Waiting == {w \in Workers : wpc[w] = "waiting"}

(* Mutants: the notification is lost, or sent for the first message only.  *)
NotifyNobody == UNCHANGED wpc

NotifyIfFirst ==
  IF Len(Contents) = 1 /\ Waiting # {}
  THEN \E w \in Waiting : wpc' = [wpc EXCEPT ![w] = "lock"]
  ELSE UNCHANGED wpc

(* One waiting worker, whichever, or nobody.                               *)
NotifyOne ==
  \/ Waiting = {} /\ UNCHANGED wpc
  \/ \E w \in Waiting : wpc' = [wpc EXCEPT ![w] = "lock"]

NotifyAll ==
  wpc' = [w \in Workers |-> IF w \in Waiting THEN "lock" ELSE wpc[w]]

-----------------------------------------------------------------------------
(* postmsg                                                                 *)

(* The async_msg is built before the mutex is taken.  A caller must not    *)
(* touch a pool whose members are gone; until then posting may race with   *)
(* the destructor, which m_stop is there for.                              *)
PostCall(p, s) ==
  /\ ppc[p] = "idle" /\ sent[p] < MaxPosts /\ dpc # "gone"
  /\ asmsg' = [asmsg EXCEPT ![p] = [from |-> p, nr |-> sent[p], sink |-> s]]
  /\ sent' = [sent EXCEPT ![p] = @ + 1]
  /\ ppc' = [ppc EXCEPT ![p] = "lock"]
  /\ UNCHANGED <<bufVars, mtx, stop, workerVars, dpc, spurious, historyVars>>

PostLock(p) ==
  /\ ppc[p] = "lock" /\ CanLock
  /\ mtx' = p
  /\ ppc' = [ppc EXCEPT ![p] = "locked"]
  /\ UNCHANGED <<bufVars, stop, asmsg, sent, workerVars, dpc, spurious,
                 historyVars>>

(* if (m_stop) return: nothing is queued and nobody is notified.           *)
PostReject(p) ==
  /\ ppc[p] = "locked" /\ stop
  /\ mtx' = Free
  /\ ppc' = [ppc EXCEPT ![p] = "idle"]
  /\ asmsg' = [asmsg EXCEPT ![p] = NoMsg]
  /\ UNCHANGED <<bufVars, stop, sent, workerVars, dpc, spurious, historyVars>>

(* m_buffer.push, then the end of the critical section.                    *)
PostPush(p) ==
  /\ ppc[p] = "locked" /\ ~stop
  /\ Push(asmsg[p])
  /\ accepted' = Append(accepted, asmsg[p])
  /\ evicted' = IF Full THEN evicted \cup {Front} ELSE evicted
  /\ mtx' = Free
  /\ ppc' = [ppc EXCEPT ![p] = "notify"]
  /\ UNCHANGED <<stop, asmsg, sent, workerVars, dpc, spurious, logged>>

(* notify_one, after the mutex was released.                               *)
PostNotify(p) ==
  /\ ppc[p] = "notify"
  /\ NotifyOne
  /\ ppc' = [ppc EXCEPT ![p] = "idle"]
  /\ asmsg' = [asmsg EXCEPT ![p] = NoMsg]
  /\ UNCHANGED <<bufVars, mtx, stop, sent, msg, dpc, spurious, historyVars>>

-----------------------------------------------------------------------------
(* worker                                                                  *)

WorkerLock(w) ==
  /\ wpc[w] = "lock" /\ CanLock
  /\ mtx' = w
  /\ wpc' = [wpc EXCEPT ![w] = "check"]
  /\ UNCHANGED <<bufVars, stop, producerVars, msg, dpc, spurious, historyVars>>

(* The predicate of wait: m_stop || !m_buffer.empty().                     *)
WaitIsOver == stop \/ ~Empty

(* Mutant: a worker leaves as soon as it sees the stop flag.               *)
FinishedOnStop == stop

(* m_stop && m_buffer.empty(): nothing left to do, ever.                   *)
Finished == stop /\ Empty

WorkerCheck(w) ==
  /\ wpc[w] = "check"
  /\ wpc' = [wpc EXCEPT ![w] = IF WaitIsOver THEN "ready" ELSE "block"]
  /\ UNCHANGED <<bufVars, mtx, stop, producerVars, msg, dpc, spurious,
                 historyVars>>

(* Releasing the mutex and starting to wait are one step of the library.   *)
WorkerBlock(w) ==
  /\ wpc[w] = "block"
  /\ wpc' = [wpc EXCEPT ![w] = "waiting"]
  /\ mtx' = Free
  /\ UNCHANGED <<bufVars, stop, producerVars, msg, dpc, spurious, historyVars>>

(* External: wait may return although nobody notified.                     *)
SpuriousWake(w) ==
  /\ wpc[w] = "waiting" /\ spurious < MaxSpurious
  /\ wpc' = [wpc EXCEPT ![w] = "lock"]
  /\ spurious' = spurious + 1
  /\ UNCHANGED <<bufVars, mtx, stop, producerVars, msg, dpc, historyVars>>

WorkerExit(w) ==
  /\ wpc[w] = "ready" /\ Finished
  /\ wpc' = [wpc EXCEPT ![w] = "done"]
  /\ mtx' = Free
  /\ UNCHANGED <<bufVars, stop, producerVars, msg, dpc, spurious, historyVars>>

(* queued = m_buffer.front(); msg = *queued, or continue on nullptr.       *)
WorkerCopy(w) ==
  /\ wpc[w] = "ready" /\ ~Finished
  /\ msg' = [msg EXCEPT ![w] = IF Front = Raw THEN NoMsg ELSE Front]
  /\ wpc' = [wpc EXCEPT ![w] = IF Front = Raw THEN "lock" ELSE "pop"]
  /\ mtx' = IF Front = Raw THEN Free ELSE mtx
  /\ UNCHANGED <<bufVars, stop, producerVars, dpc, spurious, historyVars>>

(* Mutant: the message is copied and never popped.                         *)
WorkerPopForgotten(w) ==
  /\ wpc[w] = "pop"
  /\ wpc' = [wpc EXCEPT ![w] = "log"]
  /\ mtx' = Free
  /\ UNCHANGED <<bufVars, stop, producerVars, msg, dpc, spurious, historyVars>>

(* m_buffer.pop(), then the end of the critical section.                   *)
WorkerPop(w) ==
  /\ wpc[w] = "pop"
  /\ Pop
  /\ wpc' = [wpc EXCEPT ![w] = "log"]
  /\ mtx' = Free
  /\ UNCHANGED <<stop, producerVars, msg, dpc, spurious, historyVars>>

(* if (msg.m_sinker)                                                       *)
HasSink(m) == m.sink # NoSink

(* The sink is called without the mutex; the next round starts with a      *)
(* default-constructed msg.                                                *)
WorkerLog(w) ==
  /\ wpc[w] = "log"
  /\ logged' = IF HasSink(msg[w]) THEN Append(logged, msg[w]) ELSE logged
  /\ msg' = [msg EXCEPT ![w] = NoMsg]
  /\ wpc' = [wpc EXCEPT ![w] = "lock"]
  /\ UNCHANGED <<bufVars, mtx, stop, producerVars, dpc, spurious, accepted,
                 evicted>>

-----------------------------------------------------------------------------
(* ~impl                                                                   *)

(* Mutant: the flag is set without the mutex.                              *)
DtorStopUnlocked ==
  /\ dpc = "running"
  /\ stop' = TRUE
  /\ dpc' = "notify"
  /\ UNCHANGED <<bufVars, mtx, producerVars, workerVars, spurious, historyVars>>

(* m_stop = true inside a critical section of its own.                     *)
DtorStop ==
  /\ dpc = "running" /\ CanLock
  /\ stop' = TRUE
  /\ dpc' = "notify"
  /\ UNCHANGED <<bufVars, mtx, producerVars, workerVars, spurious, historyVars>>

DtorNotifyAll ==
  /\ dpc = "notify"
  /\ NotifyAll
  /\ dpc' = "join"
  /\ UNCHANGED <<bufVars, mtx, stop, producerVars, msg, spurious, historyVars>>

DtorJoin ==
  /\ dpc = "join" /\ \A w \in Workers : wpc[w] = "done"
  /\ dpc' = "joined"
  /\ UNCHANGED <<bufVars, mtx, stop, producerVars, workerVars, spurious,
                 historyVars>>

(* The members go, ~DataBuf among them.  The caller's side of the contract *)
(* is that no post is under way any more.                                  *)
DtorFinish ==
  /\ dpc = "joined" /\ \A p \in Producers : ppc[p] = "idle"
  /\ DestroyAll
  /\ dpc' = "gone"
  /\ UNCHANGED <<mtx, stop, producerVars, workerVars, spurious, historyVars>>

-----------------------------------------------------------------------------
ProducerStep(p) == PostLock(p) \/ PostReject(p) \/ PostPush(p) \/ PostNotify(p)

WorkerStep(w) ==
  \/ WorkerLock(w) \/ WorkerCheck(w) \/ WorkerBlock(w) \/ WorkerExit(w)
  \/ WorkerCopy(w) \/ WorkerPop(w) \/ WorkerLog(w)

DtorStep == DtorNotifyAll \/ DtorJoin \/ DtorFinish

(* Nothing is left to do: with this step any other end is a deadlock.      *)
Over == dpc = "gone" /\ UNCHANGED vars

Next ==
  \/ \E p \in Producers : ProducerStep(p) \/ \E s \in Sinks : PostCall(p, s)
  \/ \E w \in Workers : WorkerStep(w) \/ SpuriousWake(w)
  \/ DtorStop
  \/ DtorStep
  \/ Over

Spec == Init /\ [][Next]_vars

(* Every thread inside a pool function keeps running, and a started sink   *)
(* call ends.  Nobody is obliged to post or to destroy the pool.           *)
Fairness ==
  /\ \A p \in Producers : WF_vars(ProducerStep(p))
  /\ \A w \in Workers : WF_vars(WorkerStep(w))
  /\ WF_vars(DtorStep)

FairSpec == Spec /\ Fairness

-----------------------------------------------------------------------------
TypeOK ==
  /\ BufTypeOK(Message)
  /\ mtx \in Workers \cup Producers \cup {Free}
  /\ stop \in BOOLEAN
  /\ ppc \in [Producers -> {"idle", "lock", "locked", "notify"}]
  /\ asmsg \in [Producers -> Message \cup {NoMsg}]
  /\ sent \in [Producers -> 0 .. MaxPosts]
  /\ wpc \in [Workers -> {"lock", "check", "block", "waiting", "ready",
                          "pop", "log", "done"}]
  /\ msg \in [Workers -> Message \cup {NoMsg}]
  /\ dpc \in {"running", "notify", "join", "joined", "gone"}
  /\ spurious \in 0 .. MaxSpurious
  /\ accepted \in Seq(Message)
  /\ evicted \in SUBSET Message
  /\ logged \in Seq(Message)

(* The inductive invariant of the proofs, in parts.  The mutex is held by  *)
(* exactly the thread that is inside a critical section ...                *)
MutexOK ==
  /\ \A w \in Workers :
       mtx = w <=> wpc[w] \in {"check", "block", "ready", "pop"}
  /\ \A p \in Producers : mtx = p <=> ppc[p] = "locked"

(* ... which keeps what a worker has found out true until it acts on it    *)
WorkersOK ==
  \A w \in Workers :
    /\ wpc[w] = "block" => ~WaitIsOver
    /\ wpc[w] = "ready" => WaitIsOver
    /\ wpc[w] = "pop" => ~Empty /\ msg[w] = Front
    /\ wpc[w] = "log" => msg[w] \in Message
    /\ wpc[w] = "done" => Finished

ProducersOK == \A p \in Producers : ppc[p] # "idle" => asmsg[p] \in Message

(* ... and the destructor leaves no worker asleep behind its notification. *)
DtorOK ==
  /\ stop <=> dpc # "running"
  /\ dpc \in {"join", "joined", "gone"} => Waiting = {}
  /\ dpc \in {"joined", "gone"} => \A w \in Workers : wpc[w] = "done"

IInv ==
  /\ TypeOK
  /\ LiveCells
  /\ MutexOK
  /\ WorkersOK
  /\ ProducersOK
  /\ DtorOK

InFlight == {msg[w] : w \in {v \in Workers : wpc[v] = "log"}}

Among(s) == {s[i] : i \in DOMAIN s}

(* Every accepted message with a sink is in exactly one place: waiting,    *)
(* dropped, held by one worker, or given to its sink; and nothing is given *)
(* to a sink twice.                                                        *)
OneFate ==
  /\ \A m \in Among(accepted) : HasSink(m) =>
       Cardinality({f \in {"waits", "dropped", "held", "logged"} :
                      \/ f = "waits" /\ m \in Among(Contents)
                      \/ f = "dropped" /\ m \in evicted
                      \/ f = "held" /\ m \in InFlight
                      \/ f = "logged" /\ m \in Among(logged)}) = 1
  /\ \A m \in InFlight : Cardinality({w \in Workers : msg[w] = m}) = 1
  /\ Cardinality(Among(logged)) = Len(logged)

(* The messages that wait are the ones accepted last: whatever was dropped *)
(* or taken is older than all of them.                                     *)
QueueIsNewest ==
  /\ Len(Contents) <= Len(accepted)
  /\ Contents = SubSeq(accepted, Len(accepted) - Len(Contents) + 1,
                       Len(accepted))

(* The messages accepted before the j-th that were still on their way when *)
(* the k-th call of a sink was made: the ones that call overtakes.         *)
Overtaken(k, j) ==
  {i \in 1 .. j - 1 : /\ HasSink(accepted[i])
                      /\ accepted[i] \notin evicted
                      /\ \A h \in 1 .. k : logged[h] # accepted[i]}

(* At its sink a message has overtaken no more than what the other workers *)
(* held then, at most one each: with one worker the sinks see the order of *)
(* acceptance.  How often a message is overtaken has no bound: a worker    *)
(* may stand still between pop and the call of the sink.                   *)
OvertakesFew ==
  \A k \in DOMAIN logged, j \in DOMAIN accepted :
    accepted[j] = logged[k] =>
      Cardinality(Overtaken(k, j)) <= Cardinality(Workers) - 1

(* While a worker sleeps, every waiting message has a worker on its way to *)
(* it or a notification still to be sent: no wakeup is lost.               *)
BacklogIsCovered ==
  Waiting # {} =>
    Len(Contents) <=
      Cardinality({w \in Workers : wpc[w] \in {"lock", "check", "ready", "pop"}})
      + Cardinality({p \in Producers : ppc[p] = "notify"})

(* A worker that found nothing to do and is about to sleep has missed      *)
(* neither a message nor the stop flag, and once the destructor has        *)
(* notified, nobody sleeps again.                                          *)
NoMissedStop ==
  /\ \A w \in Workers : wpc[w] = "block" => Empty /\ ~stop
  /\ dpc \in {"join", "joined", "gone"} => Waiting = {}

(* The workers leave only an empty buffer behind: what was accepted is     *)
(* logged or was dropped by the time the destructor goes on.               *)
DrainedWhenJoined ==
  dpc \in {"joined", "gone"} =>
    /\ Empty
    /\ \A m \in Among(accepted) :
         HasSink(m) => m \in evicted \cup Among(logged)

(* What the worker copied is still the oldest message when it pops, so no  *)
(* post slipped in between; the nullptr test after front() is never true.  *)
CopyIsOldest ==
  \A w \in Workers :
    /\ wpc[w] = "pop" => ~Empty /\ msg[w] = Front
    /\ wpc[w] = "ready" => stop \/ Front # Raw

(* The pool delivers as AsyncDelivery says: it drops only when Cells - 1   *)
(* messages wait, and only the oldest; workers take in order.              *)
PoolPhase == CASE dpc \in {"joined", "gone"} -> "joined"
               [] dpc \in {"notify", "join"} -> "closing"
               [] OTHER -> "open"

Held == [w \in Workers |-> IF wpc[w] = "log" THEN msg[w] ELSE NoMsg]

Delivery == INSTANCE AsyncDelivery
  WITH Capacity <- Cells - 1,
       Worker <- Workers,
       Sinkless <- {m \in Message : m.sink = NoSink},
       queue <- Contents,
       inflight <- Held,
       phase <- PoolPhase

ImplementsAsyncDelivery == Delivery!Spec

(* A message that was accepted is given to its sink or dropped, whether or *)
(* not the pool is ever destroyed.                                         *)
EveryPostSettles ==
  \A m \in {n \in Message : HasSink(n)} :
    (m \in Among(accepted)) ~> (m \in evicted \cup Among(logged))

(* ~impl returns.                                                          *)
DestructionEnds == (dpc # "running") ~> (dpc = "gone")
=============================================================================
