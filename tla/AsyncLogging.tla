---------------------------- MODULE AsyncLogging ----------------------------
(***************************************************************************)
(* An asyncLogger (include/async_logger.h, async_logger-inl.h, logger.h)   *)
(* with its sinks, the thread pool it posts to, the threads that log and   *)
(* the owner that holds the three kinds of std::shared_ptr: to the logger, *)
(* to the sinks and to the pool.                                           *)
(*                                                                         *)
(* The pool is AsyncDelivery, which ThreadPool implements.  The logger     *)
(* has only a weak_ptr to it; whoever drops the last strong reference runs *)
(* ~threadPool.  A sink is closed by whoever drops its last reference:     *)
(* the owner, the logger, a queued message, or a worker.                   *)
(***************************************************************************)
EXTENDS Integers, Sequences, FiniteSets

CONSTANTS
  Client,       \* threads that log
  Owner,        \* the thread that created pool, sinks and logger
  Worker,       \* threads of the pool
  Sink,
  SinkList,     \* m_sinks: a sequence of sinks
  Level,        \* the levels calls are made with
  LoggerLevel,  \* m_level of the logger, at first
  SinkLevel,    \* m_level of each sink, at first
  SetLevelTo,   \* the levels that the setters are given
  Capacity,     \* what the queue of the pool holds
  NoMsg,
  MaxCalls,     \* bound: calls per client
  MaxSets       \* bound: calls of setters

Slots == DOMAIN SinkList

Thread == Client \cup {Owner}

(* One message per call and position in m_sinks.                           *)
Entry == [from : Client, nr : 1 .. MaxCalls, level : Level, at : Slots]

SinkOf(m) == SinkList[m.at]

ASSUME LoggingAssumption ==
  /\ Owner \notin Client
  /\ IsFiniteSet(Client) /\ IsFiniteSet(Worker)
  /\ "pool" \notin Sink /\ "logger" \notin Sink
  /\ SinkList \in Seq(Sink)
  /\ Level \subseteq Int /\ LoggerLevel \in Int /\ SinkLevel \in [Sink -> Int]
  /\ SetLevelTo \subseteq Int
  /\ Capacity \in Nat \ {0}
  /\ MaxCalls \in Nat /\ MaxSets \in Nat
  /\ NoMsg \notin Entry

VARIABLES
  queue, inflight, logged, evicted, phase,    \* the pool
  pc,           \* where each thread is
  call,         \* level of the current call of a client
  calls,        \* calls each client has begun
  next,         \* position of the range-for over m_sinks
  m_level,      \* level of the logger
  sinkLevel,    \* and of each sink
  sets,         \* how often one of them was set
  poolRefs,     \* strong references to the pool
  held,         \* what the owner still holds: "pool", "logger", sinks
  refs,         \* strong references to each sink
  open,         \* the sink exists and its file is open
  written,      \* records given to fwrite, per sink
  durable,      \* how many of them were flushed, at least
  posted,       \* history: what was handed to postmsg
  missed,       \* history: calls that found the pool gone
  meant         \* history: the positions in m_sinks that wanted the last
                \* call of each client all the time, or for some of it

poolVars == <<queue, inflight, logged, evicted, phase>>
callVars == <<call, calls, next>>
levelVars == <<m_level, sinkLevel, sets>>
sinkVars == <<refs, open, written, durable>>
historyVars == <<posted, missed, meant>>
vars == <<poolVars, pc, callVars, levelVars, poolRefs, held, sinkVars,
          historyVars>>

Pool == INSTANCE AsyncDelivery WITH Message <- Entry, Sinkless <- {}

Occurrences(s) == Cardinality({i \in Slots : SinkList[i] = s})

Init ==
  /\ Pool!Init
  /\ pc = [t \in Thread |-> "idle"]
  /\ call = [c \in Client |-> LoggerLevel]
  /\ calls = [c \in Client |-> 0]
  /\ next = [c \in Client |-> 1]
  /\ m_level = LoggerLevel
  /\ sinkLevel = SinkLevel
  /\ sets = 0
  /\ poolRefs = 1
  /\ held = {"pool", "logger"} \cup Sink
  /\ refs = [s \in Sink |-> 1 + Occurrences(s)]
  /\ open = [s \in Sink |-> TRUE]
  /\ written = [s \in Sink |-> << >>]
  /\ durable = [s \in Sink |-> 0]
  /\ posted = {}
  /\ missed = {}
  /\ meant = [c \in Client |-> [always |-> {}, ever |-> {}]]

-----------------------------------------------------------------------------
(* Logger::log, up to the virtual sinkIt                                   *)

ShouldLog(level) == level >= m_level

MeantNow(level) ==
  LET wanting == {i \in Slots : level >= m_level
                                /\ level >= sinkLevel[SinkList[i]]}
  IN  [always |-> wanting, ever |-> wanting]

(* The caller's part of the contract: no call on a logger that is gone.    *)
Call(c, level) ==
  /\ pc[c] = "idle" /\ "logger" \in held /\ calls[c] < MaxCalls
  /\ calls' = [calls EXCEPT ![c] = @ + 1]
  /\ call' = [call EXCEPT ![c] = level]
  /\ pc' = [pc EXCEPT ![c] = IF ShouldLog(level) THEN "sink" ELSE "idle"]
  /\ meant' = [meant EXCEPT ![c] = MeantNow(level)]
  /\ UNCHANGED <<poolVars, next, levelVars, poolRefs, held, sinkVars, posted,
                 missed>>

(* setLevel of the logger, and of a sink, which the owner has, to another  *)
(* level.                                                                  *)
SetLevel(level) ==
  /\ "logger" \in held /\ sets < MaxSets /\ level # m_level
  /\ sets' = sets + 1
  /\ m_level' = level
  /\ UNCHANGED <<poolVars, pc, callVars, sinkLevel, poolRefs, held, sinkVars,
                 historyVars>>

SetSinkLevel(s, level) ==
  /\ s \in held /\ sets < MaxSets /\ level # sinkLevel[s]
  /\ sets' = sets + 1
  /\ sinkLevel' = [sinkLevel EXCEPT ![s] = level]
  /\ LET slots == {i \in Slots : SinkList[i] = s}
     IN  meant' = [c \in Client |->
           IF pc[c] \notin {"sink", "post"} THEN meant[c]
           ELSE IF call[c] >= level THEN [meant[c] EXCEPT !.ever = @ \cup slots]
                ELSE [meant[c] EXCEPT !.always = @ \ slots]]
  /\ UNCHANGED <<poolVars, pc, callVars, m_level, poolRefs, held, sinkVars,
                 posted, missed>>

-----------------------------------------------------------------------------
(* asyncLogger::sinkIt                                                     *)

Msg(c, i) == [from |-> c, nr |-> calls[c], level |-> call[c], at |-> i]

(* Mutant: the weak_ptr is looked at and not locked.                       *)
StrongRef == 0

(* What weak_ptr::lock adds to the count of strong references.             *)
LockedRef == 1

LockPool(c) ==
  /\ pc[c] = "sink"
  /\ IF poolRefs > 0
     THEN /\ poolRefs' = poolRefs + LockedRef
          /\ pc' = [pc EXCEPT ![c] = "post"]
          /\ UNCHANGED missed
     ELSE /\ pc' = [pc EXCEPT ![c] = "idle"]
          /\ missed' = missed \cup {<<c, calls[c]>>}
          /\ UNCHANGED poolRefs
  /\ next' = [next EXCEPT ![c] = 1]
  /\ UNCHANGED <<poolVars, call, calls, levelVars, held, sinkVars, posted, meant>>

(* The sinkPtr in an async_msg.                                            *)
Ref(m, s) == IF SinkOf(m) = s THEN 1 ELSE 0

(* Mutant: a queued message keeps a plain pointer to its sink.             *)
Borrowed(m, s) == 0

Copied(m, s) == Ref(m, s)

(* Mutant: the message is not destroyed.                                   *)
Leaked(m, s) == 0

Released(m, s) == Ref(m, s)

(* A sink whose last reference goes is destroyed: fclose flushes its file. *)
SettleSinks ==
  /\ open' = [s \in Sink |-> open[s] /\ refs'[s] > 0]
  /\ durable' = [s \in Sink |-> IF open[s] /\ refs'[s] = 0
                                THEN Len(written'[s]) ELSE durable[s]]

SinkShouldLog(s, level) == level >= sinkLevel[s]

(* Mutant: a sink that does not want the message ends the loop.            *)
NextOrBreak(c, wanted) ==
  next' = [next EXCEPT ![c] = IF wanted THEN @ + 1 ELSE Len(SinkList) + 1]

Advance(c, wanted) == next' = [next EXCEPT ![c] = @ + 1]

(* One round of the loop: postmsg to a sink that wants the message.  A     *)
(* stopped pool ignores the post.                                          *)
Post(c) ==
  /\ pc[c] = "post" /\ next[c] \in Slots
  /\ LET m == Msg(c, next[c])
         evicts == Len(queue) = Capacity
         wanted == SinkShouldLog(SinkOf(m), call[c])
     IN  Advance(c, wanted) /\
         IF wanted
         THEN /\ posted' = posted \cup {m}
              /\ IF phase = "open"
                 THEN /\ Pool!Accept(m)
                      /\ refs' = [s \in Sink |->
                                    refs[s] + Copied(m, s)
                                    - IF evicts THEN Released(Head(queue), s)
                                                ELSE 0]
                      /\ UNCHANGED written
                      /\ SettleSinks
                 ELSE UNCHANGED <<poolVars, sinkVars>>
         ELSE UNCHANGED <<poolVars, sinkVars, posted>>
  /\ UNCHANGED <<pc, call, calls, levelVars, poolRefs, held, missed, meant>>

(* Mutant: the reference is not given back.                                *)
UnlockLeaks(c) ==
  /\ pc[c] = "post" /\ next[c] \notin Slots
  /\ pc' = [pc EXCEPT ![c] = "idle"]
  /\ UNCHANGED <<poolVars, callVars, levelVars, poolRefs, held, sinkVars, historyVars>>

(* The locked shared_ptr goes out of scope; if the owner has let go, this  *)
(* thread now destroys the pool.                                           *)
Unlock(c) ==
  /\ pc[c] = "post" /\ next[c] \notin Slots
  /\ poolRefs' = poolRefs - LockedRef
  /\ pc' = [pc EXCEPT ![c] = IF poolRefs' = 0 THEN "close" ELSE "idle"]
  /\ UNCHANGED <<poolVars, callVars, levelVars, held, sinkVars, historyVars>>

-----------------------------------------------------------------------------
(* The owner                                                               *)

DropPool ==
  /\ "pool" \in held /\ pc[Owner] = "idle"
  /\ held' = held \ {"pool"}
  /\ poolRefs' = poolRefs - 1
  /\ pc' = [pc EXCEPT ![Owner] = IF poolRefs = 1 THEN "close" ELSE "idle"]
  /\ UNCHANGED <<poolVars, callVars, levelVars, sinkVars, historyVars>>

DropSink(s) ==
  /\ s \in held /\ pc[Owner] = "idle"
  /\ held' = held \ {s}
  /\ refs' = [refs EXCEPT ![s] = @ - 1]
  /\ UNCHANGED written
  /\ SettleSinks
  /\ UNCHANGED <<poolVars, pc, callVars, levelVars, poolRefs, historyVars>>

(* Nobody may be inside the logger when it goes; its m_sinks go with it.   *)
DropLogger ==
  /\ "logger" \in held /\ pc[Owner] = "idle"
  /\ \A c \in Client : pc[c] = "idle"
  /\ held' = held \ {"logger"}
  /\ refs' = [s \in Sink |-> refs[s] - Occurrences(s)]
  /\ UNCHANGED written
  /\ SettleSinks
  /\ UNCHANGED <<poolVars, pc, callVars, levelVars, poolRefs, historyVars>>

(* sink->flush(): what was written so far reaches the file.                *)
Flush(s) ==
  /\ s \in held /\ pc[Owner] = "idle"
  /\ durable[s] # Len(written[s])
  /\ durable' = [durable EXCEPT ![s] = Len(written[s])]
  /\ UNCHANGED <<poolVars, pc, callVars, levelVars, poolRefs, held, refs, open, written,
                 historyVars>>

-----------------------------------------------------------------------------
(* ~threadPool, by the thread that dropped the last reference              *)

CloseStep(t) ==
  /\ pc[t] = "close"
  /\ Pool!Close
  /\ pc' = [pc EXCEPT ![t] = "join"]
  /\ UNCHANGED <<callVars, levelVars, poolRefs, held, sinkVars, historyVars>>

JoinStep(t) ==
  /\ pc[t] = "join"
  /\ Pool!Join
  /\ pc' = [pc EXCEPT ![t] = "idle"]
  /\ UNCHANGED <<callVars, levelVars, poolRefs, held, sinkVars, historyVars>>

-----------------------------------------------------------------------------
(* Workers                                                                 *)

(* msg = *queued; pop(): the reference moves with the message.             *)
TakeStep(w) ==
  /\ Pool!Take(w)
  /\ UNCHANGED <<pc, callVars, levelVars, poolRefs, held, sinkVars, historyVars>>

(* sink->log, then the message and its reference to the sink go.           *)
DeliverStep(w) ==
  /\ Pool!Deliver(w)
  /\ LET m == inflight[w]
     IN  /\ written' = [written EXCEPT ![SinkOf(m)] = Append(@, m)]
         /\ refs' = [s \in Sink |-> refs[s] - Released(m, s)]
  /\ SettleSinks
  /\ UNCHANGED <<pc, callVars, levelVars, poolRefs, held, historyVars>>

-----------------------------------------------------------------------------
ClientStep(c) == LockPool(c) \/ Post(c) \/ Unlock(c)

DestroyStep(t) == CloseStep(t) \/ JoinStep(t)

WorkerStep(w) == TakeStep(w) \/ DeliverStep(w)

OwnerStep == DropPool \/ DropLogger \/ \E s \in Sink : DropSink(s) \/ Flush(s)

AllDropped == held = {} /\ \A t \in Thread : pc[t] = "idle"

Over == AllDropped /\ phase = "joined" /\ UNCHANGED vars

Next ==
  \/ \E c \in Client : ClientStep(c) \/ \E l \in Level : Call(c, l)
  \/ \E t \in Thread : DestroyStep(t)
  \/ \E w \in Worker : WorkerStep(w)
  \/ OwnerStep
  \/ \E l \in SetLevelTo : SetLevel(l) \/ \E s \in Sink : SetSinkLevel(s, l)
  \/ Over

Spec == Init /\ [][Next]_vars

(* A thread inside the library keeps running; calls, flushes, setters and  *)
(* drops are up to the program.                                            *)
FairSpec ==
  /\ Spec
  /\ \A c \in Client : WF_vars(ClientStep(c))
  /\ \A t \in Thread : WF_vars(DestroyStep(t))
  /\ \A w \in Worker : WF_vars(WorkerStep(w))

-----------------------------------------------------------------------------
TypeOK ==
  /\ queue \in Seq(Entry)
  /\ inflight \in [Worker -> Entry \cup {NoMsg}]
  /\ evicted \in SUBSET Entry
  /\ phase \in {"open", "closing", "joined"}
  /\ pc \in [Thread -> {"idle", "sink", "post", "close", "join"}]
  /\ call \in [Client -> Int]
  /\ calls \in [Client -> 0 .. MaxCalls]
  /\ next \in [Client -> 1 .. Len(SinkList) + 1]
  /\ m_level \in Int /\ sinkLevel \in [Sink -> Int] /\ sets \in 0 .. MaxSets
  /\ poolRefs \in Nat
  /\ held \in SUBSET ({"pool", "logger"} \cup Sink)
  /\ refs \in [Sink -> Nat]
  /\ open \in [Sink -> BOOLEAN]
  /\ written \in [Sink -> Seq(Entry)]
  /\ durable \in [Sink -> Nat]
  /\ posted \in SUBSET Entry
  /\ missed \in SUBSET (Client \X (1 .. MaxCalls))

Among(s) == {s[i] : i \in DOMAIN s}

(* The messages the pool still has.                                        *)
Pending == Among(queue) \cup ({inflight[w] : w \in Worker} \ {NoMsg})

(* A worker never logs to a destroyed sink or a closed file, in whatever   *)
(* order the owner lets go of logger, sinks and pool.                      *)
SinkOutlivesMessages == \A m \in Pending : open[SinkOf(m)]

(* A logging thread never posts to a pool that is being destroyed: the     *)
(* locked weak_ptr holds the destructor off, and the post is accepted.     *)
PoolOutlivesPosts ==
  \A c \in Client : pc[c] = "post" => phase = "open"

(* What the pool accepted: it waits, is with a worker, was dropped, or is  *)
(* written.                                                                *)
Accepted == Pending \cup evicted \cup UNION {Among(written[s]) : s \in Sink}

(* When a call is over, the pool has accepted its message for all sinks    *)
(* that wanted its level while it was made, for none that did not at any   *)
(* time of it, or, the pool being gone, for none: it is not stopped in the *)
(* middle of the loop.  What the levels are when a worker writes is        *)
(* without effect.                                                         *)
AllSinksOrNone ==
  \A c \in Client : pc[c] \notin {"sink", "post"} /\ calls[c] > 0 =>
    LET reached == {m.at : m \in {k \in Accepted : k.from = c /\ k.nr = calls[c]}}
    IN  IF <<c, calls[c]>> \in missed THEN reached = {}
        ELSE meant[c].always \subseteq reached /\ reached \subseteq meant[c].ever

(* Once every handle is gone, so is every sink, and each message that was  *)
(* posted is in its file, flushed, or was evicted.                         *)
EverythingSettled ==
  AllDropped =>
    /\ phase = "joined" /\ Pending = {}
    /\ \A s \in Sink : ~open[s] /\ durable[s] = Len(written[s])
    /\ \A m \in posted : m \in evicted \/ m \in Among(written[SinkOf(m)])

(* A message is written at most once and never after it was evicted.       *)
WrittenOnce ==
  \A s \in Sink :
    /\ Cardinality(Among(written[s])) = Len(written[s])
    /\ Among(written[s]) \cap evicted = {}

(* Letting go of the pool ends in its destruction, by the owner or by a    *)
(* logging thread, with nothing left in it.                                *)
PoolIsDestroyed ==
  ("pool" \notin held) ~> (phase = "joined" /\ Pending = {})

(* What OPTIMIZATION_PLAN.md:60 asks of asynchronous logging: the logger,  *)
(* whose m_name every message points into, is not destroyed while          *)
(* messages are on their way.                                              *)
LoggerOutlivesMessages == Pending # {} => "logger" \in held
=============================================================================
