---------------------------- MODULE SyncLogging ----------------------------
(***************************************************************************)
(* A Logger (include/logger.h, logger-inl.h) that several threads use at   *)
(* once, and the sinks it writes to (include/sink/sink.h, basic_sink*.h,   *)
(* file_sink*.h, ansicolor_sink*.h): basicSink takes the sink's Mutex      *)
(* around formatting and writing, flushing and replacing the formatter; a  *)
(* record and its end of line are two fwrite calls; after the last sink a  *)
(* call whose level asks for it flushes all of them.  The three levels are *)
(* atomics that anybody may set at any time.                               *)
(*                                                                         *)
(* A file is the sequence of what fwrite was given, of which a prefix was  *)
(* flushed.  A formatter is a number; replacing it destroys the old one.   *)
(***************************************************************************)
EXTENDS Integers, Sequences, FiniteSets

CONSTANTS
  Thread,
  Sink,
  Locking,       \* the sinks whose Mutex is not a NonMutex
  SinkList,      \* what the constructor is given; a sink may be in it twice
  CallLevel,     \* the levels calls are made with
  SetLevelTo,    \* the levels that the setters are given
  Nobody,
  MaxCalls,      \* bound: calls per thread
  MaxChanges,    \* bound: calls of setters and of addSink
  MaxFormatters  \* bound: formatters per sink

(* enum class LEVEL                                                        *)
DEBUG == 1
INFO == 2
ERROR == 4

ASSUME SyncAssumption ==
  /\ Locking \subseteq Sink
  /\ SinkList \in Seq(Sink)
  /\ Nobody \notin Thread
  /\ CallLevel \cup SetLevelTo \subseteq 0 .. 6
  /\ MaxCalls \in Nat /\ MaxChanges \in Nat /\ MaxFormatters \in Nat \ {0}

VARIABLES
  m_sinks,
  m_level,
  m_flushLevel,
  sinkLevel,  \* m_level of each sink
  holder,     \* who holds m_mtx of each sink
  formatter,  \* m_formatter of each sink
  file,       \* what was written to each sink's FILE
  flushed,    \* how much of it was flushed, at least
  pc,         \* where each thread is
  level,      \* of its current call
  at,         \* its position in m_sinks
  using,      \* the formatter it formats with
  calls,      \* the calls it has begun
  meant,      \* history: what the levels said while its last call was made
  changes     \* how often a setter or addSink was called

loggerVars == <<m_sinks, m_level, m_flushLevel>>
sinkVars == <<holder, formatter, file, flushed>>
callVars == <<level, at, using, calls>>
setVars == <<loggerVars, sinkLevel, changes>>
vars == <<setVars, sinkVars, pc, callVars, meant>>

(* What fwrite is given: a formatted record, or the end of line.           *)
Record(t, n, f) == <<t, n, f>>
EOL == << >>

Init ==
  /\ m_sinks = SinkList
  /\ m_level = DEBUG
  /\ m_flushLevel = ERROR
  /\ sinkLevel = [s \in Sink |-> DEBUG]
  /\ holder = [s \in Sink |-> Nobody]
  /\ formatter = [s \in Sink |-> 1]
  /\ file = [s \in Sink |-> << >>]
  /\ flushed = [s \in Sink |-> 0]
  /\ pc = [t \in Thread |-> "idle"]
  /\ level = [t \in Thread |-> DEBUG]
  /\ at = [t \in Thread |-> 1]
  /\ using = [t \in Thread |-> 0]
  /\ calls = [t \in Thread |-> 0]
  /\ meant = [t \in Thread |->
                [sinks |-> << >>, always |-> {}, ever |-> {}, flush |-> FALSE]]
  /\ changes = 0

Current(t) == m_sinks[at[t]]

(* Mutant: every sink has a NonMutex.                                      *)
NeverHeld(s) == TRUE

(* NonMutex::lock() returns at once.                                       *)
CanLock(s) == s \notin Locking \/ holder[s] = Nobody

(* Mutant: the mutex stays locked.                                         *)
KeepsLock(s) == holder

Unlocked(s) == [holder EXCEPT ![s] = Nobody]

Goto(t, label) == pc' = [pc EXCEPT ![t] = label]

-----------------------------------------------------------------------------
(* Logger::log                                                             *)

ShouldLog(l) == l >= m_level

(* Mutant: the flush level itself does not flush.                          *)
ShouldFlushAbove(l) == l > m_flushLevel

ShouldFlush(l) == l >= m_flushLevel

(* Mutant: the level of the sink itself is not logged.                     *)
SinkShouldLogAbove(s, l) == l > sinkLevel[s]

SinkShouldLog(s, l) == l >= sinkLevel[s]

(* What the levels say as a call begins.                                   *)
MeantNow(l) ==
  LET wanting == {s \in Sink : l >= sinkLevel[s]}
  IN  [sinks |-> IF l >= m_level THEN m_sinks ELSE << >>,
       always |-> wanting, ever |-> wanting,
       flush |-> l >= m_level /\ l >= m_flushLevel]

Log(t, l) ==
  /\ pc[t] = "idle" /\ calls[t] < MaxCalls
  /\ level' = [level EXCEPT ![t] = l]
  /\ calls' = [calls EXCEPT ![t] = @ + 1]
  /\ at' = [at EXCEPT ![t] = 1]
  /\ Goto(t, IF ShouldLog(l) THEN "sinks" ELSE "idle")
  /\ meant' = [meant EXCEPT ![t] = MeantNow(l)]
  /\ UNCHANGED <<setVars, sinkVars, using>>

(* Logger::sinkIt: the loop over m_sinks, and what follows it.             *)
SinksDone(t) ==
  /\ pc[t] = "sinks" /\ at[t] > Len(m_sinks)
  /\ at' = [at EXCEPT ![t] = 1]
  /\ Goto(t, IF ShouldFlush(level[t]) THEN "flush" ELSE "idle")
  /\ UNCHANGED <<setVars, sinkVars, level, using, calls, meant>>

Unwanted(t) ==
  /\ pc[t] = "sinks" /\ at[t] <= Len(m_sinks)
  /\ ~SinkShouldLog(Current(t), level[t])

(* Mutant: the loop does not advance past such a sink.                     *)
SinkStuck(t) == Unwanted(t) /\ UNCHANGED vars

SinkSkip(t) ==
  /\ Unwanted(t)
  /\ at' = [at EXCEPT ![t] = @ + 1]
  /\ UNCHANGED <<setVars, sinkVars, pc, level, using, calls, meant>>

(* The sink wants the message.                                             *)
SinkWanted(t) ==
  /\ pc[t] = "sinks" /\ at[t] <= Len(m_sinks)
  /\ SinkShouldLog(Current(t), level[t])
  /\ Goto(t, "lock")
  /\ UNCHANGED <<setVars, sinkVars, callVars, meant>>

(* basicSink::log: lock_guard, then sinkIt of the sink.                    *)
SinkLock(t) ==
  /\ pc[t] = "lock"
  /\ CanLock(Current(t))
  /\ holder' = IF Current(t) \in Locking
               THEN [holder EXCEPT ![Current(t)] = t] ELSE holder
  /\ using' = [using EXCEPT ![t] = formatter[Current(t)]]
  /\ Goto(t, "format")
  /\ UNCHANGED <<setVars, formatter, file, flushed, level, at, calls, meant>>

(* m_formatter->format, then the first fwrite.                             *)
WriteRecord(t) ==
  /\ pc[t] = "format"
  /\ file' = [file EXCEPT ![Current(t)] =
                Append(@, Record(t, calls[t], using[t]))]
  /\ Goto(t, "eol")
  /\ UNCHANGED <<setVars, holder, formatter, flushed, callVars, meant>>

WriteEol(t) ==
  /\ pc[t] = "eol"
  /\ file' = [file EXCEPT ![Current(t)] = Append(@, EOL)]
  /\ holder' = Unlocked(Current(t))
  /\ at' = [at EXCEPT ![t] = @ + 1]
  /\ Goto(t, "sinks")
  /\ UNCHANGED <<setVars, formatter, flushed, level, using, calls, meant>>

(* Logger::flush: every sink in turn, each under its own mutex.            *)
FlushSink(t) ==
  /\ pc[t] = "flush" /\ at[t] <= Len(m_sinks)
  /\ CanLock(Current(t))
  /\ flushed' = [flushed EXCEPT ![Current(t)] = Len(file[Current(t)])]
  /\ at' = [at EXCEPT ![t] = @ + 1]
  /\ UNCHANGED <<setVars, holder, formatter, file, pc, level, using, calls, meant>>

FlushDone(t) ==
  /\ pc[t] = "flush" /\ at[t] > Len(m_sinks)
  /\ Goto(t, "idle")
  /\ UNCHANGED <<setVars, sinkVars, callVars, meant>>

-----------------------------------------------------------------------------
(* Setters                                                                 *)

AllIdle == \A t \in Thread : pc[t] = "idle"

(* Mutant: the formatter is replaced without the mutex.                    *)
SetFormatterUnlocked(s) ==
  /\ formatter[s] < MaxFormatters
  /\ formatter' = [formatter EXCEPT ![s] = @ + 1]
  /\ UNCHANGED <<setVars, holder, file, flushed, pc, callVars, meant>>

(* setFormatter and setPattern, by any thread, inside the mutex.  Without  *)
(* one, nobody may be logging: the caller's part.                          *)
SetFormatter(s) ==
  /\ formatter[s] < MaxFormatters
  /\ IF s \in Locking THEN CanLock(s) ELSE AllIdle
  /\ formatter' = [formatter EXCEPT ![s] = @ + 1]
  /\ UNCHANGED <<setVars, holder, file, flushed, pc, callVars, meant>>

Change == changes < MaxChanges /\ changes' = changes + 1

(* Calls whose level tests are not all over.                               *)
InLoop(t) == pc[t] \in {"sinks", "lock", "format", "eol"}

SetSinkLevel(s, l) ==
  /\ Change
  /\ sinkLevel' = [sinkLevel EXCEPT ![s] = l]
  /\ meant' = [t \in Thread |->
       IF ~InLoop(t) THEN meant[t]
       ELSE IF level[t] >= l THEN [meant[t] EXCEPT !.ever = @ \cup {s}]
                             ELSE [meant[t] EXCEPT !.always = @ \ {s}]]
  /\ UNCHANGED <<loggerVars, sinkVars, pc, callVars>>

SetLevel(l) ==
  /\ Change
  /\ m_level' = l
  /\ UNCHANGED <<m_sinks, m_flushLevel, sinkLevel, sinkVars, pc, callVars, meant>>

SetFlush(l) ==
  /\ Change
  /\ m_flushLevel' = l
  /\ meant' = [t \in Thread |->
       IF InLoop(t) THEN [meant[t] EXCEPT !.flush = @ /\ level[t] >= l]
                    ELSE meant[t]]
  /\ UNCHANGED <<m_sinks, m_level, sinkLevel, sinkVars, pc, callVars>>

(* m_sinks.push_back, which takes no lock.                                 *)
PushSink(s) ==
  /\ Change
  /\ m_sinks' = Append(m_sinks, s)
  /\ UNCHANGED <<m_level, m_flushLevel, sinkLevel, sinkVars, pc, callVars, meant>>

(* The vector may be moved: nobody may be inside the logger, the caller's  *)
(* part.                                                                   *)
AddSink(s) == AllIdle /\ PushSink(s)

-----------------------------------------------------------------------------
LogStep(t) ==
  \/ SinksDone(t) \/ SinkSkip(t) \/ SinkWanted(t) \/ SinkLock(t)
  \/ WriteRecord(t) \/ WriteEol(t) \/ FlushSink(t) \/ FlushDone(t)

Over ==
  /\ \A t \in Thread : pc[t] = "idle" /\ calls[t] = MaxCalls
  /\ UNCHANGED vars

Next ==
  \/ \E t \in Thread : LogStep(t) \/ \E l \in CallLevel : Log(t, l)
  \/ \E s \in Sink : SetFormatter(s) \/ AddSink(s)
  \/ \E l \in SetLevelTo : SetLevel(l) \/ SetFlush(l)
  \/ \E s \in Sink, l \in SetLevelTo : SetSinkLevel(s, l)
  \/ Over

Spec == Init /\ [][Next]_vars

-----------------------------------------------------------------------------
(* A mutex is held by the thread that is inside its sink.                  *)
HeldInside ==
  \A s \in Sink : holder[s] # Nobody =>
    pc[holder[s]] \in {"format", "eol"} /\ Current(holder[s]) = s

(* The state is well-formed; a half-written line is a locked one's.        *)
TypeOK ==
  /\ m_sinks \in Seq(Sink)
  /\ {m_level, m_flushLevel} \subseteq 0 .. 6
  /\ sinkLevel \in [Sink -> 0 .. 6]
  /\ formatter \in [Sink -> 1 .. MaxFormatters]
  /\ flushed \in [Sink -> Nat]
  /\ pc \in [Thread -> {"idle", "sinks", "lock", "format", "eol", "flush"}]
  /\ level \in [Thread -> 0 .. 6]
  /\ at \in [Thread -> 1 .. Len(m_sinks) + 1]
  /\ using \in [Thread -> 0 .. MaxFormatters]
  /\ calls \in [Thread -> 0 .. MaxCalls]
  /\ HeldInside

(* In the file of a sink that locks, a record is followed by its own end   *)
(* of line, however the threads interleave.                                *)
LinesWhole ==
  \A s \in Locking : \A i \in DOMAIN file[s] :
    (file[s][i] = EOL) = (i % 2 = 0)

(* Nobody replaces, and so destroys, the formatter a thread formats with.  *)
FormatterAlive ==
  \A t \in Thread : pc[t] = "format" => using[t] = formatter[Current(t)]

(* Once a line was formatted with a new formatter, no later line of the    *)
(* file shows an older one.                                                *)
FormattersInOrder ==
  \A s \in Sink : \A i, j \in DOMAIN file[s] :
    i < j /\ file[s][i] # EOL /\ file[s][j] # EOL
      => file[s][i][3] <= file[s][j][3]

RecordsOf(s, t, n) ==
  {i \in DOMAIN file[s] : file[s][i] # EOL /\ file[s][i][1] = t
                                           /\ file[s][i][2] = n}

Occurrences(s, sinks) == Cardinality({i \in DOMAIN sinks : sinks[i] = s})

Returned(t) == pc[t] = "idle" /\ calls[t] > 0

(* A call that returned has written one line for each occurrence in        *)
(* m_sinks of a sink that wanted its level all the time, none where the    *)
(* level was never wanted, and at most that where it was for a while.      *)
LinesPerCall ==
  \A t \in Thread : Returned(t) => \A s \in Sink :
    LET lines == Cardinality(RecordsOf(s, t, calls[t]))
        all == Occurrences(s, meant[t].sinks)
    IN  /\ lines <= all
        /\ s \in meant[t].always => lines = all
        /\ s \notin meant[t].ever => lines = 0

(* When a call returns that was at or above the flush level all the time,  *)
(* its lines have left the process, whatever other threads wrote.          *)
FlushedOnReturn ==
  \A t \in Thread : Returned(t) /\ meant[t].flush =>
    \A s \in Sink : \A i \in RecordsOf(s, t, calls[t]) : i < flushed[s]
=============================================================================
