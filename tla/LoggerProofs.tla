---------------------------- MODULE LoggerProofs ----------------------------
(***************************************************************************)
(* Proofs about SyncLogging, for every number of threads and sinks, every  *)
(* list of sinks and every level, and about RootLogger.                    *)
(*                                                                         *)
(* The inductive invariant has one conjunct for each thing a reader of the *)
(* code relies on: who holds a sink's mutex (LockInv), what its file looks *)
(* like (LineInv), which formatter wrote it (FormatInv), and, for each     *)
(* thread, what its current call has flushed (FlushOK) and how many lines  *)
(* it has written (CountOK).                                               *)
(***************************************************************************)
EXTENDS RootLogger, SequenceTheorems, FiniteSetTheorems, TLAPS

Entry == {EOL} \cup (Thread \X (1 .. MaxCalls) \X (1 .. MaxFormatters))

Meaning ==
  [sinks : Seq(Sink), always : SUBSET Sink, ever : SUBSET Sink, flush : BOOLEAN]

Shapes ==
  /\ TypeOK
  /\ holder \in [Sink -> Thread \cup {Nobody}]
  /\ file \in [Sink -> Seq(Entry)]
  /\ meant \in [Thread -> Meaning]
  /\ \A s \in Sink : flushed[s] <= Len(file[s])

(* A thread in the loop has a sink, and holds its mutex while inside it.   *)
LockInv ==
  /\ \A t \in Thread :
       pc[t] \in {"lock", "format", "eol"} => at[t] <= Len(m_sinks)
  /\ \A t \in Thread :
       pc[t] \in {"format", "eol"} /\ Current(t) \in Locking
         => holder[Current(t)] = t

(* A file has a record without its end of line only while the thread that  *)
(* holds the mutex is between its two writes.                              *)
HalfLine(s) == holder[s] # Nobody /\ pc[holder[s]] = "eol"

LineInv ==
  /\ LinesWhole
  /\ \A s \in Locking : (Len(file[s]) % 2 = 1) <=> HalfLine(s)

(* No line was formatted by a formatter yet to come.                       *)
FormatInv ==
  /\ FormatterAlive
  /\ FormattersInOrder
  /\ \A s \in Sink : \A i \in DOMAIN file[s] :
       file[s][i] # EOL => file[s][i][3] <= formatter[s]

(* The records of a call are no older than the call.                       *)
HistoryInv ==
  /\ \A t \in Thread : pc[t] # "idle" => calls[t] > 0
  /\ \A s \in Sink : \A i \in DOMAIN file[s] :
       file[s][i] # EOL => file[s][i][2] <= calls[file[s][i][1]]

(* The lines of t's call are in sinks of the logger and complete but for   *)
(* the one being written; flush has reached them or has yet to.            *)
FlushOK(t) ==
  /\ InLoop(t) /\ meant[t].flush => level[t] >= m_flushLevel
  /\ \A s \in Sink : \A i \in RecordsOf(s, t, calls[t]) :
       /\ pc[t] # "idle" => \E j \in 1 .. Len(m_sinks) : m_sinks[j] = s
       /\ i < Len(file[s]) \/ (pc[t] = "eol" /\ Current(t) = s)
       /\ pc[t] = "flush" =>
            i < flushed[s] \/ \E j \in at[t] .. Len(m_sinks) : m_sinks[j] = s
       /\ pc[t] = "idle" /\ meant[t].flush => i < flushed[s]

(* The positions of a sink among the first k of m_sinks, and how many      *)
(* positions t's call is done with.                                        *)
UpTo(s, k) == {i \in 1 .. k : m_sinks[i] = s}

Passed(t) ==
  CASE pc[t] = "eol" -> at[t]
    [] pc[t] = "flush" -> Len(m_sinks)
    [] OTHER -> at[t] - 1

Due(s, t) == Cardinality(UpTo(s, Passed(t)))

Lines(s, t) == Cardinality(RecordsOf(s, t, calls[t]))

CountOK(t) ==
  /\ pc[t] # "idle" =>
       /\ meant[t].sinks = m_sinks
       /\ \A s \in Sink :
            /\ Lines(s, t) <= Due(s, t)
            /\ s \in meant[t].always => Lines(s, t) = Due(s, t)
            /\ s \notin meant[t].ever => Lines(s, t) = 0
  /\ InLoop(t) => \A s \in Sink :
       /\ s \in meant[t].always => level[t] >= sinkLevel[s]
       /\ level[t] >= sinkLevel[s] => s \in meant[t].ever
  /\ pc[t] \in {"lock", "format", "eol"} => Current(t) \in meant[t].ever
  /\ Returned(t) => \A s \in Sink :
       /\ Lines(s, t) <= Occurrences(s, meant[t].sinks)
       /\ s \in meant[t].always => Lines(s, t) = Occurrences(s, meant[t].sinks)
       /\ s \notin meant[t].ever => Lines(s, t) = 0

IInv ==
  /\ Shapes /\ LockInv /\ LineInv /\ FormatInv /\ HistoryInv
  /\ \A t \in Thread : FlushOK(t) /\ CountOK(t)

-----------------------------------------------------------------------------
(* Files                                                                   *)

LEMMA EntryFacts ==
  /\ EOL \in Entry
  /\ \A t \in Thread, n \in 1 .. MaxCalls, f \in 1 .. MaxFormatters :
       /\ Record(t, n, f) \in Entry /\ Record(t, n, f) # EOL
       /\ Record(t, n, f)[1] = t /\ Record(t, n, f)[2] = n /\ Record(t, n, f)[3] = f
  /\ \A e \in Entry \ {EOL} :
       e[1] \in Thread /\ e[2] \in 1 .. MaxCalls /\ e[3] \in 1 .. MaxFormatters
BY DEF Entry, EOL, Record

(* One fwrite: the file grows by one entry, no other file changes.         *)
LEMMA Fwrite ==
  ASSUME file \in [Sink -> Seq(Entry)], NEW s \in Sink, NEW e \in Entry,
         file' = [file EXCEPT ![s] = Append(@, e)]
  PROVE  /\ file' \in [Sink -> Seq(Entry)]
         /\ \A r \in Sink \ {s} : file'[r] = file[r]
         /\ Len(file[s]) \in Nat /\ Len(file'[s]) = Len(file[s]) + 1
         /\ DOMAIN file[s] = 1 .. Len(file[s])
         /\ DOMAIN file'[s] = 1 .. Len(file[s]) + 1
         /\ \A i \in 1 .. Len(file[s]) : file'[s][i] = file[s][i]
         /\ file'[s][Len(file[s]) + 1] = e
<1>1. file[s] \in Seq(Entry) /\ file'[s] = Append(file[s], e)
  OBVIOUS
<1>2. /\ Append(file[s], e) \in Seq(Entry)
      /\ Len(Append(file[s], e)) = Len(file[s]) + 1
      /\ \A i \in 1 .. Len(file[s]) : Append(file[s], e)[i] = file[s][i]
      /\ Append(file[s], e)[Len(file[s]) + 1] = e
  BY <1>1, AppendProperties
<1>3. QED BY <1>1, <1>2, LenProperties

(* The records of a call are finitely many positions of a file.            *)
LEMMA RecordsFinite ==
  ASSUME Shapes, NEW s \in Sink, NEW t, NEW n
  PROVE  /\ IsFiniteSet(RecordsOf(s, t, n))
         /\ Cardinality(RecordsOf(s, t, n)) \in Nat
         /\ RecordsOf(s, t, n) \subseteq 1 .. Len(file[s])
<1>1. file[s] \in Seq(Entry)
  BY DEF Shapes
<1>2. Len(file[s]) \in Nat /\ DOMAIN file[s] = 1 .. Len(file[s])
  BY <1>1, LenProperties
<1>3. RecordsOf(s, t, n) \subseteq 1 .. Len(file[s])
  BY <1>2 DEF RecordsOf
<1>4. IsFiniteSet(1 .. Len(file[s]))
  BY <1>2, FS_Interval
<1>5. QED BY <1>3, <1>4, FS_Subset, FS_CardinalityType

(* A thread inside a sink stands at a sink of the logger.                  *)
LEMMA CurrentSink ==
  ASSUME Shapes, LockInv, NEW t \in Thread, pc[t] \in {"lock", "format", "eol"}
  PROVE  /\ at[t] \in 1 .. Len(m_sinks) /\ Len(m_sinks) \in Nat
         /\ Current(t) \in Sink
BY LenProperties, ElementOfSeq DEF Shapes, TypeOK, LockInv, Current

(* What is written as a record is one, of the thread's call and formatter. *)
LEMMA RecordWritten ==
  ASSUME IInv, NEW t \in Thread, pc[t] = "format"
  PROVE  /\ Current(t) \in Sink
         /\ using[t] = formatter[Current(t)]
         /\ calls[t] \in 1 .. MaxCalls /\ using[t] \in 1 .. MaxFormatters
         /\ Record(t, calls[t], using[t]) \in Entry \ {EOL}
         /\ Record(t, calls[t], using[t])[1] = t
         /\ Record(t, calls[t], using[t])[2] = calls[t]
         /\ Record(t, calls[t], using[t])[3] = using[t]
<1>1. Current(t) \in Sink
  BY CurrentSink DEF IInv
<1>2. using[t] = formatter[Current(t)]
  BY DEF IInv, FormatInv, FormatterAlive
<1>3. calls[t] \in 1 .. MaxCalls /\ using[t] \in 1 .. MaxFormatters
  <2>1. calls[t] \in 0 .. MaxCalls /\ formatter[Current(t)] \in 1 .. MaxFormatters
    BY <1>1 DEF IInv, Shapes, TypeOK
  <2>2. calls[t] > 0
    BY DEF IInv, HistoryInv
  <2>3. QED BY <1>2, <2>1, <2>2, SyncAssumption
<1>4. QED BY <1>1, <1>2, <1>3, EntryFacts

(* The two steps that write.                                               *)
LEMMA RecordStep ==
  ASSUME IInv, NEW t \in Thread, WriteRecord(t)
  PROVE  LET s == Current(t)
             n == Len(file[s]) + 1
             e == Record(t, calls[t], using[t])
         IN  /\ s \in Sink
             /\ file' \in [Sink -> Seq(Entry)]
             /\ \A r \in Sink \ {s} : file'[r] = file[r]
             /\ Len(file[s]) \in Nat /\ Len(file'[s]) = n
             /\ DOMAIN file[s] = 1 .. Len(file[s]) /\ DOMAIN file'[s] = 1 .. n
             /\ \A i \in 1 .. Len(file[s]) : file'[s][i] = file[s][i]
             /\ file'[s][n] = e
BY RecordWritten, Fwrite DEF WriteRecord, IInv, Shapes

LEMMA EolStep ==
  ASSUME IInv, NEW t \in Thread, WriteEol(t)
  PROVE  LET s == Current(t)
             n == Len(file[s]) + 1
         IN  /\ s \in Sink
             /\ file' \in [Sink -> Seq(Entry)]
             /\ \A r \in Sink \ {s} : file'[r] = file[r]
             /\ Len(file[s]) \in Nat /\ Len(file'[s]) = n
             /\ DOMAIN file[s] = 1 .. Len(file[s]) /\ DOMAIN file'[s] = 1 .. n
             /\ \A i \in 1 .. Len(file[s]) : file'[s][i] = file[s][i]
             /\ file'[s][n] = EOL
<1>1. Current(t) \in Sink
  BY CurrentSink DEF WriteEol, IInv
<1>2. QED BY <1>1, EntryFacts, Fwrite DEF WriteEol, IInv, Shapes

(* Writing a record adds it to those of its own call; the end of line      *)
(* adds none.                                                              *)
LEMMA RecordsAfterWrite ==
  ASSUME IInv, NEW t \in Thread, NEW s \in Sink, NEW u \in Thread
  PROVE  /\ WriteRecord(t) =>
              RecordsOf(s, u, calls[u])' =
                IF s = Current(t) /\ u = t
                THEN RecordsOf(s, u, calls[u]) \cup {Len(file[s]) + 1}
                ELSE RecordsOf(s, u, calls[u])
         /\ WriteEol(t) => RecordsOf(s, u, calls[u])' = RecordsOf(s, u, calls[u])
<1>1. ASSUME WriteRecord(t), s # Current(t) \/ u # t
      PROVE  RecordsOf(s, u, calls[u])' = RecordsOf(s, u, calls[u])
  <2>1. /\ calls' = calls /\ pc[t] = "format"
        /\ Record(t, calls[t], using[t])[1] = t
    BY <1>1, RecordWritten DEF WriteRecord, callVars
  <2>2. QED BY <1>1, <2>1, RecordStep DEF RecordsOf
<1>2. ASSUME WriteRecord(t), s = Current(t), u = t
      PROVE  RecordsOf(s, u, calls[u])' =
               RecordsOf(s, u, calls[u]) \cup {Len(file[s]) + 1}
  <2>1. /\ calls' = calls /\ pc[t] = "format"
        /\ Record(t, calls[t], using[t])[1] = t
        /\ Record(t, calls[t], using[t])[2] = calls[t]
        /\ Record(t, calls[t], using[t]) # EOL
    BY <1>2, RecordWritten DEF WriteRecord, callVars
  <2>2. ASSUME NEW i \in 1 .. Len(file[s]) + 1
        PROVE  i \in RecordsOf(s, t, calls[t])' <=>
                 i \in RecordsOf(s, t, calls[t]) \/ i = Len(file[s]) + 1
    <3>1. /\ DOMAIN file[s] = 1 .. Len(file[s]) /\ Len(file[s]) \in Nat
          /\ DOMAIN file'[s] = 1 .. Len(file[s]) + 1
          /\ \A k \in 1 .. Len(file[s]) : file'[s][k] = file[s][k]
          /\ file'[s][Len(file[s]) + 1] = Record(t, calls[t], using[t])
      BY <1>2, RecordStep
    <3>2. i \in 1 .. Len(file[s]) \/ i = Len(file[s]) + 1
      BY <3>1
    <3>3. QED BY <2>1, <3>1, <3>2 DEF RecordsOf
  <2>3. /\ RecordsOf(s, t, calls[t]) \subseteq 1 .. Len(file[s]) + 1
        /\ RecordsOf(s, t, calls[t])' \subseteq 1 .. Len(file[s]) + 1
        /\ Len(file[s]) + 1 \in 1 .. Len(file[s]) + 1
    BY <1>2, RecordStep DEF RecordsOf
  <2>4. /\ RecordsOf(s, u, calls[u]) = RecordsOf(s, t, calls[t])
        /\ RecordsOf(s, u, calls[u])' = RecordsOf(s, t, calls[t])'
    BY <1>2 DEF RecordsOf
  <2>5. RecordsOf(s, t, calls[t])' = RecordsOf(s, t, calls[t]) \cup {Len(file[s]) + 1}
    BY <2>2, <2>3
  <2>6. QED BY <2>4, <2>5
<1>3. ASSUME WriteEol(t)
      PROVE  RecordsOf(s, u, calls[u])' = RecordsOf(s, u, calls[u])
  <2>1. calls' = calls
    BY <1>3 DEF WriteEol
  <2>2. CASE s # Current(t)
    <3>1. file'[s] = file[s]
      BY <1>3, <2>2, EolStep
    <3>2. QED BY <2>1, <3>1 DEF RecordsOf
  <2>3. CASE s = Current(t)
    <3>1. /\ DOMAIN file[s] = 1 .. Len(file[s]) /\ Len(file[s]) \in Nat
          /\ DOMAIN file'[s] = 1 .. Len(file[s]) + 1
          /\ \A k \in 1 .. Len(file[s]) : file'[s][k] = file[s][k]
          /\ file'[s][Len(file[s]) + 1] = EOL
      BY <1>3, <2>3, EolStep
    <3>2. ASSUME NEW i \in 1 .. Len(file[s]) + 1
          PROVE  i \in RecordsOf(s, u, calls[u])' <=> i \in RecordsOf(s, u, calls[u])
      <4>1. i \in 1 .. Len(file[s]) \/ i = Len(file[s]) + 1
        BY <3>1
      <4>2. i \in 1 .. Len(file[s]) => i # Len(file[s]) + 1
        BY <3>1
      <4>3. CASE i \in 1 .. Len(file[s])
        BY <2>1, <3>1, <4>3 DEF RecordsOf
      <4>4. CASE i = Len(file[s]) + 1
        BY <2>1, <3>1, <4>2, <4>4 DEF RecordsOf
      <4>5. QED BY <4>1, <4>3, <4>4
    <3>3. /\ RecordsOf(s, u, calls[u]) \subseteq 1 .. Len(file[s]) + 1
          /\ RecordsOf(s, u, calls[u])' \subseteq 1 .. Len(file[s]) + 1
      BY <3>1 DEF RecordsOf
    <3>4. QED BY <3>2, <3>3
  <2>4. QED BY <2>2, <2>3
<1>4. QED BY <1>1, <1>2, <1>3

-----------------------------------------------------------------------------
(* Preservation, one conjunct of the invariant at a time                   *)

(* The step of thread t that is neither a write nor a change of a sink.    *)
Quiet(t) ==
  \/ \E l \in CallLevel : Log(t, l)
  \/ SinksDone(t) \/ SinkSkip(t) \/ SinkWanted(t) \/ SinkLock(t) \/ FlushDone(t)

(* The kinds of step.                                                      *)
LEMMA StepKinds ==
  ASSUME [Next]_vars, Shapes
  PROVE  \/ \E t \in Thread : Quiet(t) \/ WriteRecord(t) \/ WriteEol(t) \/ FlushSink(t)
         \/ \E s \in Sink : SetFormatter(s) \/ AddSink(s)
         \/ \E l \in SetLevelTo : SetLevel(l) \/ SetFlush(l)
         \/ \E s \in Sink, l \in SetLevelTo : SetSinkLevel(s, l)
         \/ UNCHANGED vars
BY DEF Next, LogStep, Quiet, Over

(* What a sink appended to m_sinks leaves as it was.                       *)
LEMMA SinkAppended ==
  ASSUME Shapes, NEW s \in Sink, AddSink(s)
  PROVE  /\ m_sinks' \in Seq(Sink) /\ Len(m_sinks) \in Nat
         /\ Len(m_sinks') = Len(m_sinks) + 1
         /\ \A i \in 1 .. Len(m_sinks) : m_sinks'[i] = m_sinks[i]
BY AppendProperties, LenProperties DEF AddSink, PushSink, Shapes, TypeOK

LEMMA InitShapes == Init => Shapes
<1> SUFFICES ASSUME Init PROVE Shapes
  OBVIOUS
<1>1. SinkList \in Seq(Sink) /\ Len(SinkList) \in Nat
  BY SyncAssumption, LenProperties
<1>2. << >> \in Seq(Entry) /\ Len(<< >>) = 0 /\ << >> \in Seq(Sink)
  OBVIOUS
<1>3. TypeOK
  BY <1>1, SyncAssumption DEF Init, TypeOK, HeldInside, DEBUG, ERROR
<1>4. holder \in [Sink -> Thread \cup {Nobody}]
  BY DEF Init
<1>5. file \in [Sink -> Seq(Entry)] /\ \A s \in Sink : flushed[s] <= Len(file[s])
  BY <1>2 DEF Init
<1>6. meant \in [Thread -> Meaning]
  BY <1>2 DEF Init, Meaning
<1>7. QED BY <1>3, <1>4, <1>5, <1>6 DEF Shapes

LEMMA ShapesStep ==
  ASSUME IInv, [Next]_vars
  PROVE  Shapes'
<1>0. /\ Shapes /\ HeldInside
      /\ Len(m_sinks) \in Nat /\ \A s \in Sink : Len(file[s]) \in Nat
  BY LenProperties DEF IInv, Shapes, TypeOK
<1> DEFINE labels == {"idle", "sinks", "lock", "format", "eol", "flush"}
<1>1. ASSUME NEW t \in Thread, NEW l \in CallLevel, Log(t, l) PROVE Shapes'
  <2>1. l \in 0 .. 6 /\ calls[t] + 1 \in 0 .. MaxCalls
    BY <1>0, <1>1, SyncAssumption DEF Shapes, TypeOK, Log
  <2>2. MeantNow(l) \in Meaning
    BY <1>0 DEF MeantNow, Meaning, Shapes, TypeOK
  <2>3. meant' \in [Thread -> Meaning]
    BY <1>0, <1>1, <2>2 DEF Log, Shapes
  <2>4. HeldInside'
    BY <1>0, <1>1
       DEF HeldInside, Log, Goto, Current, setVars, loggerVars, sinkVars, Shapes
  <2>5. at' \in [Thread -> 1 .. Len(m_sinks) + 1]
    BY <1>0, <1>1 DEF Log, Shapes, TypeOK
  <2>6. QED
    BY <1>0, <1>1, <2>1, <2>3, <2>4, <2>5
       DEF Log, Goto, setVars, loggerVars, sinkVars, Shapes, TypeOK
<1>2. ASSUME NEW t \in Thread,
             SinksDone(t) \/ SinkSkip(t) \/ SinkWanted(t) \/ FlushDone(t)
      PROVE  Shapes'
  <2>1. at' \in [Thread -> 1 .. Len(m_sinks) + 1]
    <3>1. \/ at' = at
          \/ at' = [at EXCEPT ![t] = 1]
          \/ at' = [at EXCEPT ![t] = at[t] + 1] /\ at[t] <= Len(m_sinks)
      BY <1>2 DEF SinksDone, SinkSkip, Unwanted, SinkWanted, FlushDone, callVars
    <3>2. at \in [Thread -> 1 .. Len(m_sinks) + 1] /\ Len(m_sinks) \in Nat
      BY <1>0 DEF Shapes, TypeOK
    <3>3. QED BY <3>1, <3>2
  <2> USE <1>0, <1>2
      DEF SinksDone, SinkSkip, Unwanted, SinkWanted, FlushDone, Goto,
          setVars, loggerVars, sinkVars, callVars
  <2>2. pc' \in [Thread -> labels]
    BY DEF Shapes, TypeOK
  <2>3. HeldInside'
    <3> SUFFICES ASSUME NEW s \in Sink, holder[s] # Nobody
                 PROVE  /\ pc'[holder[s]] \in {"format", "eol"}
                        /\ m_sinks[at'[holder[s]]] = s
      BY DEF HeldInside, Current
    <3>1. /\ holder[s] \in Thread /\ pc[holder[s]] \in {"format", "eol"}
          /\ m_sinks[at[holder[s]]] = s
      BY DEF HeldInside, Current, Shapes
    <3>2. holder[s] # t
      BY <3>1
    <3>3. pc'[holder[s]] = pc[holder[s]] /\ at'[holder[s]] = at[holder[s]]
      BY <3>1, <3>2 DEF Shapes, TypeOK
    <3>4. QED BY <3>1, <3>3
  <2>4. QED BY <2>1, <2>2, <2>3 DEF Shapes, TypeOK
<1>3. ASSUME NEW t \in Thread, SinkLock(t) PROVE Shapes'
  <2> USE <1>0, <1>3 DEF SinkLock, Goto, setVars, loggerVars
  <2>1. Current(t) \in Sink
    BY CurrentSink DEF IInv
  <2>2. using' \in [Thread -> 0 .. MaxFormatters]
    BY <2>1, SyncAssumption DEF Shapes, TypeOK
  <2>3. holder' \in [Sink -> Thread \cup {Nobody}]
    BY <2>1 DEF Shapes
  <2>4. pc' \in [Thread -> labels]
    BY DEF Shapes, TypeOK
  <2>5. HeldInside'
    <3> SUFFICES ASSUME NEW s \in Sink, holder'[s] # Nobody
                 PROVE  /\ pc'[holder'[s]] \in {"format", "eol"}
                        /\ Current(holder'[s]) = s
      BY DEF HeldInside, Current
    <3>1. CASE holder'[s] = holder[s]
      <4>1. /\ holder[s] \in Thread /\ pc[holder[s]] \in {"format", "eol"}
            /\ Current(holder[s]) = s
        BY <3>1 DEF HeldInside, Shapes
      <4>2. holder[s] # t /\ pc'[holder[s]] = pc[holder[s]]
        BY <4>1 DEF Shapes, TypeOK
      <4>3. QED BY <3>1, <4>1, <4>2
    <3>2. CASE holder'[s] # holder[s]
      <4>1. s = Current(t) /\ holder'[s] = t
        BY <2>1, <3>2 DEF Shapes
      <4>2. pc'[t] = "format"
        BY DEF Shapes, TypeOK
      <4>3. QED BY <4>1, <4>2
    <3>3. QED BY <3>1, <3>2
  <2>6. QED BY <2>2, <2>3, <2>4, <2>5 DEF Shapes, TypeOK
<1>4. ASSUME NEW t \in Thread, WriteRecord(t) PROVE Shapes'
  <2>1. file' \in [Sink -> Seq(Entry)] /\ \A s \in Sink : flushed'[s] <= Len(file'[s])
    <3>1. \A s \in Sink : Len(file[s]) <= Len(file'[s])
      BY <1>0, <1>4, RecordStep
    <3>2. \A s \in Sink : flushed[s] \in Nat /\ flushed[s] <= Len(file[s])
      BY <1>0 DEF Shapes, TypeOK
    <3>3. file' \in [Sink -> Seq(Entry)] /\ flushed' = flushed
      BY <1>4, RecordStep DEF WriteRecord
    <3>4. \A s \in Sink : Len(file'[s]) \in Nat
      BY <3>3, LenProperties
    <3>5. QED BY <1>0, <3>1, <3>2, <3>3, <3>4
  <2> USE <1>0, <1>4 DEF WriteRecord, Goto, setVars, loggerVars, callVars
  <2>2. pc' \in [Thread -> labels]
    BY DEF Shapes, TypeOK
  <2>3. HeldInside'
    BY DEF HeldInside, Current, Shapes, TypeOK
  <2>4. QED BY <2>1, <2>2, <2>3 DEF Shapes, TypeOK
<1>5. ASSUME NEW t \in Thread, WriteEol(t) PROVE Shapes'
  <2>1. file' \in [Sink -> Seq(Entry)] /\ \A s \in Sink : flushed'[s] <= Len(file'[s])
    <3>1. \A s \in Sink : Len(file[s]) <= Len(file'[s])
      BY <1>0, <1>5, EolStep
    <3>2. \A s \in Sink : flushed[s] \in Nat /\ flushed[s] <= Len(file[s])
      BY <1>0 DEF Shapes, TypeOK
    <3>3. file' \in [Sink -> Seq(Entry)] /\ flushed' = flushed
      BY <1>5, EolStep DEF WriteEol
    <3>4. \A s \in Sink : Len(file'[s]) \in Nat
      BY <3>3, LenProperties
    <3>5. QED BY <1>0, <3>1, <3>2, <3>3, <3>4
  <2>2. Current(t) \in Sink /\ at[t] \in 1 .. Len(m_sinks)
    BY <1>5, CurrentSink DEF IInv, WriteEol
  <2>3. at' \in [Thread -> 1 .. Len(m_sinks) + 1]
    <3>1. at' = [at EXCEPT ![t] = at[t] + 1]
      BY <1>5 DEF WriteEol
    <3>2. at \in [Thread -> 1 .. Len(m_sinks) + 1] /\ Len(m_sinks) \in Nat
      BY <1>0 DEF Shapes, TypeOK
    <3>3. QED BY <2>2, <3>1, <3>2
  <2> USE <1>0, <1>5 DEF WriteEol, Goto, setVars, loggerVars
  <2>4. holder' \in [Sink -> Thread \cup {Nobody}]
    BY <2>2 DEF Unlocked, Shapes
  <2>5. pc' \in [Thread -> labels]
    BY DEF Shapes, TypeOK
  <2>6. HeldInside'
    BY <2>2 DEF HeldInside, Unlocked, Current, Shapes, TypeOK
  <2>7. QED BY <2>1, <2>3, <2>4, <2>5, <2>6 DEF Shapes, TypeOK
<1>6. ASSUME NEW t \in Thread, FlushSink(t) PROVE Shapes'
  <2>0. /\ pc[t] = "flush" /\ at[t] <= Len(m_sinks)
        /\ flushed' = [flushed EXCEPT ![Current(t)] = Len(file[Current(t)])]
        /\ at' = [at EXCEPT ![t] = at[t] + 1]
        /\ UNCHANGED <<m_sinks, m_level, m_flushLevel, sinkLevel, holder, formatter,
                      file, pc, level, using, calls, meant>>
    BY <1>6 DEF FlushSink, setVars, loggerVars
  <2>a. at \in [Thread -> 1 .. Len(m_sinks) + 1]
    BY <1>0 DEF Shapes, TypeOK
  <2>1. at[t] \in 1 .. Len(m_sinks)
    BY <1>0, <2>0, <2>a
  <2>2. Current(t) \in Sink
    BY <1>0, <2>1, ElementOfSeq DEF Shapes, TypeOK, Current
  <2>3. flushed' \in [Sink -> Nat] /\ \A s \in Sink : flushed'[s] <= Len(file'[s])
    <3>1. /\ flushed \in [Sink -> Nat]
          /\ \A s \in Sink : flushed[s] <= Len(file[s])
      BY <1>0 DEF Shapes, TypeOK
    <3>2. Len(file[Current(t)]) \in Nat /\ file' = file
      BY <1>0, <2>0, <2>2
    <3>3. flushed' \in [Sink -> Nat]
      BY <2>0, <2>2, <3>1, <3>2
    <3>4. ASSUME NEW s \in Sink PROVE flushed'[s] <= Len(file[s])
      <4>1. CASE s = Current(t)
        BY <1>0, <2>0, <3>1, <4>1
      <4>2. CASE s # Current(t)
        BY <2>0, <3>1, <4>2
      <4>3. QED BY <4>1, <4>2
    <3>5. QED BY <3>2, <3>3, <3>4
  <2>4. at' \in [Thread -> 1 .. Len(m_sinks) + 1]
    BY <1>0, <2>0, <2>1, <2>a
  <2>5. HeldInside'
    <3> SUFFICES ASSUME NEW s \in Sink, holder[s] # Nobody
                 PROVE  /\ pc[holder[s]] \in {"format", "eol"}
                        /\ m_sinks[at'[holder[s]]] = s
      BY <2>0 DEF HeldInside, Current
    <3>1. /\ holder[s] \in Thread /\ pc[holder[s]] \in {"format", "eol"}
          /\ m_sinks[at[holder[s]]] = s
      BY <1>0 DEF HeldInside, Current, Shapes
    <3>2. holder[s] # t
      BY <2>0, <3>1
    <3>3. at'[holder[s]] = at[holder[s]]
      BY <2>0, <2>a, <3>1, <3>2
    <3>4. QED BY <3>1, <3>3
  <2>6. QED BY <1>0, <2>0, <2>3, <2>4, <2>5 DEF Shapes, TypeOK
<1>7. ASSUME NEW s \in Sink, SetFormatter(s) PROVE Shapes'
  <2> USE <1>0, <1>7 DEF SetFormatter, setVars, loggerVars, callVars
  <2>1. formatter' \in [Sink -> 1 .. MaxFormatters]
    BY SyncAssumption DEF Shapes, TypeOK
  <2>2. HeldInside'
    BY DEF HeldInside, Current
  <2>3. QED BY <2>1, <2>2 DEF Shapes, TypeOK
<1>8. ASSUME NEW s \in Sink, AddSink(s) PROVE Shapes'
  <2>1. /\ m_sinks' \in Seq(Sink)
        /\ Len(m_sinks') = Len(m_sinks) + 1
    BY <1>0, <1>8, SinkAppended
  <2>2. at \in [Thread -> 1 .. Len(m_sinks') + 1]
    BY <1>0, <2>1 DEF Shapes, TypeOK
  <2>3. \A r \in Sink : holder[r] = Nobody
    BY <1>0, <1>8 DEF AddSink, AllIdle, HeldInside, Shapes
  <2> USE <1>0, <1>8 DEF AddSink, PushSink, sinkVars, callVars
  <2>4. HeldInside'
    BY <2>3 DEF HeldInside
  <2>5. QED BY <2>1, <2>2, <2>4 DEF Shapes, TypeOK
<1>9. ASSUME NEW l \in SetLevelTo, SetLevel(l) \/ SetFlush(l) PROVE Shapes'
  <2> USE <1>0, <1>9 DEF SetLevel, SetFlush, sinkVars, callVars
  <2>1. l \in 0 .. 6
    BY SyncAssumption
  <2>2. meant' \in [Thread -> Meaning]
    <3>1. ASSUME NEW m \in Meaning, NEW b \in BOOLEAN
          PROVE  [m EXCEPT !.flush = b] \in Meaning
      BY DEF Meaning
    <3>2. ASSUME NEW t \in Thread
          PROVE  [meant[t] EXCEPT !.flush = @ /\ level[t] >= l] \in Meaning
      <4>1. meant[t] \in Meaning
        BY DEF Shapes
      <4>2. (meant[t].flush /\ level[t] >= l) \in BOOLEAN
        OBVIOUS
      <4>3. QED BY <3>1, <4>1, <4>2
    <3>3. QED BY <3>2 DEF Shapes
  <2>3. HeldInside'
    BY DEF HeldInside, Current
  <2>4. QED BY <2>1, <2>2, <2>3 DEF Shapes, TypeOK
<1>10. ASSUME NEW s \in Sink, NEW l \in SetLevelTo, SetSinkLevel(s, l) PROVE Shapes'
  <2> USE <1>0, <1>10 DEF SetSinkLevel, loggerVars, sinkVars, callVars
  <2>1. l \in 0 .. 6
    BY SyncAssumption
  <2>2. meant' \in [Thread -> Meaning]
    BY DEF Shapes, Meaning
  <2>3. sinkLevel' \in [Sink -> 0 .. 6]
    BY <2>1 DEF Shapes, TypeOK
  <2>4. HeldInside'
    BY DEF HeldInside, Current
  <2>5. QED BY <2>2, <2>3, <2>4 DEF Shapes, TypeOK
<1>11. CASE UNCHANGED vars
  BY <1>0, <1>11
     DEF vars, setVars, loggerVars, sinkVars, callVars, Shapes, TypeOK, HeldInside, Current
<1>12. QED
  BY <1>0, <1>1, <1>2, <1>3, <1>4, <1>5, <1>6, <1>7, <1>8, <1>9, <1>10, <1>11,
     StepKinds DEF Quiet

(* What every proof below uses of the types.                               *)
LEMMA Known ==
  ASSUME IInv
  PROVE  /\ Shapes /\ TypeOK /\ HeldInside /\ LockInv
         /\ Len(m_sinks) \in Nat /\ \A s \in Sink : Len(file[s]) \in Nat
         /\ \A s \in Sink : DOMAIN file[s] = 1 .. Len(file[s])
         /\ holder \in [Sink -> Thread \cup {Nobody}]
BY LenProperties DEF IInv, Shapes, TypeOK

(* A thread inside a sink that locks holds its mutex.                      *)
LEMMA LockStep ==
  ASSUME IInv, [Next]_vars
  PROVE  LockInv'
<1> USE Known DEF LockInv
<1>1. ASSUME NEW t \in Thread, Quiet(t) \/ FlushSink(t)
      PROVE  LockInv'
  <2>1. /\ m_sinks' = m_sinks /\ \A u \in Thread \ {t} : at'[u] = at[u] /\ pc'[u] = pc[u]
        /\ pc' \in [Thread -> {"idle", "sinks", "lock", "format", "eol", "flush"}]
        /\ pc'[t] \in {"lock", "format", "eol"} =>
             at[t] <= Len(m_sinks) /\ at'[t] = at[t]
        /\ \A s \in Sink : holder[s] # Nobody => holder'[s] = holder[s]
        /\ pc'[t] \in {"format", "eol"} /\ Current(t) \in Locking =>
             holder'[Current(t)] = t
    <3>1. ASSUME NEW l \in CallLevel, Log(t, l) PROVE <2>1!:
      BY <3>1 DEF Log, TypeOK, Goto, setVars, loggerVars, sinkVars
    <3>2. CASE SinksDone(t) \/ SinkSkip(t) \/ SinkWanted(t) \/ FlushDone(t) \/ FlushSink(t)
      BY <3>2
         DEF SinksDone, SinkSkip, Unwanted, SinkWanted, FlushDone, FlushSink,
             TypeOK, Goto, setVars, loggerVars, sinkVars, callVars
    <3>3. CASE SinkLock(t)
      <4>1. Current(t) \in Sink
        BY <3>3, CurrentSink DEF SinkLock
      <4>2. QED
        BY <3>3, <4>1 DEF SinkLock, CanLock, TypeOK, Goto, setVars, loggerVars
    <3>4. QED BY <1>1, <3>1, <3>2, <3>3 DEF Quiet
  <2>2. ASSUME NEW u \in Thread, pc'[u] \in {"format", "eol"}, Current(u)' \in Locking
        PROVE  holder'[Current(u)'] = u
    <3>1. at'[u] = at[u] /\ Current(u)' = Current(u) /\ Current(u) \in Sink
      BY <2>1, <2>2, SyncAssumption DEF Current
    <3>2. CASE u = t
      BY <2>1, <2>2, <3>1, <3>2
    <3>3. CASE u # t
      <4>1. holder[Current(u)] = u
        BY <2>1, <2>2, <3>1, <3>3
      <4>2. QED BY <2>1, <3>1, <4>1, SyncAssumption
    <3>4. QED BY <3>2, <3>3
  <2>3. ASSUME NEW u \in Thread, pc'[u] \in {"lock", "format", "eol"}
        PROVE  at'[u] <= Len(m_sinks)'
    BY <2>1, <2>3
  <2>4. QED BY <2>2, <2>3
<1>2. ASSUME NEW t \in Thread, WriteRecord(t)
      PROVE  LockInv'
  BY <1>2 DEF WriteRecord, Goto, Current, setVars, loggerVars, callVars, TypeOK
<1>3. ASSUME NEW t \in Thread, WriteEol(t)
      PROVE  LockInv'
  <2>1. Current(t) \in Sink
    BY <1>3, CurrentSink DEF WriteEol
  <2>2. /\ m_sinks' = m_sinks
        /\ \A u \in Thread \ {t} : at'[u] = at[u] /\ pc'[u] = pc[u]
        /\ pc'[t] = "sinks"
        /\ \A s \in Sink : holder'[s] = IF s = Current(t) THEN Nobody ELSE holder[s]
    BY <1>3, <2>1 DEF WriteEol, Unlocked, Goto, TypeOK, setVars, loggerVars
  <2>3. ASSUME NEW u \in Thread, pc'[u] \in {"format", "eol"}, Current(u)' \in Locking
        PROVE  holder'[Current(u)'] = u
    <3>1. u # t /\ Current(u)' = Current(u) /\ holder[Current(u)] = u
      BY <2>2, <2>3 DEF Current
    <3>2. Current(u) # Current(t)
      BY <1>3, <2>3, <3>1 DEF WriteEol
    <3>3. QED BY <2>2, <2>3, <3>1, <3>2, SyncAssumption
  <2>4. QED BY <2>2, <2>3
<1>4. ASSUME NEW s \in Sink, AddSink(s)
      PROVE  LockInv'
  BY <1>4 DEF AddSink, PushSink, AllIdle
<1>5. CASE \/ \E s \in Sink : SetFormatter(s)
           \/ \E l \in SetLevelTo : SetLevel(l) \/ SetFlush(l)
           \/ \E s \in Sink, l \in SetLevelTo : SetSinkLevel(s, l)
           \/ UNCHANGED vars
  BY <1>5
     DEF SetFormatter, SetLevel, SetFlush, SetSinkLevel, Current,
         vars, setVars, loggerVars, sinkVars, callVars
<1>6. QED BY <1>1, <1>2, <1>3, <1>4, <1>5, StepKinds

(* Files change in the two writes only.                                    *)
LEMMA OtherSteps ==
  ASSUME [Next]_vars, Shapes, ~ \E t \in Thread : WriteRecord(t) \/ WriteEol(t)
  PROVE  file' = file
BY StepKinds
   DEF Quiet, Log, SinksDone, SinkSkip, SinkWanted, SinkLock, FlushDone, FlushSink,
       SetFormatter, AddSink, PushSink, SetLevel, SetFlush, SetSinkLevel,
       vars, sinkVars

(* They change one file each, and only a thread inside a sink makes or     *)
(* ends its half line.                                                     *)
LEMMA OtherHalfLines ==
  ASSUME IInv, [Next]_vars, NEW s \in Locking,
         ~ \E t \in Thread : (WriteRecord(t) \/ WriteEol(t)) /\ Current(t) = s
  PROVE  HalfLine(s)' <=> HalfLine(s)
<1> USE Known, SyncAssumption DEF HalfLine
<1>1. ASSUME NEW t \in Thread,
             holder[s] # t, holder'[s] = holder[s],
             \A u \in Thread \ {t} : pc'[u] = pc[u]
      PROVE  HalfLine(s)' <=> HalfLine(s)
  BY <1>1
<1>2. ASSUME NEW t \in Thread, WriteRecord(t) \/ WriteEol(t)
      PROVE  HalfLine(s)' <=> HalfLine(s)
  <2>1. Current(t) # s /\ Current(t) \in Sink
    BY <1>2, CurrentSink DEF WriteRecord, WriteEol
  <2>2. holder[s] # t
    BY <2>1 DEF HeldInside
  <2>3. holder'[s] = holder[s] /\ \A u \in Thread \ {t} : pc'[u] = pc[u]
    BY <1>2, <2>1 DEF WriteRecord, WriteEol, Unlocked, Goto, TypeOK
  <2>4. QED BY <1>1, <2>2, <2>3
<1>3. ASSUME NEW t \in Thread, Quiet(t), ~SinkLock(t)
      PROVE  HalfLine(s)' <=> HalfLine(s)
  <2>1. /\ pc[t] \in {"idle", "sinks", "flush"} /\ holder' = holder
        /\ \A u \in Thread \ {t} : pc'[u] = pc[u]
    BY <1>3 DEF Quiet, Log, SinksDone, SinkSkip, Unwanted, SinkWanted, FlushDone,
                Goto, TypeOK, sinkVars
  <2>2. holder[s] # t
    BY <2>1 DEF HeldInside
  <2>3. QED BY <1>1, <2>1, <2>2
<1>4. ASSUME NEW t \in Thread, SinkLock(t)
      PROVE  HalfLine(s)' <=> HalfLine(s)
  <2>1. /\ pc[t] = "lock" /\ Current(t) \in Sink
        /\ pc'[t] = "format" /\ \A u \in Thread \ {t} : pc'[u] = pc[u]
    BY <1>4, CurrentSink DEF SinkLock, Goto, TypeOK
  <2>2. CASE Current(t) = s
    BY <1>4, <2>1, <2>2 DEF SinkLock, CanLock
  <2>3. CASE Current(t) # s
    <3>1. holder[s] # t
      BY <2>1 DEF HeldInside
    <3>2. holder'[s] = holder[s]
      BY <1>4, <2>1, <2>3 DEF SinkLock
    <3>3. QED BY <1>1, <2>1, <3>1, <3>2
  <2>4. QED BY <2>2, <2>3
<1>5. CASE \/ \E t \in Thread : FlushSink(t)
           \/ \E r \in Sink : SetFormatter(r) \/ AddSink(r)
           \/ \E l \in SetLevelTo : SetLevel(l) \/ SetFlush(l)
           \/ \E r \in Sink, l \in SetLevelTo : SetSinkLevel(r, l)
           \/ UNCHANGED vars
  <2>1. holder' = holder /\ pc' = pc
    BY <1>5 DEF FlushSink, SetFormatter, AddSink, PushSink, SetLevel, SetFlush,
                SetSinkLevel, vars, sinkVars
  <2>2. QED BY <2>1
<1>6. QED BY <1>2, <1>3, <1>4, <1>5, StepKinds

LEMMA Parity ==
  ASSUME NEW k \in Nat
  PROVE  ((k + 1) % 2 = 0 <=> k % 2 = 1) /\ ((k + 1) % 2 = 1 <=> k % 2 # 1)
OBVIOUS

LEMMA LineStep ==
  ASSUME IInv, [Next]_vars
  PROVE  LineInv'
<1> USE Known, SyncAssumption DEF IInv, LineInv
<1> SUFFICES ASSUME NEW s \in Locking
             PROVE  /\ \A i \in DOMAIN file'[s] :
                         (file'[s][i] = EOL) = (i % 2 = 0)
                    /\ (Len(file'[s]) % 2 = 1) <=> HalfLine(s)'
  BY DEF LinesWhole
<1> DEFINE n == Len(file[s]) + 1
<1>1. /\ \A i \in 1 .. Len(file[s]) : (file[s][i] = EOL) = (i % 2 = 0)
      /\ (Len(file[s]) % 2 = 1) <=> HalfLine(s)
  BY DEF LinesWhole
<1>2. ASSUME NEW t \in Thread, WriteRecord(t), Current(t) = s
      PROVE  /\ \A i \in DOMAIN file'[s] : (file'[s][i] = EOL) = (i % 2 = 0)
             /\ (Len(file'[s]) % 2 = 1) <=> HalfLine(s)'
  <2>1. ~HalfLine(s) /\ HalfLine(s)'
    BY <1>2 DEF WriteRecord, HalfLine, LockInv, Goto, TypeOK
  <2>2. file'[s][n] # EOL
    <3>1. Record(t, calls[t], using[t]) # EOL
      BY <1>2, RecordWritten DEF WriteRecord
    <3>2. file'[s][n] = Record(t, calls[t], using[t])
      BY <1>2, RecordStep
    <3>3. QED BY <3>1, <3>2
  <2>3. n % 2 = 1 /\ n % 2 # 0
    BY <1>1, <2>1, Parity
  <2>4. /\ DOMAIN file'[s] = 1 .. n /\ Len(file'[s]) = n
        /\ \A i \in 1 .. Len(file[s]) : file'[s][i] = file[s][i]
    BY <1>2, RecordStep
  <2>5. \A i \in 1 .. n : i \in 1 .. Len(file[s]) \/ i = n
    OBVIOUS
  <2> HIDE DEF n
  <2>6. QED BY <1>1, <2>1, <2>2, <2>3, <2>4, <2>5
<1>3. ASSUME NEW t \in Thread, WriteEol(t), Current(t) = s
      PROVE  /\ \A i \in DOMAIN file'[s] : (file'[s][i] = EOL) = (i % 2 = 0)
             /\ (Len(file'[s]) % 2 = 1) <=> HalfLine(s)'
  <2>1. HalfLine(s) /\ ~HalfLine(s)'
    BY <1>3 DEF WriteEol, HalfLine, LockInv, Unlocked, TypeOK
  <2>2. file'[s][n] = EOL
    BY <1>3, EolStep
  <2>3. n % 2 = 0 /\ n % 2 # 1
    BY <1>1, <2>1, Parity
  <2>4. /\ DOMAIN file'[s] = 1 .. n /\ Len(file'[s]) = n
        /\ \A i \in 1 .. Len(file[s]) : file'[s][i] = file[s][i]
    BY <1>3, EolStep
  <2>5. \A i \in 1 .. n : i \in 1 .. Len(file[s]) \/ i = n
    OBVIOUS
  <2> HIDE DEF n
  <2>6. QED BY <1>1, <2>1, <2>2, <2>3, <2>4, <2>5
<1>4. CASE ~ \E t \in Thread : (WriteRecord(t) \/ WriteEol(t)) /\ Current(t) = s
  <2>1. file'[s] = file[s]
    <3>1. ASSUME NEW t \in Thread, WriteRecord(t) \/ WriteEol(t)
          PROVE  file'[s] = file[s]
      BY <1>4, <3>1, RecordStep, EolStep
    <3>2. QED BY <3>1, OtherSteps
  <2>2. QED BY <1>1, <1>4, <2>1, OtherHalfLines
<1>5. QED BY <1>2, <1>3, <1>4

(* The formatter a thread formats with is still that of the sink; a file   *)
(* shows formatters in the order in which the sink had them.               *)
LEMMA FormatStep ==
  ASSUME IInv, [Next]_vars
  PROVE  FormatInv'
<1> USE Known
<1>0. FormatterAlive /\ FormattersInOrder
      /\ \A s \in Sink : \A i \in 1 .. Len(file[s]) :
           file[s][i] # EOL => file[s][i][3] <= formatter[s]
  BY DEF IInv, FormatInv
<1>1. FormatterAlive'
  <2> SUFFICES ASSUME NEW u \in Thread, pc'[u] = "format"
               PROVE  using'[u] = formatter'[Current(u)']
    BY DEF FormatterAlive
  <2>1. ASSUME NEW t \in Thread,
               Quiet(t) \/ WriteRecord(t) \/ WriteEol(t) \/ FlushSink(t)
        PROVE  using'[u] = formatter'[Current(u)']
    <3>1. formatter' = formatter /\ m_sinks' = m_sinks
      BY <2>1 DEF Quiet, Log, SinksDone, SinkSkip, SinkWanted, SinkLock, FlushDone,
           WriteRecord, WriteEol, FlushSink, setVars, loggerVars, sinkVars
    <3>2. CASE u # t
      <4>1. pc[u] = "format" /\ at'[u] = at[u] /\ using'[u] = using[u]
        BY <2>1, <3>2 DEF Quiet, Log, SinksDone, SinkSkip, SinkWanted, SinkLock,
             FlushDone, WriteRecord, WriteEol, FlushSink, callVars, Goto, TypeOK
      <4>2. QED BY <1>0, <3>1, <4>1 DEF FormatterAlive, Current
    <3>3. CASE u = t
      <4>1. SinkLock(t)
        BY <2>1, <3>3 DEF Quiet, Log, SinksDone, SinkSkip, Unwanted, SinkWanted,
             FlushDone, WriteRecord, WriteEol, FlushSink, Goto, TypeOK
      <4>2. QED BY <3>1, <3>3, <4>1 DEF SinkLock, TypeOK, Current
    <3>4. QED BY <3>2, <3>3
  <2>2. ASSUME NEW s \in Sink, SetFormatter(s)
        PROVE  using'[u] = formatter'[Current(u)']
    <3>1. UNCHANGED <<pc, at, using, m_sinks>>
      BY <2>2 DEF SetFormatter, setVars, loggerVars, callVars
    <3>2. Current(u) # s /\ Current(u) \in Sink
      BY <2>2, <3>1, CurrentSink, SyncAssumption DEF SetFormatter, AllIdle, CanLock, LockInv, TypeOK
    <3>3. formatter'[Current(u)] = formatter[Current(u)]
      BY <2>2, <3>2 DEF SetFormatter, TypeOK
    <3>4. QED BY <1>0, <3>1, <3>3 DEF FormatterAlive, Current
  <2>3. ASSUME NEW s \in Sink, AddSink(s)
        PROVE  using'[u] = formatter'[Current(u)']
    BY <2>3 DEF AddSink, PushSink, AllIdle
  <2>4. CASE \/ \E l \in SetLevelTo : SetLevel(l) \/ SetFlush(l)
             \/ \E s \in Sink, l \in SetLevelTo : SetSinkLevel(s, l)
             \/ UNCHANGED vars
    BY <1>0, <2>4 DEF FormatterAlive, Current, SetLevel, SetFlush, SetSinkLevel,
       vars, setVars, loggerVars, sinkVars, callVars
  <2>5. QED BY <2>1, <2>2, <2>3, <2>4, StepKinds
<1>2. ASSUME NEW s \in Sink
      PROVE  /\ \A i \in DOMAIN file'[s] :
                  file'[s][i] # EOL => file'[s][i][3] <= formatter'[s]
             /\ \A i, j \in DOMAIN file'[s] :
                  i < j /\ file'[s][i] # EOL /\ file'[s][j] # EOL
                    => file'[s][i][3] <= file'[s][j][3]
  <2>0. \A i, j \in 1 .. Len(file[s]) :
          i < j /\ file[s][i] # EOL /\ file[s][j] # EOL
            => file[s][i][3] <= file[s][j][3]
    BY <1>0 DEF FormattersInOrder
  <2> DEFINE n == Len(file[s]) + 1
  <2>1. ASSUME NEW t \in Thread, WriteRecord(t) \/ WriteEol(t), Current(t) = s
        PROVE  /\ \A i \in DOMAIN file'[s] :
                    file'[s][i] # EOL => file'[s][i][3] <= formatter'[s]
               /\ \A i, j \in DOMAIN file'[s] :
                    i < j /\ file'[s][i] # EOL /\ file'[s][j] # EOL
                      => file'[s][i][3] <= file'[s][j][3]
    <3>1. /\ DOMAIN file'[s] = 1 .. n
          /\ \A i \in 1 .. Len(file[s]) : file'[s][i] = file[s][i]
          /\ file'[s][n] # EOL => file'[s][n][3] = formatter[s]
      BY <2>1, RecordStep, EolStep, RecordWritten DEF WriteRecord
    <3>2. \A i \in 1 .. n : i \in 1 .. Len(file[s]) \/ (i = n /\ i \notin 1 .. Len(file[s]))
      OBVIOUS
    <3>3. formatter' = formatter /\ formatter[s] \in Int
      BY <2>1, SyncAssumption DEF WriteRecord, WriteEol, TypeOK
    <3>4. ASSUME NEW i \in 1 .. n, file'[s][i] # EOL
          PROVE  file'[s][i][3] <= formatter[s]
      <4>1. CASE i \in 1 .. Len(file[s])
        BY <1>0, <3>1, <3>4, <4>1
      <4>2. CASE i = n
        <5>1. file'[s][i][3] = formatter[s]
          BY <3>1, <3>4, <4>2
        <5>2. QED BY <3>3, <5>1
      <4>3. QED BY <3>2, <4>1, <4>2
    <3>5. ASSUME NEW i \in 1 .. n, NEW j \in 1 .. n, i < j,
                 file'[s][i] # EOL, file'[s][j] # EOL
          PROVE  file'[s][i][3] <= file'[s][j][3]
      <4>1. CASE j \in 1 .. Len(file[s])
        BY <2>0, <3>1, <3>5, <4>1
      <4>2. CASE j = n
        BY <3>1, <3>4, <3>5, <4>2
      <4>3. QED BY <3>2, <4>1, <4>2
    <3>6. QED BY <3>1, <3>3, <3>4, <3>5
  <2>2. CASE ~ \E t \in Thread : (WriteRecord(t) \/ WriteEol(t)) /\ Current(t) = s
    <3>1. file'[s] = file[s]
      <4>1. ASSUME NEW t \in Thread, WriteRecord(t) \/ WriteEol(t)
            PROVE  file'[s] = file[s]
        BY <2>2, <4>1, RecordStep, EolStep
      <4>2. QED BY <4>1, OtherSteps
    <3>2. formatter'[s] \in Int /\ formatter[s] \in Int /\ formatter[s] <= formatter'[s]
      <4>1. formatter[s] \in Int
        BY SyncAssumption DEF TypeOK
      <4>2. ASSUME NEW r \in Sink, SetFormatter(r)
            PROVE  formatter'[s] = formatter[s] \/ formatter'[s] = formatter[s] + 1
        BY <4>2 DEF SetFormatter, TypeOK
      <4>3. ASSUME ~ \E r \in Sink : SetFormatter(r) PROVE formatter' = formatter
        BY <4>3, StepKinds
           DEF Quiet, Log, SinksDone, SinkSkip, SinkWanted, SinkLock, FlushDone,
               FlushSink, WriteRecord, WriteEol, AddSink, PushSink, SetLevel,
               SetFlush, SetSinkLevel, vars, sinkVars
      <4>4. QED BY <4>1, <4>2, <4>3
    <3>3. ASSUME NEW i \in 1 .. Len(file[s]), file[s][i] # EOL
          PROVE  file[s][i][3] \in Int
      <4>1. file[s][i] \in Entry
        BY ElementOfSeq DEF Shapes
      <4>2. QED BY <3>3, <4>1, EntryFacts, SyncAssumption
    <3>4. ASSUME NEW i \in 1 .. Len(file[s]), file[s][i] # EOL
          PROVE  file[s][i][3] <= formatter'[s]
      <4>1. file[s][i][3] <= formatter[s] /\ file[s][i][3] \in Int
        BY <1>0, <3>3, <3>4
      <4>2. QED BY <3>2, <4>1
    <3>5. QED BY <2>0, <3>1, <3>4
  <2>3. QED BY <2>1, <2>2
<1>3. QED BY <1>1, <1>2 DEF FormatInv, FormattersInOrder

(* Calls are numbered upwards; only Log begins one.                        *)
LEMMA CallsGrow ==
  ASSUME IInv, [Next]_vars, NEW u \in Thread
  PROVE  /\ calls[u] \in Nat /\ calls'[u] \in Nat /\ calls[u] <= calls'[u]
         /\ pc'[u] # "idle" => pc[u] # "idle" \/ calls'[u] > 0
<1> USE Known, SyncAssumption DEF TypeOK
<1>1. calls[u] \in Nat
  OBVIOUS
<1>2. ASSUME NEW t \in Thread, NEW l \in CallLevel, Log(t, l)
      PROVE  /\ calls'[u] = IF u = t THEN calls[u] + 1 ELSE calls[u]
             /\ u # t => pc'[u] = pc[u]
  BY <1>2 DEF Log, Goto
<1>3. ASSUME ~ \E t \in Thread, l \in CallLevel : Log(t, l)
      PROVE  calls' = calls
  BY <1>3, StepKinds
     DEF Quiet, SinksDone, SinkSkip, SinkWanted, SinkLock, FlushDone, FlushSink,
         WriteRecord, WriteEol, SetFormatter, AddSink, PushSink, SetLevel, SetFlush,
         SetSinkLevel, vars, callVars
<1>4. ASSUME ~ \E t \in Thread, l \in CallLevel : Log(t, l), pc[u] = "idle"
      PROVE  pc'[u] = "idle"
  BY <1>4, StepKinds
     DEF Quiet, SinksDone, SinkSkip, Unwanted, SinkWanted, SinkLock, FlushDone,
         FlushSink, WriteRecord, WriteEol, SetFormatter, AddSink, PushSink, SetLevel,
         SetFlush, SetSinkLevel, vars, Goto
<1>5. QED BY <1>1, <1>2, <1>3, <1>4

LEMMA HistoryStep ==
  ASSUME IInv, [Next]_vars
  PROVE  HistoryInv'
<1> USE Known
<1>0. /\ \A t \in Thread : pc[t] # "idle" => calls[t] > 0
      /\ \A s \in Sink : \A i \in 1 .. Len(file[s]) :
           file[s][i] # EOL => file[s][i][2] <= calls[file[s][i][1]]
  BY DEF IInv, HistoryInv
<1>1. ASSUME NEW u \in Thread, pc'[u] # "idle" PROVE calls'[u] > 0
  BY <1>0, <1>1, CallsGrow
<1>2. ASSUME NEW s \in Sink, NEW i \in DOMAIN file'[s], file'[s][i] # EOL
      PROVE  file'[s][i][2] <= calls'[file'[s][i][1]]
  <2>1. CASE i \in 1 .. Len(file[s]) /\ file'[s][i] = file[s][i]
    <3>1. file[s][i] \in Entry
      BY <2>1, ElementOfSeq DEF Shapes
    <3>2. file[s][i][1] \in Thread /\ file[s][i][2] \in Int
      BY <1>2, <2>1, <3>1, EntryFacts, SyncAssumption
    <3>3. file[s][i][2] <= calls[file[s][i][1]]
      BY <1>0, <1>2, <2>1
    <3>4. QED BY <2>1, <3>2, <3>3, CallsGrow
  <2>2. ASSUME NEW t \in Thread, WriteRecord(t), Current(t) = s, i = Len(file[s]) + 1
        PROVE  file'[s][i][2] <= calls'[file'[s][i][1]]
    <3>1. file'[s][i] = Record(t, calls[t], using[t]) /\ pc[t] = "format" /\ calls' = calls
      BY <2>2, RecordStep DEF WriteRecord, callVars
    <3>2. file'[s][i][1] = t /\ file'[s][i][2] = calls[t] /\ calls[t] \in Int
      BY <3>1, RecordWritten, SyncAssumption
    <3>3. QED BY <3>1, <3>2
  <2>3. \/ i \in 1 .. Len(file[s]) /\ file'[s][i] = file[s][i]
        \/ \E t \in Thread : WriteRecord(t) /\ Current(t) = s /\ i = Len(file[s]) + 1
    <3>1. ASSUME NEW t \in Thread, WriteRecord(t) PROVE <2>3
      <4>1. CASE Current(t) = s
        <5>1. /\ DOMAIN file'[s] = 1 .. Len(file[s]) + 1
              /\ \A k \in 1 .. Len(file[s]) : file'[s][k] = file[s][k]
          BY <3>1, <4>1, RecordStep
        <5>2. QED BY <1>2, <3>1, <4>1, <5>1
      <4>2. CASE Current(t) # s
        BY <1>2, <3>1, <4>2, RecordStep
      <4>3. QED BY <4>1, <4>2
    <3>2. ASSUME NEW t \in Thread, WriteEol(t) PROVE <2>3
      <4>1. CASE Current(t) = s
        <5>1. /\ DOMAIN file'[s] = 1 .. Len(file[s]) + 1
              /\ \A k \in 1 .. Len(file[s]) : file'[s][k] = file[s][k]
              /\ file'[s][Len(file[s]) + 1] = EOL
          BY <3>2, <4>1, EolStep
        <5>2. QED BY <1>2, <5>1
      <4>2. CASE Current(t) # s
        BY <1>2, <3>2, <4>2, EolStep
      <4>3. QED BY <4>1, <4>2
    <3>3. CASE file' = file
      BY <1>2, <3>3
    <3>4. QED BY <3>1, <3>2, <3>3, OtherSteps
  <2>4. QED BY <2>1, <2>2, <2>3
<1>3. QED BY <1>1, <1>2 DEF HistoryInv

-----------------------------------------------------------------------------
(* What one call has done                                                  *)

(* Steps that begin no call change the records of a call only by writing.  *)
LEMMA RecordsSame ==
  ASSUME IInv, [Next]_vars, NEW s \in Sink, NEW u \in Thread,
         ~ WriteRecord(u), ~ \E l \in CallLevel : Log(u, l)
  PROVE  RecordsOf(s, u, calls[u])' = RecordsOf(s, u, calls[u])
<1> USE Known
<1>1. calls'[u] = calls[u]
  BY StepKinds
     DEF Quiet, Log, SinksDone, SinkSkip, SinkWanted, SinkLock, FlushDone, FlushSink,
         WriteRecord, WriteEol, SetFormatter, AddSink, PushSink, SetLevel, SetFlush,
         SetSinkLevel, vars, callVars, TypeOK
<1>2. CASE file' = file
  BY <1>1, <1>2 DEF RecordsOf
<1>3. CASE file' # file
  <2>1. PICK t \in Thread : WriteRecord(t) \/ WriteEol(t)
    BY <1>3, OtherSteps
  <2>2. QED BY <2>1, RecordsAfterWrite
<1>4. QED BY <1>2, <1>3

(* A call that begins has no records.                                      *)
LEMMA NoRecordsYet ==
  ASSUME IInv, NEW t \in Thread, NEW l \in CallLevel, Log(t, l), NEW s \in Sink
  PROVE  RecordsOf(s, t, calls[t])' = {}
<1> USE Known
<1>1. calls'[t] = calls[t] + 1 /\ calls[t] \in Int /\ file' = file
  BY SyncAssumption DEF Log, TypeOK, sinkVars
<1>2. ASSUME NEW i \in DOMAIN file[s], file[s][i] # EOL, file[s][i][1] = t
      PROVE  file[s][i][2] # calls[t] + 1
  <2>1. file[s][i][2] <= calls[t]
    BY <1>2 DEF IInv, HistoryInv
  <2>2. file[s][i] \in Entry
    BY ElementOfSeq DEF Shapes
  <2>3. file[s][i][2] \in Int
    BY <1>2, <2>2, EntryFacts, SyncAssumption
  <2>4. QED BY <1>1, <2>1, <2>3
<1>3. QED BY <1>1, <1>2 DEF RecordsOf

(* Files only grow, and so does what was flushed of them.                  *)
LEMMA FilesGrow ==
  ASSUME IInv, [Next]_vars, NEW s \in Sink
  PROVE  /\ Len(file[s]) \in Nat /\ Len(file'[s]) \in Nat
         /\ Len(file[s]) <= Len(file'[s])
         /\ flushed[s] \in Nat /\ flushed'[s] \in Nat /\ flushed[s] <= flushed'[s]
<1> USE Known
<1>1. /\ Len(file[s]) \in Nat /\ Len(file'[s]) \in Nat
      /\ flushed[s] \in Nat /\ flushed'[s] \in Nat /\ flushed[s] <= Len(file[s])
  <2>1. /\ file \in [Sink -> Seq(Entry)] /\ flushed \in [Sink -> Nat]
        /\ flushed[s] <= Len(file[s])
    BY DEF Shapes, TypeOK
  <2>2. Shapes'
    BY ShapesStep
  <2>3. file' \in [Sink -> Seq(Entry)] /\ flushed' \in [Sink -> Nat]
    BY <2>2 DEF Shapes, TypeOK
  <2>4. QED BY <2>1, <2>3, LenProperties
<1>2. Len(file[s]) <= Len(file'[s])
  <2>1. ASSUME NEW t \in Thread, WriteRecord(t) \/ WriteEol(t)
        PROVE  Len(file[s]) <= Len(file'[s])
    <3>1. CASE Current(t) = s
      <4>1. Len(file'[s]) = Len(file[s]) + 1
        BY <2>1, <3>1, RecordStep, EolStep
      <4>2. QED BY <1>1, <4>1
    <3>2. CASE Current(t) # s
      <4>1. file'[s] = file[s]
        BY <2>1, <3>2, RecordStep, EolStep
      <4>2. QED BY <1>1, <4>1
    <3>3. QED BY <3>1, <3>2
  <2>2. QED BY <1>1, <2>1, OtherSteps
<1>3. ASSUME NEW t \in Thread, FlushSink(t) PROVE flushed[s] <= flushed'[s]
  BY <1>1, <1>3 DEF FlushSink, TypeOK
<1>4. ASSUME ~ \E t \in Thread : FlushSink(t) PROVE flushed' = flushed
  BY <1>4, StepKinds
     DEF Quiet, Log, SinksDone, SinkSkip, SinkWanted, SinkLock, FlushDone,
         WriteRecord, WriteEol, SetFormatter, AddSink, PushSink, SetLevel, SetFlush,
         SetSinkLevel, vars, sinkVars
<1>5. QED BY <1>1, <1>2, <1>3, <1>4

(* What FlushOK says of each record.                                       *)
LEMMA FlushParts ==
  ASSUME IInv, NEW u \in Thread
  PROVE  /\ InLoop(u) /\ meant[u].flush => level[u] >= m_flushLevel
         /\ \A s \in Sink : \A i \in RecordsOf(s, u, calls[u]) :
              /\ i \in Nat
              /\ pc[u] # "idle" => \E j \in 1 .. Len(m_sinks) : m_sinks[j] = s
              /\ i < Len(file[s]) \/ (pc[u] = "eol" /\ Current(u) = s)
              /\ pc[u] = "flush" =>
                   i < flushed[s] \/ \E j \in at[u] .. Len(m_sinks) : m_sinks[j] = s
              /\ pc[u] = "idle" /\ meant[u].flush => i < flushed[s]
<1>1. FlushOK(u)
  BY DEF IInv
<1>2. ASSUME NEW s \in Sink, NEW i \in RecordsOf(s, u, calls[u])
      PROVE  i \in Nat
  BY Known DEF RecordsOf
<1>3. QED BY <1>1, <1>2 DEF FlushOK

(* A thread that does not move keeps what it has.                          *)
LEMMA FlushSame ==
  ASSUME IInv, [Next]_vars, NEW u \in Thread,
         pc'[u] = pc[u], at'[u] = at[u], level'[u] = level[u],
         meant'[u].flush = meant[u].flush, m_sinks' = m_sinks,
         m_flushLevel' = m_flushLevel,
         \A s \in Sink : RecordsOf(s, u, calls[u])' = RecordsOf(s, u, calls[u])
  PROVE  FlushOK(u)'
<1>1. (InLoop(u) /\ meant[u].flush => level[u] >= m_flushLevel)'
  BY FlushParts DEF InLoop
<1>2. ASSUME NEW s \in Sink, NEW i \in RecordsOf(s, u, calls[u])'
      PROVE  /\ pc'[u] # "idle" => \E j \in 1 .. Len(m_sinks') : m_sinks'[j] = s
             /\ i < Len(file'[s]) \/ (pc'[u] = "eol" /\ Current(u)' = s)
             /\ pc'[u] = "flush" =>
                  i < flushed'[s] \/ \E j \in at'[u] .. Len(m_sinks') : m_sinks'[j] = s
             /\ pc'[u] = "idle" /\ meant'[u].flush => i < flushed'[s]
  <2>1. i \in RecordsOf(s, u, calls[u]) /\ Current(u)' = Current(u)
    BY <1>2 DEF Current
  <2>2. i \in Nat
    BY <2>1, FlushParts
  <2>3. QED BY <2>1, <2>2, FlushParts, FilesGrow
<1>3. QED BY <1>1, <1>2 DEF FlushOK

(* The step of the thread itself.                                          *)
LEMMA FlushOwnStep ==
  ASSUME IInv, [Next]_vars, NEW t \in Thread,
         Quiet(t) \/ WriteRecord(t) \/ WriteEol(t) \/ FlushSink(t)
  PROVE  FlushOK(t)'
<1> USE Known
<1>1. ASSUME NEW l \in CallLevel, Log(t, l) PROVE FlushOK(t)'
  <2>1. \A s \in Sink : RecordsOf(s, t, calls[t])' = {}
    BY <1>1, NoRecordsYet
  <2>2. /\ level'[t] = l /\ m_flushLevel' = m_flushLevel
        /\ meant'[t].flush = (l >= m_level /\ l >= m_flushLevel)
    BY <1>1 DEF Log, MeantNow, Shapes, TypeOK, setVars, loggerVars
  <2>3. QED BY <2>1, <2>2 DEF FlushOK
<1>2. CASE SinksDone(t)
  <2>1. /\ pc[t] = "sinks" /\ pc'[t] = IF level[t] >= m_flushLevel THEN "flush" ELSE "idle"
        /\ at'[t] = 1
        /\ UNCHANGED <<m_sinks, m_flushLevel, file, flushed, level, calls, meant>>
    BY <1>2 DEF SinksDone, ShouldFlush, Goto, TypeOK, setVars, loggerVars, sinkVars
  <2>2. \A s \in Sink : RecordsOf(s, t, calls[t])' = RecordsOf(s, t, calls[t])
    BY <2>1 DEF RecordsOf
  <2>3. InLoop(t) /\ ~InLoop(t)'
    BY <2>1 DEF InLoop
  <2>4. QED BY <2>1, <2>2, <2>3, FlushParts DEF FlushOK
<1>3. CASE SinkSkip(t) \/ SinkWanted(t) \/ SinkLock(t)
  <2>1. /\ pc[t] \in {"sinks", "lock"} /\ pc'[t] \in {"sinks", "lock", "format"}
        /\ UNCHANGED <<m_sinks, m_flushLevel, file, flushed, level, calls, meant>>
    BY <1>3 DEF SinkSkip, SinkWanted, SinkLock, Unwanted, Goto, TypeOK,
                setVars, loggerVars, sinkVars, callVars
  <2>2. \A s \in Sink : RecordsOf(s, t, calls[t])' = RecordsOf(s, t, calls[t])
    BY <2>1 DEF RecordsOf
  <2>3. InLoop(t) /\ InLoop(t)'
    BY <2>1 DEF InLoop
  <2>4. QED BY <2>1, <2>2, <2>3, FlushParts DEF FlushOK
<1>4. CASE FlushDone(t)
  <2>1. /\ pc[t] = "flush" /\ pc'[t] = "idle" /\ at[t] > Len(m_sinks) /\ at[t] \in Nat
        /\ UNCHANGED <<m_sinks, file, flushed, calls, meant>>
    BY <1>4 DEF FlushDone, Goto, TypeOK, setVars, loggerVars, sinkVars, callVars
  <2>2. \A s \in Sink : RecordsOf(s, t, calls[t])' = RecordsOf(s, t, calls[t])
    BY <2>1 DEF RecordsOf
  <2>3. ~InLoop(t)' /\ \A j \in at[t] .. Len(m_sinks) : FALSE
    BY <2>1 DEF InLoop
  <2>4. QED BY <2>1, <2>2, <2>3, FlushParts DEF FlushOK
<1>5. CASE WriteRecord(t)
  <2>1. /\ pc[t] = "format" /\ pc'[t] = "eol" /\ Current(t)' = Current(t)
        /\ UNCHANGED <<m_sinks, m_flushLevel, flushed, level, calls, meant>>
    BY <1>5 DEF WriteRecord, Goto, Current, TypeOK, setVars, loggerVars, callVars
  <2>2. ASSUME NEW s \in Sink, NEW i \in RecordsOf(s, t, calls[t])'
        PROVE  /\ \E j \in 1 .. Len(m_sinks) : m_sinks[j] = s
               /\ i < Len(file'[s]) \/ Current(t) = s
    <3>1. CASE s = Current(t)
      BY <2>1, <3>1, CurrentSink DEF Current
    <3>2. CASE s # Current(t)
      <4>1. i \in RecordsOf(s, t, calls[t])
        BY <1>5, <2>2, <3>2, RecordsAfterWrite
      <4>2. file'[s] = file[s]
        BY <1>5, <3>2, RecordStep
      <4>3. QED BY <2>1, <4>1, <4>2, FlushParts
    <3>3. QED BY <3>1, <3>2
  <2>3. InLoop(t) /\ InLoop(t)'
    BY <2>1 DEF InLoop
  <2>4. QED BY <2>1, <2>2, <2>3, FlushParts DEF FlushOK
<1>6. CASE WriteEol(t)
  <2>1. /\ pc[t] = "eol" /\ pc'[t] = "sinks"
        /\ UNCHANGED <<m_sinks, m_flushLevel, flushed, level, calls, meant>>
    BY <1>6 DEF WriteEol, Goto, TypeOK, setVars, loggerVars
  <2>2. ASSUME NEW s \in Sink, NEW i \in RecordsOf(s, t, calls[t])'
        PROVE  /\ \E j \in 1 .. Len(m_sinks) : m_sinks[j] = s
               /\ i < Len(file'[s])
    <3>1. i \in RecordsOf(s, t, calls[t]) /\ i \in Nat
      <4>1. RecordsOf(s, t, calls[t])' = RecordsOf(s, t, calls[t])
        BY <1>6, RecordsAfterWrite
      <4>2. QED BY <2>2, <4>1, FlushParts
    <3>2. CASE s = Current(t)
      <4>1. i \in 1 .. Len(file[s]) /\ Len(file'[s]) = Len(file[s]) + 1
        BY <1>6, <3>1, <3>2, EolStep DEF RecordsOf
      <4>2. QED BY <2>1, <3>1, <4>1, FlushParts
    <3>3. CASE s # Current(t)
      BY <1>6, <2>1, <3>1, <3>3, FlushParts, FilesGrow
    <3>4. QED BY <3>2, <3>3
  <2>3. InLoop(t) /\ InLoop(t)'
    BY <2>1 DEF InLoop
  <2>4. QED BY <2>1, <2>2, <2>3, FlushParts DEF FlushOK
<1>7. CASE FlushSink(t)
  <2>1. /\ pc[t] = "flush" /\ pc' = pc /\ at[t] \in 1 .. Len(m_sinks)
        /\ at'[t] = at[t] + 1
        /\ UNCHANGED <<m_sinks, file, calls>>
    BY <1>7 DEF FlushSink, TypeOK, setVars, loggerVars
  <2>2. Current(t) \in Sink /\ flushed'[Current(t)] = Len(file[Current(t)])
    <3>1. Current(t) \in Sink
      BY <2>1, ElementOfSeq DEF Current, TypeOK
    <3>2. QED BY <1>7, <3>1 DEF FlushSink, TypeOK
  <2>3. ASSUME NEW s \in Sink, NEW i \in RecordsOf(s, t, calls[t])'
        PROVE  /\ \E j \in 1 .. Len(m_sinks) : m_sinks[j] = s
               /\ i < Len(file[s])
               /\ i < flushed'[s] \/ \E j \in at[t] + 1 .. Len(m_sinks) : m_sinks[j] = s
    <3>1. i \in RecordsOf(s, t, calls[t]) /\ i \in Nat
      BY <2>1, <2>3, FlushParts DEF RecordsOf
    <3>2. CASE s = Current(t)
      BY <2>1, <2>2, <3>1, <3>2, FlushParts
    <3>3. CASE s # Current(t)
      <4>1. i < flushed[s] \/ \E j \in at[t] .. Len(m_sinks) : m_sinks[j] = s
        BY <2>1, <3>1, FlushParts
      <4>2. ASSUME NEW j \in at[t] .. Len(m_sinks), m_sinks[j] = s
            PROVE  j \in at[t] + 1 .. Len(m_sinks)
        BY <2>1, <3>3, <4>2 DEF Current
      <4>3. QED BY <2>1, <3>1, <4>1, <4>2, FlushParts, FilesGrow
    <3>4. QED BY <3>2, <3>3
  <2>4. ~InLoop(t)'
    BY <2>1 DEF InLoop
  <2>5. QED BY <2>1, <2>3, <2>4 DEF FlushOK
<1>8. QED BY <1>1, <1>2, <1>3, <1>4, <1>5, <1>6, <1>7 DEF Quiet

LEMMA FlushStep ==
  ASSUME IInv, [Next]_vars, NEW u \in Thread
  PROVE  FlushOK(u)'
<1> USE Known
<1>1. ASSUME NEW t \in Thread,
             Quiet(t) \/ WriteRecord(t) \/ WriteEol(t) \/ FlushSink(t)
      PROVE  FlushOK(u)'
  <2>1. CASE u = t
    BY <1>1, <2>1, FlushOwnStep
  <2>2. CASE u # t
    <3>1. /\ pc'[u] = pc[u] /\ at'[u] = at[u] /\ level'[u] = level[u]
          /\ meant'[u] = meant[u] /\ calls'[u] = calls[u]
          /\ m_sinks' = m_sinks /\ m_flushLevel' = m_flushLevel
      BY <1>1, <2>2
         DEF Quiet, Log, SinksDone, SinkSkip, SinkWanted, SinkLock, FlushDone,
             FlushSink, WriteRecord, WriteEol, Goto, TypeOK, Shapes,
             setVars, loggerVars, callVars
    <3>2. ~ WriteRecord(u)
      BY <3>1 DEF WriteRecord, Goto, TypeOK
    <3>3. ~ \E l \in CallLevel : Log(u, l)
      BY <3>1, SyncAssumption DEF Log, TypeOK
    <3>4. \A s \in Sink : RecordsOf(s, u, calls[u])' = RecordsOf(s, u, calls[u])
      BY <3>2, <3>3, RecordsSame
    <3>5. QED BY <3>1, <3>4, FlushSame
  <2>3. QED BY <2>1, <2>2
<1>2. CASE \/ \E s \in Sink : SetFormatter(s) \/ AddSink(s)
           \/ \E l \in SetLevelTo : SetLevel(l) \/ SetFlush(l)
           \/ \E s \in Sink, l \in SetLevelTo : SetSinkLevel(s, l)
           \/ UNCHANGED vars
  <2>1. UNCHANGED <<pc, at, level, calls, file, flushed>>
    BY <1>2 DEF SetFormatter, AddSink, PushSink, SetLevel, SetFlush, SetSinkLevel,
                vars, sinkVars, callVars
  <2>2. \A s \in Sink : RecordsOf(s, u, calls[u])' = RecordsOf(s, u, calls[u])
    BY <2>1 DEF RecordsOf
  <2>3. ASSUME NEW s \in Sink, AddSink(s) PROVE FlushOK(u)'
    <3>1. pc[u] = "idle" /\ meant' = meant /\ ~InLoop(u)'
      BY <2>1, <2>3 DEF AddSink, PushSink, AllIdle, InLoop
    <3>2. QED BY <2>1, <2>2, <3>1, FlushParts DEF FlushOK
  <2>4. ASSUME NEW l \in SetLevelTo, SetFlush(l) PROVE FlushOK(u)'
    <3>1. CASE InLoop(u)
      <4>1. /\ m_sinks' = m_sinks /\ m_flushLevel' = l
            /\ meant'[u].flush <=> meant[u].flush /\ level[u] >= l
        <5>1. meant'[u] = [meant[u] EXCEPT !.flush = @ /\ level[u] >= l]
          BY <2>4, <3>1 DEF SetFlush
        <5>2. meant[u] \in Meaning
          BY DEF Shapes
        <5>3. meant'[u].flush = (meant[u].flush /\ level[u] >= l)
          BY <5>1, <5>2 DEF Meaning
        <5>4. QED BY <2>4, <5>3 DEF SetFlush
      <4>2. pc[u] # "idle" /\ pc[u] # "flush" /\ Current(u)' = Current(u)
        BY <2>1, <3>1, <4>1 DEF InLoop, Current
      <4>3. QED BY <2>1, <2>2, <4>1, <4>2, FlushParts DEF FlushOK
    <3>2. CASE ~InLoop(u)
      <4>1. m_sinks' = m_sinks /\ meant'[u] = meant[u] /\ ~InLoop(u)'
        BY <2>1, <2>4, <3>2 DEF SetFlush, InLoop
      <4>2. Current(u)' = Current(u)
        BY <2>1, <4>1 DEF Current
      <4>3. QED BY <2>1, <2>2, <4>1, <4>2, FlushParts DEF FlushOK
    <3>3. QED BY <3>1, <3>2
  <2>5. CASE \/ \E s \in Sink : SetFormatter(s)
             \/ \E l \in SetLevelTo : SetLevel(l)
             \/ \E s \in Sink, l \in SetLevelTo : SetSinkLevel(s, l)
             \/ UNCHANGED vars
    <3>1. m_sinks' = m_sinks /\ m_flushLevel' = m_flushLevel
      BY <2>5 DEF SetFormatter, SetLevel, SetSinkLevel, vars, setVars, loggerVars
    <3>2. meant'[u].flush = meant[u].flush
      <4>1. CASE \E s \in Sink, l \in SetLevelTo : SetSinkLevel(s, l)
        <5>1. meant[u] \in Meaning
          BY DEF Shapes
        <5>2. QED BY <4>1, <5>1 DEF SetSinkLevel, Meaning
      <4>2. QED BY <2>5, <4>1 DEF SetFormatter, SetLevel, vars
    <3>3. QED BY <2>1, <2>2, <3>1, <3>2, FlushSame
  <2>6. QED BY <1>2, <2>3, <2>4, <2>5
<1>3. QED BY <1>1, <1>2, StepKinds

(* The positions of a sink, counted from the front.                        *)
LEMMA UpToFacts ==
  ASSUME Shapes, NEW s \in Sink
  PROVE  /\ UpTo(s, 0) = {} /\ Cardinality(UpTo(s, 0)) = 0
         /\ \A k \in 0 .. Len(m_sinks) : Cardinality(UpTo(s, k)) \in Nat
         /\ \A k \in 0 .. Len(m_sinks) - 1 :
              Cardinality(UpTo(s, k + 1)) =
                Cardinality(UpTo(s, k)) + (IF m_sinks[k + 1] = s THEN 1 ELSE 0)
         /\ Occurrences(s, m_sinks) = Cardinality(UpTo(s, Len(m_sinks)))
         /\ Occurrences(s, << >>) = 0
<1>1. Len(m_sinks) \in Nat /\ DOMAIN m_sinks = 1 .. Len(m_sinks)
  BY LenProperties DEF Shapes, TypeOK
<1>2. ASSUME NEW k \in 0 .. Len(m_sinks)
      PROVE  IsFiniteSet(UpTo(s, k)) /\ Cardinality(UpTo(s, k)) \in Nat
  <2>1. IsFiniteSet(1 .. k) /\ UpTo(s, k) \subseteq 1 .. k
    BY <1>1, FS_Interval DEF UpTo
  <2>2. QED BY <2>1, FS_Subset, FS_CardinalityType
<1>3. UpTo(s, 0) = {} /\ Cardinality(UpTo(s, 0)) = 0
  BY FS_EmptySet DEF UpTo
<1>4. ASSUME NEW k \in 0 .. Len(m_sinks) - 1
      PROVE  Cardinality(UpTo(s, k + 1)) =
               Cardinality(UpTo(s, k)) + (IF m_sinks[k + 1] = s THEN 1 ELSE 0)
  <2>1. /\ k \in 0 .. Len(m_sinks) /\ k + 1 \notin UpTo(s, k)
        /\ UpTo(s, k + 1) = IF m_sinks[k + 1] = s THEN UpTo(s, k) \cup {k + 1}
                                                  ELSE UpTo(s, k)
    BY <1>1 DEF UpTo
  <2>2. IsFiniteSet(UpTo(s, k)) /\ Cardinality(UpTo(s, k)) \in Nat
    BY <1>2, <2>1
  <2>3. Cardinality(UpTo(s, k) \cup {k + 1}) = Cardinality(UpTo(s, k)) + 1
    BY <2>1, <2>2, FS_AddElement
  <2>4. QED BY <2>1, <2>2, <2>3
<1>5. Occurrences(s, m_sinks) = Cardinality(UpTo(s, Len(m_sinks)))
  BY <1>1 DEF Occurrences, UpTo
<1>6. Occurrences(s, << >>) = 0
  <2>1. {i \in DOMAIN << >> : << >>[i] = s} = {}
    OBVIOUS
  <2>2. QED BY <2>1, FS_EmptySet DEF Occurrences
<1>7. QED BY <1>2, <1>3, <1>4, <1>5, <1>6

(* A thread that does not move keeps what it has.                          *)
LEMMA CountSame ==
  ASSUME IInv, [Next]_vars, NEW u \in Thread,
         pc'[u] = pc[u], at'[u] = at[u], level'[u] = level[u], calls'[u] = calls[u],
         meant'[u].sinks = meant[u].sinks, meant'[u].always = meant[u].always,
         meant'[u].ever = meant[u].ever, m_sinks' = m_sinks,
         sinkLevel' = sinkLevel,
         \A s \in Sink : RecordsOf(s, u, calls[u])' = RecordsOf(s, u, calls[u])
  PROVE  CountOK(u)'
<1>1. \A s \in Sink : Lines(s, u)' = Lines(s, u)
  BY DEF Lines
<1>2. Passed(u)' = Passed(u) /\ Current(u)' = Current(u)
  BY DEF Passed, Current
<1>3. (InLoop(u)' <=> InLoop(u)) /\ (Returned(u)' <=> Returned(u))
  BY DEF InLoop, Returned
<1>4. \A s \in Sink : Due(s, u)' = Due(s, u)
  BY <1>2 DEF Due, UpTo
<1>5. CountOK(u)
  BY DEF IInv
<1>6. QED BY <1>1, <1>2, <1>3, <1>4, <1>5 DEF CountOK, Occurrences

(* The numbers CountOK compares.                                           *)
LEMMA CountTypes ==
  ASSUME IInv, NEW t \in Thread, NEW s \in Sink
  PROVE  /\ Lines(s, t) \in Nat
         /\ at[t] \in 1 .. Len(m_sinks) + 1
         /\ Passed(t) \in 0 .. Len(m_sinks) /\ Due(s, t) \in Nat
<1> USE Known
<1>1. Lines(s, t) \in Nat
  BY RecordsFinite DEF Lines
<1>2. at[t] \in 1 .. Len(m_sinks) + 1
  BY DEF TypeOK
<1>3. pc[t] = "eol" => at[t] <= Len(m_sinks)
  BY DEF LockInv
<1>4. Passed(t) \in 0 .. Len(m_sinks)
  BY <1>2, <1>3 DEF Passed
<1>5. QED BY <1>1, <1>2, <1>4, UpToFacts DEF Due

(* Steps of the thread that write no record.                               *)
LEMMA CountQuietStep ==
  ASSUME IInv, [Next]_vars, NEW t \in Thread,
         Quiet(t) \/ WriteEol(t) \/ FlushSink(t)
  PROVE  CountOK(t)'
<1> USE Known
<1>0. CountOK(t)
  BY DEF IInv
<1>1. ASSUME NEW l \in CallLevel, Log(t, l) PROVE CountOK(t)'
  <2>1. ASSUME NEW s \in Sink PROVE Lines(s, t)' = 0
    BY <1>1, NoRecordsYet, FS_EmptySet DEF Lines
  <2>2. /\ pc'[t] = IF l >= m_level THEN "sinks" ELSE "idle"
        /\ at'[t] = 1 /\ level'[t] = l /\ m_sinks' = m_sinks /\ sinkLevel' = sinkLevel
        /\ meant'[t] = MeantNow(l)
    BY <1>1 DEF Log, ShouldLog, Goto, Shapes, TypeOK, setVars, loggerVars
  <2>3. ASSUME NEW s \in Sink
        PROVE  (s \in meant'[t].always <=> l >= sinkLevel[s])
               /\ (s \in meant'[t].ever <=> l >= sinkLevel[s])
    BY <2>2 DEF MeantNow
  <2>4. meant'[t].sinks = IF l >= m_level THEN m_sinks ELSE << >>
    BY <2>2 DEF MeantNow
  <2>5. CASE l >= m_level
    <3>1. pc'[t] = "sinks" /\ ~Returned(t)'
      BY <2>2, <2>5 DEF Returned
    <3>2. \A s \in Sink : Due(s, t)' = 0
      <4>1. Passed(t)' = 0
        BY <2>2, <3>1 DEF Passed
      <4>2. \A s \in Sink : UpTo(s, Passed(t))' = {}
        BY <4>1 DEF UpTo
      <4>3. QED BY <4>2, FS_EmptySet DEF Due
    <3>3. QED BY <2>1, <2>2, <2>3, <2>4, <2>5, <3>1, <3>2 DEF CountOK
  <2>6. CASE ~(l >= m_level)
    <3>1. pc'[t] = "idle" /\ ~InLoop(t)'
      BY <2>2, <2>6 DEF InLoop
    <3>2. \A s \in Sink : Occurrences(s, meant'[t].sinks) = 0
      BY <2>4, <2>6, UpToFacts
    <3>3. QED BY <2>1, <3>1, <3>2 DEF CountOK, Occurrences
  <2>7. QED BY <2>5, <2>6
<1>2. ASSUME ~ \E l \in CallLevel : Log(t, l)
      PROVE  CountOK(t)'
  <2>1. ASSUME NEW s \in Sink PROVE Lines(s, t)' = Lines(s, t)
    <3>1. ~ WriteRecord(t)
      BY DEF Quiet, Log, SinksDone, SinkSkip, Unwanted, SinkWanted, SinkLock, FlushDone,
             FlushSink, WriteEol, WriteRecord
    <3>2. QED BY <1>2, <3>1, RecordsSame DEF Lines
  <2>2. /\ pc[t] # "idle"
        /\ UNCHANGED <<m_sinks, sinkLevel, level, calls, meant>>
    BY <1>2 DEF Quiet, SinksDone, SinkSkip, Unwanted, SinkWanted, SinkLock, FlushDone,
       FlushSink, WriteEol, setVars, loggerVars, callVars
  <2>3. /\ meant[t].sinks = m_sinks
        /\ \A s \in Sink :
             /\ Lines(s, t) <= Due(s, t)
             /\ s \in meant[t].always => Lines(s, t) = Due(s, t)
             /\ s \notin meant[t].ever => Lines(s, t) = 0
    BY <1>0, <2>2 DEF CountOK
  <2>4. ASSUME NEW s \in Sink
        PROVE  Lines(s, t) \in Nat /\ Due(s, t) \in Nat /\ at[t] \in 1 .. Len(m_sinks) + 1
    BY CountTypes
  <2>5. CASE SinksDone(t) \/ FlushDone(t) \/ FlushSink(t)
    <3>1. /\ pc'[t] \in {"flush", "idle"} /\ ~InLoop(t)' /\ Passed(t) = Len(m_sinks)
      <4>1. pc'[t] \in {"flush", "idle"} /\ pc[t] \in {"sinks", "flush"}
        BY <2>5 DEF SinksDone, FlushDone, FlushSink, Goto, TypeOK
      <4>2. pc[t] = "sinks" => at[t] > Len(m_sinks)
        BY <2>5 DEF SinksDone, FlushDone, FlushSink
      <4>3. at[t] \in 1 .. Len(m_sinks) + 1
        BY DEF TypeOK
      <4>4. QED BY <4>1, <4>2, <4>3 DEF InLoop, Passed
    <3>2. ASSUME NEW s \in Sink
          PROVE  /\ Due(s, t) = Occurrences(s, m_sinks)
                 /\ pc'[t] = "flush" => Due(s, t)' = Due(s, t)
      BY <2>2, <3>1, UpToFacts DEF Due, UpTo, Passed
    <3>3. ASSUME NEW s \in Sink
          PROVE  Occurrences(s, meant[t].sinks)' = Occurrences(s, m_sinks)
      BY <2>2, <2>3 DEF Occurrences
    <3>4. QED BY <2>1, <2>2, <2>3, <3>1, <3>2, <3>3 DEF CountOK
  <2>6. CASE SinkSkip(t)
    <3>1. /\ pc[t] = "sinks" /\ pc'[t] = "sinks" /\ at[t] \in 1 .. Len(m_sinks)
          /\ at'[t] = at[t] + 1 /\ InLoop(t) /\ InLoop(t)' /\ ~Returned(t)'
          /\ ~(level[t] >= sinkLevel[Current(t)])
      BY <2>6 DEF SinkSkip, Unwanted, SinkShouldLog, TypeOK, InLoop, Returned
    <3>2. Current(t) \in Sink /\ Current(t) \notin meant[t].always
      <4>1. Current(t) \in Sink
        BY <3>1, ElementOfSeq DEF Current, TypeOK
      <4>2. QED BY <1>0, <3>1, <4>1 DEF CountOK
    <3>3. ASSUME NEW s \in Sink
          PROVE  Due(s, t)' = Due(s, t) + (IF Current(t) = s THEN 1 ELSE 0)
      <4>1. Passed(t) = at[t] - 1 /\ Passed(t)' = at[t]
        BY <3>1 DEF Passed
      <4>2. Due(s, t)' = Cardinality(UpTo(s, at[t]))
        BY <2>2, <4>1 DEF Due, UpTo
      <4>3. at[t] - 1 \in 0 .. Len(m_sinks) - 1 /\ (at[t] - 1) + 1 = at[t]
        BY <3>1
      <4>4. QED BY <4>1, <4>2, <4>3, UpToFacts DEF Due, Current
    <3>4. QED BY <1>0, <2>1, <2>2, <2>3, <2>4, <3>1, <3>2, <3>3 DEF CountOK
  <2>7. CASE SinkWanted(t) \/ SinkLock(t)
    <3>1. /\ pc[t] \in {"sinks", "lock"} /\ pc'[t] \in {"lock", "format"}
          /\ at'[t] = at[t] /\ InLoop(t) /\ InLoop(t)' /\ ~Returned(t)'
      BY <2>7 DEF SinkWanted, SinkLock, Goto, TypeOK, InLoop, Returned, callVars
    <3>2. Current(t) \in meant[t].ever
      <4>1. CASE SinkWanted(t)
        <5>1. Current(t) \in Sink /\ level[t] >= sinkLevel[Current(t)]
          BY <4>1, ElementOfSeq DEF SinkWanted, SinkShouldLog, Current, TypeOK
        <5>2. QED BY <1>0, <3>1, <5>1 DEF CountOK
      <4>2. CASE SinkLock(t)
        BY <1>0, <4>2 DEF CountOK, SinkLock
      <4>3. QED BY <2>7, <4>1, <4>2
    <3>3. ASSUME NEW s \in Sink PROVE Due(s, t)' = Due(s, t)
      <4>1. Passed(t)' = Passed(t)
        BY <3>1 DEF Passed
      <4>2. QED BY <2>2, <4>1 DEF Due, UpTo
    <3>4. Current(t)' = Current(t)
      BY <2>2, <3>1 DEF Current
    <3>5. QED BY <1>0, <2>1, <2>2, <2>3, <3>1, <3>2, <3>3, <3>4 DEF CountOK
  <2>8. CASE WriteEol(t)
    <3>1. /\ pc[t] = "eol" /\ pc'[t] = "sinks" /\ at[t] \in Nat
          /\ at'[t] = at[t] + 1 /\ InLoop(t) /\ InLoop(t)' /\ ~Returned(t)'
      BY <2>8 DEF WriteEol, Goto, TypeOK, InLoop, Returned
    <3>2. ASSUME NEW s \in Sink PROVE Due(s, t)' = Due(s, t)
      <4>1. Passed(t)' = Passed(t)
        BY <3>1 DEF Passed
      <4>2. QED BY <2>2, <4>1 DEF Due, UpTo
    <3>3. QED BY <1>0, <2>1, <2>2, <2>3, <3>1, <3>2 DEF CountOK
  <2>9. QED BY <1>2, <2>5, <2>6, <2>7, <2>8 DEF Quiet
<1>3. QED BY <1>1, <1>2

(* A record is one line more, at one position more.                        *)
LEMMA CountRecordStep ==
  ASSUME IInv, [Next]_vars, NEW t \in Thread, WriteRecord(t)
  PROVE  CountOK(t)'
<1> USE Known
<1>0. CountOK(t)
  BY DEF IInv
<1>1. /\ pc[t] = "format" /\ pc'[t] = "eol" /\ at[t] \in 1 .. Len(m_sinks)
      /\ Current(t) \in Sink /\ Current(t) \in meant[t].ever
      /\ InLoop(t) /\ InLoop(t)' /\ ~Returned(t)' /\ Current(t)' = Current(t)
      /\ UNCHANGED <<m_sinks, sinkLevel, level, at, calls, meant>>
  BY <1>0, CurrentSink
     DEF CountOK, WriteRecord, Goto, TypeOK, InLoop, Returned, Current,
         setVars, loggerVars, callVars
<1>2. ASSUME NEW s \in Sink
      PROVE  Due(s, t)' = Due(s, t) + (IF Current(t) = s THEN 1 ELSE 0)
  <2>1. Passed(t) = at[t] - 1 /\ Passed(t)' = at[t]
    BY <1>1 DEF Passed
  <2>2. Due(s, t)' = Cardinality(UpTo(s, at[t]))
    BY <1>1, <2>1 DEF Due, UpTo
  <2>3. at[t] - 1 \in 0 .. Len(m_sinks) - 1 /\ (at[t] - 1) + 1 = at[t]
    BY <1>1
  <2>4. Due(s, t) = Cardinality(UpTo(s, at[t] - 1))
    BY <2>1 DEF Due
  <2>5. Cardinality(UpTo(s, at[t])) =
          Cardinality(UpTo(s, at[t] - 1)) + (IF m_sinks[at[t]] = s THEN 1 ELSE 0)
    <3> DEFINE k == at[t] - 1
    <3>1. k \in 0 .. Len(m_sinks) - 1 /\ k + 1 = at[t]
      BY <2>3
    <3> HIDE DEF k
    <3>2. Cardinality(UpTo(s, k + 1)) =
            Cardinality(UpTo(s, k)) + (IF m_sinks[k + 1] = s THEN 1 ELSE 0)
      BY <3>1, UpToFacts
    <3>3. QED BY <3>1, <3>2 DEF k
  <2>6. QED BY <2>2, <2>4, <2>5 DEF Current
<1>3. ASSUME NEW s \in Sink
      PROVE  Lines(s, t)' = Lines(s, t) + (IF Current(t) = s THEN 1 ELSE 0)
  <2>1. CASE Current(t) = s
    <3>1. RecordsOf(s, t, calls[t])' = RecordsOf(s, t, calls[t]) \cup {Len(file[s]) + 1}
      BY <2>1, RecordsAfterWrite
    <3>2. /\ IsFiniteSet(RecordsOf(s, t, calls[t]))
          /\ Len(file[s]) + 1 \notin RecordsOf(s, t, calls[t])
      BY RecordsFinite
    <3>3. Cardinality(RecordsOf(s, t, calls[t]) \cup {Len(file[s]) + 1})
            = Cardinality(RecordsOf(s, t, calls[t])) + 1
      BY <3>2, FS_AddElement
    <3>4. QED BY <2>1, <3>1, <3>3 DEF Lines
  <2>2. CASE Current(t) # s
    <3>1. RecordsOf(s, t, calls[t])' = RecordsOf(s, t, calls[t])
      BY <2>2, RecordsAfterWrite
    <3>2. QED BY <2>2, <3>1, CountTypes DEF Lines
  <2>3. QED BY <2>1, <2>2
<1>4. ASSUME NEW s \in Sink
      PROVE  Lines(s, t) \in Nat /\ Due(s, t) \in Nat
  BY CountTypes
<1>5. QED BY <1>0, <1>1, <1>2, <1>3, <1>4 DEF CountOK

LEMMA CountStep ==
  ASSUME IInv, [Next]_vars, NEW u \in Thread
  PROVE  CountOK(u)'
<1> USE Known
<1>0. CountOK(u)
  BY DEF IInv
<1>1. ASSUME NEW t \in Thread,
             Quiet(t) \/ WriteRecord(t) \/ WriteEol(t) \/ FlushSink(t)
      PROVE  CountOK(u)'
  <2>1. CASE u = t
    BY <1>1, <2>1, CountQuietStep, CountRecordStep
  <2>2. CASE u # t
    <3>1. /\ pc'[u] = pc[u] /\ at'[u] = at[u] /\ level'[u] = level[u]
          /\ meant'[u] = meant[u] /\ calls'[u] = calls[u]
          /\ m_sinks' = m_sinks /\ sinkLevel' = sinkLevel
      BY <1>1, <2>2
         DEF Quiet, Log, SinksDone, SinkSkip, SinkWanted, SinkLock, FlushDone,
             FlushSink, WriteRecord, WriteEol, Goto, TypeOK, Shapes,
             setVars, loggerVars, callVars
    <3>2. ~ WriteRecord(u)
      BY <3>1 DEF WriteRecord, Goto, TypeOK
    <3>3. ~ \E l \in CallLevel : Log(u, l)
      BY <3>1, SyncAssumption DEF Log, TypeOK
    <3>4. \A s \in Sink : RecordsOf(s, u, calls[u])' = RecordsOf(s, u, calls[u])
      BY <3>2, <3>3, RecordsSame
    <3>5. QED BY <3>1, <3>4, CountSame
  <2>3. QED BY <2>1, <2>2
<1>2. CASE \/ \E s \in Sink : SetFormatter(s) \/ AddSink(s)
           \/ \E l \in SetLevelTo : SetLevel(l) \/ SetFlush(l)
           \/ \E s \in Sink, l \in SetLevelTo : SetSinkLevel(s, l)
           \/ UNCHANGED vars
  <2>1. UNCHANGED <<pc, at, level, calls, file>>
    BY <1>2 DEF SetFormatter, AddSink, PushSink, SetLevel, SetFlush, SetSinkLevel,
                vars, sinkVars, callVars
  <2>2. \A s \in Sink : RecordsOf(s, u, calls[u])' = RecordsOf(s, u, calls[u])
    BY <2>1 DEF RecordsOf
  <2>3. \A s \in Sink : Lines(s, u)' = Lines(s, u)
    BY <2>2 DEF Lines
  <2>4. ASSUME NEW r \in Sink, AddSink(r) PROVE CountOK(u)'
    <3>1. pc[u] = "idle" /\ meant' = meant /\ ~InLoop(u)' /\ (Returned(u)' <=> Returned(u))
      BY <2>1, <2>4 DEF AddSink, PushSink, AllIdle, InLoop, Returned
    <3>2. \A s \in Sink : Occurrences(s, meant[u].sinks)' = Occurrences(s, meant[u].sinks)
      BY <3>1 DEF Occurrences
    <3>3. QED BY <1>0, <2>1, <2>3, <3>1, <3>2 DEF CountOK
  <2>5. ASSUME NEW r \in Sink, NEW l \in SetLevelTo, SetSinkLevel(r, l) PROVE CountOK(u)'
    <3>1. /\ m_sinks' = m_sinks /\ meant[u] \in Meaning
          /\ \A s \in Sink : sinkLevel'[s] = IF s = r THEN l ELSE sinkLevel[s]
      BY <2>5 DEF SetSinkLevel, loggerVars, Shapes, TypeOK
    <3>2. CASE ~InLoop(u)
      <4>1. meant'[u] = meant[u] /\ ~InLoop(u)' /\ (Returned(u)' <=> Returned(u))
        BY <2>1, <2>5, <3>2 DEF SetSinkLevel, InLoop, Returned
      <4>2. ASSUME NEW s \in Sink
            PROVE  /\ Due(s, u)' = Due(s, u)
                   /\ Occurrences(s, meant[u].sinks)' = Occurrences(s, meant[u].sinks)
                   /\ Occurrences(s, meant'[u].sinks) = Occurrences(s, meant[u].sinks)
        <5>1. Passed(u)' = Passed(u)
          BY <2>1, <3>1 DEF Passed
        <5>2. QED BY <3>1, <4>1, <5>1 DEF Due, UpTo, Occurrences
      <4>3. pc[u] \notin {"lock", "format", "eol"}
        BY <3>2 DEF InLoop
      <4>4. QED BY <1>0, <2>1, <2>3, <3>1, <4>1, <4>2, <4>3 DEF CountOK, Occurrences
    <3>3. CASE InLoop(u)
      <4>1. /\ InLoop(u)' /\ ~Returned(u)' /\ Current(u)' = Current(u)
            /\ \A s \in Sink : Due(s, u)' = Due(s, u)
        <5>1. InLoop(u)' /\ ~Returned(u)' /\ Current(u)' = Current(u)
          BY <2>1, <3>1, <3>3 DEF InLoop, Returned, Current
        <5>2. Passed(u)' = Passed(u)
          BY <2>1, <3>1 DEF Passed
        <5>3. QED BY <3>1, <5>1, <5>2 DEF Due, UpTo
      <4>2. /\ meant'[u].sinks = meant[u].sinks
            /\ meant'[u].always = IF level[u] >= l THEN meant[u].always
                                                  ELSE meant[u].always \ {r}
            /\ meant'[u].ever = IF level[u] >= l THEN meant[u].ever \cup {r}
                                                ELSE meant[u].ever
        BY <2>5, <3>1, <3>3 DEF SetSinkLevel, Meaning
      <4>3. QED BY <1>0, <2>1, <2>3, <3>1, <3>3, <4>1, <4>2 DEF CountOK
    <3>4. QED BY <3>2, <3>3
  <2>6. CASE \/ \E s \in Sink : SetFormatter(s)
             \/ \E l \in SetLevelTo : SetLevel(l) \/ SetFlush(l)
             \/ UNCHANGED vars
    <3>1. m_sinks' = m_sinks /\ sinkLevel' = sinkLevel
      BY <2>6 DEF SetFormatter, SetLevel, SetFlush, vars, setVars, loggerVars
    <3>2. /\ meant'[u].sinks = meant[u].sinks /\ meant'[u].always = meant[u].always
          /\ meant'[u].ever = meant[u].ever
      <4>1. CASE \E l \in SetLevelTo : SetFlush(l)
        <5>1. meant[u] \in Meaning
          BY DEF Shapes
        <5>2. QED BY <4>1, <5>1 DEF SetFlush, Meaning
      <4>2. QED BY <2>6, <4>1 DEF SetFormatter, SetLevel, vars
    <3>3. QED BY <2>1, <2>2, <3>1, <3>2, CountSame
  <2>7. QED BY <1>2, <2>4, <2>5, <2>6
<1>3. QED BY <1>1, <1>2, StepKinds

-----------------------------------------------------------------------------
(* The invariant holds, and the properties follow from it.                 *)

LEMMA InitEstablishes == Init => IInv
<1> SUFFICES ASSUME Init PROVE IInv
  OBVIOUS
<1>1. Shapes
  BY InitShapes
<1>2. \A s \in Sink : file[s] = << >> /\ DOMAIN file[s] = {} /\ Len(file[s]) = 0
  BY DEF Init
<1>3. LockInv
  BY DEF Init, LockInv
<1>4. LineInv
  <2>1. \A s \in Locking : ~HalfLine(s) /\ s \in Sink
    BY SyncAssumption DEF Init, HalfLine
  <2>2. LinesWhole
    BY <1>2, <2>1 DEF LinesWhole
  <2>3. \A s \in Locking : Len(file[s]) % 2 # 1
    <3>1. 0 % 2 # 1
      OBVIOUS
    <3>2. QED BY <1>2, <2>1, <3>1
  <2>4. QED BY <2>1, <2>2, <2>3 DEF LineInv
<1>5. FormatInv
  BY <1>2 DEF Init, FormatInv, FormatterAlive, FormattersInOrder
<1>6. HistoryInv
  BY <1>2 DEF Init, HistoryInv
<1>7. ASSUME NEW t \in Thread PROVE FlushOK(t) /\ CountOK(t)
  <2>1. pc[t] = "idle" /\ calls[t] = 0 /\ ~InLoop(t) /\ ~Returned(t)
    BY DEF Init, InLoop, Returned
  <2>2. \A s \in Sink : RecordsOf(s, t, calls[t]) = {}
    BY <1>2 DEF RecordsOf
  <2>3. QED BY <2>1, <2>2 DEF FlushOK, CountOK
<1>8. QED BY <1>1, <1>3, <1>4, <1>5, <1>6, <1>7 DEF IInv

LEMMA StepPreserves == IInv /\ [Next]_vars => IInv'
<1> SUFFICES ASSUME IInv, [Next]_vars PROVE IInv'
  OBVIOUS
<1>1. Shapes' /\ LockInv' /\ LineInv' /\ FormatInv' /\ HistoryInv'
  BY ShapesStep, LockStep, LineStep, FormatStep, HistoryStep
<1>2. \A t \in Thread : FlushOK(t)' /\ CountOK(t)'
  BY FlushStep, CountStep
<1>3. QED BY <1>1, <1>2 DEF IInv

LEMMA Invariance == Spec => []IInv
<1>1. QED BY InitEstablishes, StepPreserves, PTL DEF Spec

(* The types, and that a mutex is held by a thread inside its sink.        *)
THEOREM SyncTypes == Spec => []TypeOK
<1>1. IInv => TypeOK
  BY DEF IInv, Shapes
<1>2. QED BY <1>1, Invariance, PTL

(* In the file of a sink that locks every record is followed by its own    *)
(* end of line: basicSink's lock_guard spans the two fwrite calls.         *)
THEOREM SyncLinesWhole == Spec => []LinesWhole
<1>1. IInv => LinesWhole
  BY DEF IInv, LineInv
<1>2. QED BY <1>1, Invariance, PTL

(* setFormatter never destroys a formatter that a thread formats with.     *)
THEOREM SyncFormatterAlive == Spec => []FormatterAlive
<1>1. IInv => FormatterAlive
  BY DEF IInv, FormatInv
<1>2. QED BY <1>1, Invariance, PTL

(* After a line of the new formatter no line of an old one follows.        *)
THEOREM SyncFormattersInOrder == Spec => []FormattersInOrder
<1>1. IInv => FormattersInOrder
  BY DEF IInv, FormatInv
<1>2. QED BY <1>1, Invariance, PTL

(* A call of Logger::log that returned has written one line for each       *)
(* occurrence of each sink that wanted it, and none where it was unwanted, *)
(* while other threads log and anybody sets levels.                        *)
THEOREM SyncLinesPerCall == Spec => []LinesPerCall
<1>1. ASSUME IInv PROVE LinesPerCall
  <2> SUFFICES ASSUME NEW t \in Thread, Returned(t), NEW s \in Sink
               PROVE  /\ Lines(s, t) <= Occurrences(s, meant[t].sinks)
                      /\ s \in meant[t].always =>
                           Lines(s, t) = Occurrences(s, meant[t].sinks)
                      /\ s \notin meant[t].ever => Lines(s, t) = 0
    BY DEF LinesPerCall, Lines
  <2>1. CountOK(t)
    BY <1>1 DEF IInv
  <2>2. QED BY <2>1 DEF CountOK
<1>2. QED BY <1>1, Invariance, PTL

(* A call at or above the flush level has its lines out of the process     *)
(* when it returns: between its write and its flush no step of another     *)
(* thread takes back what was written.                                     *)
THEOREM SyncFlushedOnReturn == Spec => []FlushedOnReturn
<1>1. IInv => FlushedOnReturn
  BY DEF IInv, FlushOK, FlushedOnReturn, Returned
<1>2. QED BY <1>1, Invariance, PTL

-----------------------------------------------------------------------------
(* The logger behind the macros                                            *)

(* Where a thread is in LoggerImpl::Logger() tells which of the statics    *)
(* are initialized; the configuration is made by the one thread that holds *)
(* the third guard, before anybody can have the logger.                    *)
GuardInv ==
  /\ place \in [Thread -> 0 .. 4]
  /\ guard \in [Statics -> Thread \cup {Nobody, Done}]
  /\ \A t \in Thread : \A i \in Statics : i < place[t] => guard[i] = Done
  /\ \A t \in Thread : pc[t] # "idle" => place[t] = 0 /\ guard[3] = Done

ConfigInv ==
  /\ configured \in 0 .. 4
  /\ guard[3] = Nobody => configured = 0
  /\ guard[3] = Done => configured = 4
  /\ configured <= 1 => m_sinks = <<Root>>
  /\ configured >= 2 => Len(m_sinks) >= 2 /\ m_sinks[1] = Root /\ m_sinks[2] = Root

RootInv == IInv /\ GuardInv /\ ConfigInv

LEMMA RootInitEstablishes == RootInit => RootInv
<1> SUFFICES ASSUME RootInit PROVE RootInv
  OBVIOUS
<1>1. IInv
  BY InitEstablishes DEF RootInit
<1>2. GuardInv
  BY DEF RootInit, Init, GuardInv, Statics
<1>3. ConfigInv
  BY RootAssumption DEF RootInit, Init, ConfigInv, Statics
<1>4. QED BY <1>1, <1>2, <1>3 DEF RootInv

(* The statements of the third initializer are executed while nobody is    *)
(* inside the logger.                                                      *)
LEMMA ConfigureMeetsNobody ==
  ASSUME RootInv, NEW t \in Thread, Configure(t)
  PROVE  AllIdle /\ guard[3] = t /\ t # Nobody /\ t # Done
<1>1. guard[3] = t /\ t # Nobody /\ t # Done
  BY SyncAssumption, RootAssumption DEF Configure, Initializes
<1>2. QED BY <1>1 DEF AllIdle, RootInv, GuardInv

LEMMA ProgramIsAStep ==
  ASSUME RootInv, Program
  PROVE  Next
<1>1. Added \subseteq Sink
  BY LenProperties, ElementOfSeq DEF Added, RootInv, IInv, Shapes, TypeOK
<1>2. QED BY <1>1 DEF Program, Next

(* Every step is one that a Logger may make; the addSink of the            *)
(* configuration has nobody inside as AddSink demands.                     *)
LEMMA RootStepIsAStep ==
  ASSUME RootInv, [RootNext]_rootVars
  PROVE  [Next]_vars
<1>1. ASSUME NEW t \in Thread, Macro(t) \/ Pass(t) \/ Acquire(t) \/ Construct(t) \/ Configured(t)
      PROVE  UNCHANGED vars
  BY <1>1 DEF Macro, Pass, Acquire, Construct, Configured
<1>2. ASSUME NEW t \in Thread, Configure(t) PROVE Next
  <2>1. AllIdle
    BY <1>2, ConfigureMeetsNobody
  <2>2. Root \in Sink /\ DEBUG \in SetLevelTo /\ INFO \in SetLevelTo
    BY RootAssumption
  <2>3. \/ SetSinkLevel(Root, DEBUG) \/ AddSink(Root)
        \/ SetLevel(DEBUG) \/ SetFlush(INFO)
    BY <1>2, <2>1 DEF Configure, AddSink
  <2>4. QED BY <2>2, <2>3 DEF Next
<1>3. ASSUME NEW t \in Thread, (\E l \in CallLevel : LogMacro(t, l)) \/ LogStepOf(t)
      PROVE  Next
  BY <1>3 DEF LogMacro, LogStepOf, Next
<1>4. QED
  BY <1>1, <1>2, <1>3, ProgramIsAStep DEF RootNext, MacroStep, RootOver, rootVars

LEMMA GuardStep ==
  ASSUME RootInv, [RootNext]_rootVars
  PROVE  GuardInv'
<1>0. /\ place \in [Thread -> 0 .. 4]
      /\ guard \in [Statics -> Thread \cup {Nobody, Done}]
      /\ \A t \in Thread : \A i \in Statics : i < place[t] => guard[i] = Done
      /\ \A t \in Thread : pc[t] # "idle" => place[t] = 0 /\ guard[3] = Done
      /\ TypeOK
  BY DEF RootInv, GuardInv, IInv, Shapes
<1>1. ASSUME NEW t \in Thread, Macro(t) PROVE GuardInv'
  <2>1. /\ place' = [place EXCEPT ![t] = 1] /\ guard' = guard /\ pc' = pc /\ pc[t] = "idle"
    BY <1>1 DEF Macro, vars
  <2>2. QED BY <1>0, <2>1 DEF GuardInv, Statics
<1>2. ASSUME NEW t \in Thread, Pass(t) PROVE GuardInv'
  <2>1. /\ place[t] \in Statics /\ guard[place[t]] = Done
        /\ place' = [place EXCEPT ![t] = @ + 1] /\ guard' = guard /\ pc' = pc
    BY <1>2 DEF Pass, Initialized, vars
  <2>2. pc[t] = "idle"
    BY <1>0, <2>1 DEF Statics
  <2>3. QED BY <1>0, <2>1, <2>2 DEF GuardInv, Statics
<1>3. ASSUME NEW t \in Thread, Acquire(t) \/ Construct(t) \/ Configured(t)
      PROVE  GuardInv'
  <2>1. /\ place' = place /\ pc' = pc
        /\ \E i \in Statics, g \in Thread \cup {Done} :
             guard[i] # Done /\ guard' = [guard EXCEPT ![i] = g]
    BY <1>3, SyncAssumption, RootAssumption
       DEF Acquire, Construct, Configured, Initializes, Statics, vars
  <2>2. \A i \in Statics : guard[i] = Done => guard'[i] = Done
    BY <1>0, <2>1
  <2>3. guard' \in [Statics -> Thread \cup {Nobody, Done}]
    BY <1>0, <2>1
  <2>4. QED BY <1>0, <2>1, <2>2, <2>3 DEF GuardInv, Statics
<1>4. ASSUME NEW t \in Thread, NEW l \in CallLevel, LogMacro(t, l) PROVE GuardInv'
  <2>1. /\ place[t] = 4 /\ place' = [place EXCEPT ![t] = 0] /\ guard' = guard
        /\ \A u \in Thread \ {t} : pc'[u] = pc[u]
    BY <1>0, <1>4 DEF LogMacro, HasLogger, Log, Goto, TypeOK
  <2>2. guard[3] = Done
    BY <1>0, <2>1 DEF Statics
  <2>3. QED BY <1>0, <2>1, <2>2 DEF GuardInv, Statics
<1>5. ASSUME NEW t \in Thread, LogStepOf(t) PROVE GuardInv'
  <2>1. /\ place' = place /\ guard' = guard /\ pc[t] # "idle"
        /\ \A u \in Thread \ {t} : pc'[u] = pc[u]
    BY <1>0, <1>5
       DEF LogStepOf, LogStep, SinksDone, SinkSkip, Unwanted, SinkWanted, SinkLock,
           WriteRecord, WriteEol, FlushSink, FlushDone, Goto, TypeOK
  <2>2. QED BY <1>0, <2>1 DEF GuardInv, Statics
<1>6. CASE (\E t \in Thread : Configure(t)) \/ Program \/ UNCHANGED rootVars
  <2>1. place' = place /\ guard' = guard
    BY <1>6 DEF Configure, Program, rootVars
  <2>2. pc' = pc
    BY <1>6 DEF Configure, Program, rootVars, vars, SetSinkLevel, PushSink, SetLevel,
                SetFlush, SetFormatter, AddSink
  <2>3. QED BY <1>0, <2>1, <2>2 DEF GuardInv
<1>7. QED BY <1>1, <1>2, <1>3, <1>4, <1>5, <1>6 DEF RootNext, MacroStep, RootOver

LEMMA ConfigStep ==
  ASSUME RootInv, [RootNext]_rootVars
  PROVE  ConfigInv'
<1>0. /\ configured \in 0 .. 4
      /\ guard \in [Statics -> Thread \cup {Nobody, Done}]
      /\ guard[3] = Nobody => configured = 0
      /\ guard[3] = Done => configured = 4
      /\ configured <= 1 => m_sinks = <<Root>>
      /\ configured >= 2 => Len(m_sinks) >= 2 /\ m_sinks[1] = Root /\ m_sinks[2] = Root
      /\ m_sinks \in Seq(Sink)
  BY DEF RootInv, ConfigInv, GuardInv, IInv, Shapes, TypeOK
<1>1. ASSUME NEW t \in Thread, Configure(t) PROVE ConfigInv'
  <2>1. guard[3] = t /\ t # Nobody /\ t # Done /\ guard' = guard
    BY <1>1, ConfigureMeetsNobody DEF Configure
  <2>2. configured \in 0 .. 3 /\ configured' = configured + 1
    BY <1>1 DEF Configure
  <2>3. CASE configured # 1
    <3>1. m_sinks' = m_sinks
      BY <1>1, <2>3 DEF Configure, SetSinkLevel, SetLevel, SetFlush, loggerVars
    <3>2. QED BY <1>0, <2>1, <2>2, <2>3, <3>1 DEF ConfigInv
  <2>4. CASE configured = 1
    <3>1. m_sinks = <<Root>> /\ m_sinks' = Append(m_sinks, Root)
      BY <1>0, <1>1, <2>4 DEF Configure, PushSink
    <3>2. Root \in Sink /\ Len(m_sinks) = 1 /\ m_sinks[1] = Root
      BY <3>1, RootAssumption
    <3>3. Len(m_sinks') = 2 /\ m_sinks'[1] = Root /\ m_sinks'[2] = Root
      BY <1>0, <3>1, <3>2, AppendProperties
    <3>4. QED BY <2>1, <2>2, <2>4, <3>3 DEF ConfigInv
  <2>5. QED BY <2>3, <2>4
<1>2. CASE Program
  <2>1. configured' = configured /\ guard' = guard
    BY <1>2 DEF Program
  <2>2. CASE m_sinks' = m_sinks
    BY <1>0, <2>1, <2>2 DEF ConfigInv
  <2>3. CASE m_sinks' # m_sinks
    <3>1. PICK s \in Sink : AddSink(s) /\ guard[3] = Done
      BY <1>2, <2>3 DEF Program, SetFormatter, SetSinkLevel, SetLevel, SetFlush, setVars,
         loggerVars
    <3>2. m_sinks' = Append(m_sinks, s)
      BY <3>1 DEF AddSink, PushSink
    <3>3. Len(m_sinks') >= 2 /\ m_sinks'[1] = Root /\ m_sinks'[2] = Root
      BY <1>0, <3>1, <3>2, AppendProperties, LenProperties
    <3>4. QED BY <1>0, <2>1, <3>1, <3>3 DEF ConfigInv
  <2>4. QED BY <2>2, <2>3
<1>3. ASSUME NEW t \in Thread, Macro(t) \/ Pass(t) \/ Acquire(t) \/ Construct(t) \/ Configured(t)
      PROVE  ConfigInv'
  <2>1. configured' = configured /\ m_sinks' = m_sinks
    BY <1>3 DEF Macro, Pass, Acquire, Construct, Configured, vars, setVars, loggerVars
  <2>2. /\ guard'[3] = Nobody => configured = 0
        /\ guard'[3] = Done => configured = 4
    BY <1>0, <1>3, SyncAssumption, RootAssumption
       DEF Macro, Pass, Acquire, Construct, Configured, Initializes, Statics
  <2>3. QED BY <1>0, <2>1, <2>2 DEF ConfigInv
<1>4. ASSUME NEW t \in Thread, (\E l \in CallLevel : LogMacro(t, l)) \/ LogStepOf(t)
      PROVE  ConfigInv'
  <2>1. UNCHANGED <<configured, guard, m_sinks>>
    BY <1>4
       DEF LogMacro, Log, LogStepOf, LogStep, SinksDone, SinkSkip, Unwanted, SinkWanted,
           SinkLock, WriteRecord, WriteEol, FlushSink, FlushDone, setVars, loggerVars
  <2>2. QED BY <1>0, <2>1 DEF ConfigInv
<1>5. CASE UNCHANGED rootVars
  BY <1>0, <1>5 DEF rootVars, vars, setVars, loggerVars, ConfigInv
<1>6. QED BY <1>1, <1>2, <1>3, <1>4, <1>5 DEF RootNext, MacroStep, RootOver

LEMMA RootStepPreserves == RootInv /\ [RootNext]_rootVars => RootInv'
<1> SUFFICES ASSUME RootInv, [RootNext]_rootVars PROVE RootInv'
  OBVIOUS
<1>1. IInv'
  BY RootStepIsAStep, StepPreserves DEF RootInv
<1>2. QED BY <1>1, GuardStep, ConfigStep DEF RootInv

LEMMA RootInvariance == RootSpec => []RootInv
<1>1. QED BY RootInitEstablishes, RootStepPreserves, PTL DEF RootSpec

(* Whoever is inside the logger has it configured.                         *)
LEMMA InvImpliesConfigured == RootInv => ConfiguredWhenUsed
<1> SUFFICES ASSUME RootInv, NEW t \in Thread, pc[t] # "idle"
             PROVE  Len(m_sinks) >= 2 /\ SubSeq(m_sinks, 1, 2) = <<Root, Root>>
  BY DEF ConfiguredWhenUsed
<1>1. configured = 4
  BY DEF RootInv, GuardInv, ConfigInv
<1>2. /\ Len(m_sinks) >= 2 /\ m_sinks[1] = Root /\ m_sinks[2] = Root
      /\ m_sinks \in Seq(Sink)
  BY <1>1 DEF RootInv, ConfigInv, IInv, Shapes, TypeOK
<1>3. SubSeq(m_sinks, 1, 2) = <<Root, Root>>
  <2>1. Len(m_sinks) \in Nat /\ Root \in Sink
    BY <1>2, LenProperties, RootAssumption
  <2>2. \A i \in 1 .. 2 : m_sinks[i] \in Sink
    BY <1>2, <2>1
  <2>3. /\ SubSeq(m_sinks, 1, 2) \in Seq(Sink) /\ Len(SubSeq(m_sinks, 1, 2)) = 2
        /\ \A i \in 1 .. 2 : SubSeq(m_sinks, 1, 2)[i] = m_sinks[i]
    BY <2>2, SubSeqProperties
  <2>4. /\ <<Root, Root>> \in Seq(Sink) /\ Len(<<Root, Root>>) = 2
        /\ \A i \in 1 .. 2 : <<Root, Root>>[i] = m_sinks[i]
    BY <1>2, <2>1
  <2>5. QED BY <2>3, <2>4, SeqEqual
<1>4. QED BY <1>2, <1>3

(* The logger behind the macros is a Logger used as its documentation      *)
(* demands, whichever threads come first: nobody logs before it is         *)
(* configured, and its addSink meets nobody inside.                        *)
THEOREM RootRefinesLogger == RootSpec => RootIsALogger
<1>1. RootInit => Init
  BY DEF RootInit
<1>2. RootInv /\ RootInv' /\ [RootNext]_rootVars => [Next /\ ConfiguredWhenUsed']_vars
  <2>1. RootInv' => ConfiguredWhenUsed'
    BY InvImpliesConfigured, PTL
  <2>2. QED BY <2>1, RootStepIsAStep
<1>3. QED
  BY <1>1, <1>2, RootInvariance, PTL DEF RootSpec, RootIsALogger

(* So all that was proved of a Logger holds of it.                         *)
THEOREM RootIsSafe ==
  RootSpec => [](TypeOK /\ LinesWhole /\ FormatterAlive /\ FormattersInOrder
                   /\ LinesPerCall /\ FlushedOnReturn)
<1>1. RootSpec => Spec
  <2>1. [Next /\ ConfiguredWhenUsed']_vars => [Next]_vars
    OBVIOUS
  <2>2. QED BY <2>1, RootRefinesLogger, PTL DEF RootIsALogger, Spec
<1>2. QED
  BY <1>1, SyncTypes, SyncLinesWhole, SyncFormatterAlive, SyncFormattersInOrder,
     SyncLinesPerCall, SyncFlushedOnReturn, PTL
=============================================================================
