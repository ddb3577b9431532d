------------------------- MODULE AsyncLoggingProofs -------------------------
(***************************************************************************)
(* Proofs about AsyncLogging, for any number of clients, workers, sinks    *)
(* and calls, every list of sinks, every level and every capacity.         *)
(*                                                                         *)
(* The inductive invariant says what each shared_ptr count counts          *)
(* (PoolInv, RefsInv), what a call has posted so far (CallInv), and where  *)
(* every posted message is (PlacesInv).                                    *)
(***************************************************************************)
EXTENDS AsyncLogging, SequenceTheorems, FunctionTheorems, FiniteSetTheorems,
        TLAPS

Meaning == [always : SUBSET Slots, ever : SUBSET Slots]

Inside(c) == pc[c] \in {"sink", "post"}

(* TypeOK, except that the two counts need PoolInv and RefsInv to be seen  *)
(* never to fall below zero.                                               *)
Types ==
  /\ queue \in Seq(Entry)
  /\ inflight \in [Worker -> Entry \cup {NoMsg}]
  /\ evicted \in SUBSET Entry
  /\ phase \in {"open", "closing", "joined"}
  /\ pc \in [Thread -> {"idle", "sink", "post", "close", "join"}]
  /\ call \in [Client -> Int]
  /\ calls \in [Client -> 0 .. MaxCalls]
  /\ next \in [Client -> 1 .. Len(SinkList) + 1]
  /\ m_level \in Int /\ sinkLevel \in [Sink -> Int] /\ sets \in 0 .. MaxSets
  /\ poolRefs \in Int
  /\ held \in SUBSET ({"pool", "logger"} \cup Sink)
  /\ refs \in [Sink -> Int]
  /\ open \in [Sink -> BOOLEAN]
  /\ written \in [Sink -> Seq(Entry)]
  /\ durable \in [Sink -> Nat]
  /\ posted \in SUBSET Entry
  /\ missed \in SUBSET (Client \X (1 .. MaxCalls))

Shapes ==
  /\ Types
  /\ meant \in [Client -> Meaning]
  /\ pc[Owner] \in {"idle", "close", "join"}
  /\ \A c \in Client : calls[c] > 0 => call[c] \in Level
  /\ \A c \in Client : Inside(c) => calls[c] > 0 /\ "logger" \in held

(* A strong reference to the pool is the owner's or that of a thread which *)
(* is posting.  When there is none, one thread destroys the pool.          *)
Posting == {c \in Client : pc[c] = "post"}

Destroying(t) == pc[t] \in {"close", "join"}

PoolInv ==
  /\ poolRefs = Cardinality(Posting) + (IF "pool" \in held THEN 1 ELSE 0)
  /\ poolRefs > 0 => phase = "open" /\ \A t \in Thread : ~Destroying(t)
  /\ poolRefs = 0 /\ phase # "joined" => \E t \in Thread : Destroying(t)
  /\ \A t, u \in Thread : Destroying(t) /\ Destroying(u) => t = u
  /\ \A t \in Thread : /\ pc[t] = "close" => phase = "open"
                       /\ pc[t] = "join" => phase = "closing"
  /\ phase = "joined" => queue = << >> /\ \A w \in Worker : inflight[w] = NoMsg

(* A reference to a sink is the owner's, one of the logger's, or that of a *)
(* message which waits or which a worker carries.                          *)
For(q, s) == {i \in DOMAIN q : SinkOf(q[i]) = s}

CountIn(q, s) == Cardinality(For(q, s))

QueuedFor(s) == CountIn(queue, s)

CarriersFor(s) ==
  {w \in Worker : inflight[w] # NoMsg /\ SinkOf(inflight[w]) = s}

CarriedFor(s) == Cardinality(CarriersFor(s))

OwnersRef(s) == IF s \in held THEN 1 ELSE 0

LoggersRefs(s) == IF "logger" \in held THEN Occurrences(s) ELSE 0

Counted(s) == OwnersRef(s) + LoggersRefs(s) + QueuedFor(s) + CarriedFor(s)

RefsInv ==
  \A s \in Sink :
    /\ refs[s] = Counted(s)
    /\ open[s] <=> refs[s] > 0
    /\ ~open[s] => durable[s] = Len(written[s])

(* What the last call of a client has reached.                             *)
Reached(c) == {m.at : m \in {k \in posted : k.from = c /\ k.nr = calls[c]}}

Settled(c) ==
  IF <<c, calls[c]>> \in missed THEN Reached(c) = {}
  ELSE meant[c].always \subseteq Reached(c) /\ Reached(c) \subseteq meant[c].ever

CallInv(c) ==
  /\ \A m \in posted : m.from = c => m.nr <= calls[c]
  /\ \A n \in 1 .. MaxCalls : <<c, n>> \in missed => n <= calls[c]
  /\ Inside(c) =>
       /\ <<c, calls[c]>> \notin missed
       /\ \A i \in Slots :
            /\ i \in meant[c].always => call[c] >= sinkLevel[SinkList[i]]
            /\ call[c] >= sinkLevel[SinkList[i]] => i \in meant[c].ever
  /\ pc[c] = "sink" => Reached(c) = {}
  /\ pc[c] = "post" =>
       /\ \A i \in meant[c].always : i < next[c] => i \in Reached(c)
       /\ \A i \in Reached(c) : i < next[c] /\ i \in meant[c].ever
  /\ ~Inside(c) /\ calls[c] > 0 => Settled(c)

(* A posted message is in one place.                                       *)
Carried == {inflight[w] : w \in Worker} \ {NoMsg}

Once(q) == \A i, j \in DOMAIN q : q[i] = q[j] => i = j

OnceEach ==
  /\ Once(queue)
  /\ \A v, w \in Worker : inflight[v] = inflight[w] /\ inflight[v] # NoMsg => v = w
  /\ \A s \in Sink : Once(written[s])

Apart ==
  /\ Among(queue) \cap Carried = {}
  /\ evicted \cap (Among(queue) \cup Carried) = {}
  /\ \A s \in Sink :
       Among(written[s]) \cap (Among(queue) \cup Carried \cup evicted) = {}

Accounted ==
  /\ Among(queue) \cup Carried \cup evicted \subseteq posted
  /\ \A s \in Sink : Among(written[s]) \subseteq posted
  /\ \A m \in posted : \/ m \in Among(queue) \cup Carried \cup evicted
                       \/ m \in Among(written[SinkOf(m)])

PlacesInv == OnceEach /\ Apart /\ Accounted

IInv ==
  /\ Shapes /\ PoolInv /\ RefsInv /\ PlacesInv
  /\ \A c \in Client : CallInv(c)

-----------------------------------------------------------------------------
(* Sequences of messages                                                   *)

LEMMA AtTheEnd ==
  ASSUME NEW q \in Seq(Entry), NEW m \in Entry
  PROVE  /\ Append(q, m) \in Seq(Entry)
         /\ Among(Append(q, m)) = Among(q) \cup {m}
         /\ Once(q) /\ m \notin Among(q) => Once(Append(q, m))
<1>1. /\ Append(q, m) \in Seq(Entry)
      /\ Len(Append(q, m)) = Len(q) + 1
      /\ \A i \in 1 .. Len(q) : Append(q, m)[i] = q[i]
      /\ Append(q, m)[Len(q) + 1] = m
  BY AppendProperties
<1>2. /\ Len(q) \in Nat /\ DOMAIN q = 1 .. Len(q)
      /\ DOMAIN Append(q, m) = 1 .. Len(q) + 1
  BY <1>1, LenProperties
<1>3. Among(Append(q, m)) = Among(q) \cup {m}
  BY <1>1, <1>2 DEF Among
<1>4. ASSUME Once(q), m \notin Among(q)
      PROVE  Once(Append(q, m))
  <2>1. \A i \in 1 .. Len(q) : q[i] # m
    BY <1>2, <1>4 DEF Among
  <2>2. QED BY <1>1, <1>2, <1>4, <2>1 DEF Once
<1>5. QED BY <1>1, <1>3, <1>4

LEMMA FromTheFront ==
  ASSUME NEW q \in Seq(Entry), q # << >>
  PROVE  /\ Head(q) \in Entry /\ Tail(q) \in Seq(Entry)
         /\ Among(q) = {Head(q)} \cup Among(Tail(q))
         /\ Once(q) => Once(Tail(q)) /\ Head(q) \notin Among(Tail(q))
<1>1. /\ Len(q) \in Nat /\ Len(q) > 0 /\ DOMAIN q = 1 .. Len(q)
      /\ Head(q) \in Entry /\ Head(q) = q[1]
      /\ Tail(q) \in Seq(Entry) /\ Len(Tail(q)) = Len(q) - 1
      /\ \A i \in 1 .. Len(q) - 1 : Tail(q)[i] = q[i + 1]
  BY EmptySeq, LenProperties, HeadTailProperties
<1>2. DOMAIN Tail(q) = 1 .. Len(q) - 1
  BY <1>1, LenProperties
<1>3. \A i \in 1 .. Len(q) : i = 1 \/ (i - 1 \in 1 .. Len(q) - 1 /\ q[i] = Tail(q)[i - 1])
  BY <1>1
<1>4. Among(q) \subseteq {Head(q)} \cup Among(Tail(q))
  <2>1. ASSUME NEW i \in 1 .. Len(q)
        PROVE  q[i] \in {Head(q)} \cup Among(Tail(q))
    BY <1>1, <1>2, <1>3 DEF Among
  <2>2. QED BY <1>1, <2>1 DEF Among
<1>5. {Head(q)} \cup Among(Tail(q)) \subseteq Among(q)
  <2>1. Head(q) \in Among(q)
    BY <1>1 DEF Among
  <2>2. ASSUME NEW i \in 1 .. Len(q) - 1 PROVE Tail(q)[i] \in Among(q)
    BY <1>1, i + 1 \in 1 .. Len(q) DEF Among
  <2>3. QED BY <1>2, <2>1, <2>2 DEF Among
<1>6. ASSUME Once(q)
      PROVE  Once(Tail(q)) /\ Head(q) \notin Among(Tail(q))
  <2>1. \A i, j \in 1 .. Len(q) : q[i] = q[j] => i = j
    BY <1>1, <1>6 DEF Once
  <2>2. \A i \in 1 .. Len(q) - 1 : i + 1 \in 1 .. Len(q) /\ i + 1 # 1
    BY <1>1
  <2>3. \A i, j \in 1 .. Len(q) - 1 : Tail(q)[i] = Tail(q)[j] => i = j
    BY <1>1, <2>1, <2>2
  <2>4. \A i \in 1 .. Len(q) - 1 : Tail(q)[i] # Head(q)
    BY <1>1, <2>1, <2>2, 1 \in 1 .. Len(q)
  <2>5. QED BY <1>2, <2>3, <2>4 DEF Once, Among
<1>7. QED BY <1>1, <1>4, <1>5, <1>6

LEMMA CountIsNat ==
  ASSUME NEW q \in Seq(Entry), NEW s
  PROVE  /\ CountIn(q, s) \in Nat
         /\ IsFiniteSet(For(q, s))
         /\ \A m \in Among(q) : SinkOf(m) = s => CountIn(q, s) > 0
<1> DEFINE at == For(q, s)
<1>1. Len(q) \in Nat /\ DOMAIN q = 1 .. Len(q)
  BY LenProperties
<1>2. IsFiniteSet(at)
  <2>1. IsFiniteSet(1 .. Len(q)) BY <1>1, FS_Interval
  <2>2. at \subseteq 1 .. Len(q) BY <1>1 DEF For
  <2>3. QED BY <2>1, <2>2, FS_Subset
<1>3. Cardinality(at) \in Nat /\ (Cardinality(at) = 0 <=> at = {})
  BY <1>2, FS_CardinalityType, FS_EmptySet
<1>4. \A m \in Among(q) : SinkOf(m) = s => at # {}
  BY DEF Among, For
<1>5. QED BY <1>2, <1>3, <1>4 DEF CountIn

LEMMA CountAtTheEnd ==
  ASSUME NEW q \in Seq(Entry), NEW m \in Entry, NEW s
  PROVE  CountIn(Append(q, m), s) = CountIn(q, s) + Ref(m, s)
<1> DEFINE at == For(q, s)
           new == For(Append(q, m), s)
<1>1. /\ Append(q, m) \in Seq(Entry)
      /\ Len(Append(q, m)) = Len(q) + 1
      /\ \A i \in 1 .. Len(q) : Append(q, m)[i] = q[i]
      /\ Append(q, m)[Len(q) + 1] = m
  BY AppendProperties
<1>2. /\ Len(q) \in Nat /\ DOMAIN q = 1 .. Len(q)
      /\ DOMAIN Append(q, m) = 1 .. Len(q) + 1
  BY <1>1, LenProperties
<1>3. IsFiniteSet(at) /\ Cardinality(at) \in Nat
  BY CountIsNat DEF CountIn
<1>4. CASE SinkOf(m) = s
  <2>1. new = at \cup {Len(q) + 1} /\ Len(q) + 1 \notin at
    BY <1>1, <1>2, <1>4 DEF For
  <2>2. Cardinality(new) = Cardinality(at) + 1
    BY <1>3, <2>1, FS_AddElement
  <2>3. QED BY <1>4, <2>2 DEF CountIn, Ref
<1>5. CASE SinkOf(m) # s
  <2>1. new = at
    BY <1>1, <1>2, <1>5 DEF For
  <2>2. QED BY <1>3, <1>5, <2>1 DEF CountIn, Ref
<1>6. QED BY <1>4, <1>5

LEMMA CountFromTheFront ==
  ASSUME NEW q \in Seq(Entry), q # << >>, NEW s
  PROVE  CountIn(q, s) = CountIn(Tail(q), s) + Ref(Head(q), s)
<1> DEFINE at == For(q, s)
           rest == For(Tail(q), s)
           moved == at \ {1}
           f == [i \in rest |-> i + 1]
<1>1. /\ Len(q) \in Nat /\ Len(q) > 0 /\ DOMAIN q = 1 .. Len(q)
      /\ Head(q) \in Entry /\ Head(q) = q[1]
      /\ Tail(q) \in Seq(Entry) /\ Len(Tail(q)) = Len(q) - 1
      /\ \A i \in 1 .. Len(q) - 1 : Tail(q)[i] = q[i + 1]
  BY EmptySeq, LenProperties, HeadTailProperties
<1>2. DOMAIN Tail(q) = 1 .. Len(q) - 1
  BY <1>1, LenProperties
<1>3. IsFiniteSet(at) /\ IsFiniteSet(rest) /\ Cardinality(rest) \in Nat
  BY <1>1, CountIsNat DEF CountIn
<1>4. f \in Bijection(rest, moved)
  <2>1. \A i \in rest : i + 1 \in moved
    BY <1>1, <1>2 DEF For
  <2>2. \A j \in moved : j - 1 \in rest /\ f[j - 1] = j
    BY <1>1, <1>2 DEF For
  <2>3. \A i, j \in rest : f[i] = f[j] => i = j
    BY <1>1, <1>2 DEF For
  <2>4. f \in [rest -> moved] BY <2>1
  <2>5. QED BY <2>2, <2>3, <2>4, Fun_IsBij
<1>5. IsFiniteSet(moved) /\ Cardinality(moved) = Cardinality(rest)
  <2>1. ExistsBijection(rest, moved)
    BY <1>4 DEF ExistsBijection
  <2>2. QED BY <1>3, <2>1, FS_Bijection
<1>6. CASE SinkOf(Head(q)) = s
  <2>1. at = moved \cup {1} /\ 1 \notin moved
    BY <1>1, <1>6 DEF For
  <2>2. Cardinality(at) = Cardinality(moved) + 1
    BY <1>5, <2>1, FS_AddElement
  <2>3. QED BY <1>5, <1>6, <2>2 DEF CountIn, Ref
<1>7. CASE SinkOf(Head(q)) # s
  <2>1. moved = at
    BY <1>1, <1>7 DEF For
  <2>2. Cardinality(at) = Cardinality(rest)
    BY <1>5, <2>1
  <2>3. QED BY <1>3, <1>7, <2>2 DEF CountIn, Ref
<1>8. QED BY <1>6, <1>7

-----------------------------------------------------------------------------
(* The constants, and what the counts count                                *)

LEMMA Lists ==
  /\ Len(SinkList) \in Nat /\ Slots = 1 .. Len(SinkList)
  /\ \A i \in Slots : SinkList[i] \in Sink
  /\ \A m \in Entry : m.at \in Slots /\ SinkOf(m) \in Sink /\ m # NoMsg
BY LoggingAssumption, LenProperties DEF Slots, Entry, SinkOf

LEMMA SlotsOf ==
  ASSUME NEW s
  PROVE  /\ Occurrences(s) \in Nat
         /\ \A i \in Slots : SinkList[i] = s => Occurrences(s) > 0
<1> DEFINE slots == {i \in Slots : SinkList[i] = s}
<1>1. IsFiniteSet(Slots)
  BY Lists, FS_Interval
<1>2. IsFiniteSet(slots)
  BY <1>1, FS_Subset
<1>3. Cardinality(slots) \in Nat /\ (Cardinality(slots) = 0 <=> slots = {})
  BY <1>2, FS_CardinalityType, FS_EmptySet
<1>4. Occurrences(s) = Cardinality(slots)
  BY DEF Occurrences
<1> HIDE DEF slots
<1>5. \A i \in Slots : SinkList[i] = s => slots # {}
  BY DEF slots
<1>6. QED BY <1>3, <1>4, <1>5

LEMMA Carriers ==
  ASSUME Types, NEW s
  PROVE  /\ IsFiniteSet(CarriersFor(s)) /\ CarriedFor(s) \in Nat
         /\ \A w \in CarriersFor(s) : CarriedFor(s) > 0
<1>1. IsFiniteSet(CarriersFor(s))
  <2>1. IsFiniteSet(Worker) /\ CarriersFor(s) \subseteq Worker
    BY LoggingAssumption DEF CarriersFor
  <2>2. QED BY <2>1, FS_Subset
<1>2. QED BY <1>1, FS_CardinalityType, FS_EmptySet DEF CarriedFor

LEMMA CountsAreNat ==
  ASSUME Types, NEW s
  PROVE  /\ OwnersRef(s) \in Nat /\ LoggersRefs(s) \in Nat
         /\ QueuedFor(s) \in Nat /\ CarriedFor(s) \in Nat
         /\ Counted(s) \in Nat
<1>1. QueuedFor(s) \in Nat
  BY CountIsNat DEF Types, QueuedFor
<1>2. OwnersRef(s) \in Nat /\ LoggersRefs(s) \in Nat
  BY SlotsOf DEF OwnersRef, LoggersRefs
<1>3. QED BY <1>1, <1>2, Carriers DEF Counted

LEMMA PostersCounted ==
  /\ IsFiniteSet(Posting) /\ Cardinality(Posting) \in Nat
  /\ \A c \in Client : pc[c] = "post" => Cardinality(Posting) > 0
<1>1. IsFiniteSet(Posting)
  <2>1. IsFiniteSet(Client) /\ Posting \subseteq Client
    BY LoggingAssumption DEF Posting
  <2>2. QED BY <2>1, FS_Subset
<1>2. Cardinality(Posting) \in Nat /\ (Cardinality(Posting) = 0 <=> Posting = {})
  BY <1>1, FS_CardinalityType, FS_EmptySet
<1>3. \A c \in Client : pc[c] = "post" => Posting # {}
  BY DEF Posting
<1>4. QED BY <1>1, <1>2, <1>3

(* PoolOutlivesPosts and SinkOutlivesMessages follow.                      *)
LEMMA PoolIsOpen ==
  ASSUME Types, PoolInv
  PROVE  PoolOutlivesPosts
<1> SUFFICES ASSUME NEW c \in Client, pc[c] = "post" PROVE phase = "open"
  BY DEF PoolOutlivesPosts
<1>1. poolRefs > 0
  BY PostersCounted DEF PoolInv
<1>2. QED BY <1>1 DEF PoolInv

LEMMA ReferredSinksAreOpen ==
  ASSUME Types, RefsInv
  PROVE  /\ SinkOutlivesMessages
         /\ "logger" \in held => \A i \in Slots : open[SinkList[i]]
         /\ \A s \in Sink : refs[s] \in Nat
<1>1. ASSUME NEW s \in Sink, Counted(s) > 0 PROVE open[s]
  BY <1>1 DEF RefsInv
<1>2. ASSUME NEW m \in Among(queue) PROVE open[SinkOf(m)]
  <2>1. m \in Entry
    BY LenProperties DEF Types, Among
  <2>2. QueuedFor(SinkOf(m)) > 0
    BY CountIsNat DEF Types, QueuedFor
  <2>3. Counted(SinkOf(m)) > 0
    BY <2>2, CountsAreNat DEF Counted
  <2>4. QED BY <1>1, <2>1, <2>3, Lists
<1>3. ASSUME NEW w \in Worker, inflight[w] # NoMsg PROVE open[SinkOf(inflight[w])]
  <2>1. inflight[w] \in Entry
    BY <1>3 DEF Types
  <2>2. CarriedFor(SinkOf(inflight[w])) > 0
    BY <1>3, Carriers DEF CarriersFor
  <2>3. Counted(SinkOf(inflight[w])) > 0
    BY <2>2, CountsAreNat DEF Counted
  <2>4. QED BY <1>1, <2>1, <2>3, Lists
<1>4. ASSUME "logger" \in held, NEW i \in Slots PROVE open[SinkList[i]]
  <2>1. LoggersRefs(SinkList[i]) > 0
    BY <1>4, SlotsOf DEF LoggersRefs
  <2>2. Counted(SinkList[i]) > 0
    BY <2>1, CountsAreNat DEF Counted
  <2>3. QED BY <1>1, <2>2, Lists
<1>5. SinkOutlivesMessages
  BY <1>2, <1>3 DEF SinkOutlivesMessages, Pending
<1>6. \A s \in Sink : refs[s] \in Nat
  BY CountsAreNat DEF RefsInv
<1>7. QED BY <1>4, <1>5, <1>6

-----------------------------------------------------------------------------
(* The initial state                                                       *)

LEMMA CountNothing ==
  ASSUME NEW s
  PROVE  CountIn(<< >>, s) = 0
<1>1. For(<< >>, s) = {}
  BY DEF For
<1>2. QED BY <1>1, FS_EmptySet DEF CountIn

LEMMA InitTypes == Init => Shapes
<1> SUFFICES ASSUME Init PROVE Shapes
  OBVIOUS
<1>1. Types
  BY LoggingAssumption, Lists, SlotsOf DEF Init, Pool!Init, Types, Thread
<1>2. meant \in [Client -> Meaning]
  BY DEF Init, Meaning
<1>3. pc[Owner] = "idle"
  BY DEF Init, Thread
<1>4. \A c \in Client : calls[c] = 0 /\ ~Inside(c)
  BY DEF Init, Thread, Inside
<1>5. QED BY <1>1, <1>2, <1>3, <1>4 DEF Shapes

LEMMA InitPool == Init => PoolInv
<1> SUFFICES ASSUME Init PROVE PoolInv
  OBVIOUS
<1>1. Posting = {}
  BY DEF Init, Posting, Thread
<1>2. Cardinality(Posting) = 0
  BY <1>1, FS_EmptySet
<1>3. phase = "open" /\ poolRefs = 1 /\ "pool" \in held
  BY DEF Init, Pool!Init
<1>4. \A t \in Thread : pc[t] = "idle"
  BY DEF Init
<1>5. QED BY <1>2, <1>3, <1>4 DEF PoolInv, Destroying

LEMMA InitRefs == Init => RefsInv
<1> SUFFICES ASSUME Init, NEW s \in Sink
             PROVE  /\ refs[s] = Counted(s)
                    /\ open[s] <=> refs[s] > 0
                    /\ ~open[s] => durable[s] = Len(written[s])
  BY DEF RefsInv
<1>1. QueuedFor(s) = 0
  BY CountNothing DEF Init, Pool!Init, QueuedFor
<1>2. CarriedFor(s) = 0
  <2>1. CarriersFor(s) = {}
    BY DEF Init, Pool!Init, CarriersFor
  <2>2. QED BY <2>1, FS_EmptySet DEF CarriedFor
<1>3. OwnersRef(s) = 1 /\ LoggersRefs(s) = Occurrences(s)
  BY DEF Init, OwnersRef, LoggersRefs
<1>4. refs[s] = 1 + Occurrences(s) /\ open[s]
  BY DEF Init
<1>5. QED BY <1>1, <1>2, <1>3, <1>4, SlotsOf DEF Counted

LEMMA InitPlaces == Init => PlacesInv
<1> SUFFICES ASSUME Init PROVE PlacesInv
  OBVIOUS
<1>1. /\ queue = << >> /\ evicted = {} /\ posted = {}
      /\ \A w \in Worker : inflight[w] = NoMsg
      /\ \A s \in Sink : written[s] = << >>
  BY DEF Init, Pool!Init
<1>2. Among(<< >>) = {} /\ Once(<< >>)
  BY DEF Among, Once
<1>3. Carried = {}
  BY <1>1 DEF Carried
<1>4. QED BY <1>1, <1>2, <1>3 DEF PlacesInv, OnceEach, Apart, Accounted

LEMMA InitCalls == Init => \A c \in Client : CallInv(c)
<1> SUFFICES ASSUME Init, NEW c \in Client PROVE CallInv(c)
  OBVIOUS
<1>1. posted = {} /\ missed = {} /\ calls[c] = 0 /\ pc[c] = "idle"
  BY DEF Init, Thread
<1>2. QED BY <1>1 DEF CallInv, Inside

LEMMA InitIInv == Init => IInv
BY InitTypes, InitPool, InitRefs, InitPlaces, InitCalls DEF IInv

-----------------------------------------------------------------------------
(* What a step leaves alone                                                *)

LEMMA PoolSame ==
  ASSUME PoolInv, UNCHANGED <<pc, poolRefs, held, phase, queue, inflight>>
  PROVE  PoolInv'
BY DEF PoolInv, Posting, Destroying

LEMMA RefsSame ==
  ASSUME RefsInv,
         UNCHANGED <<queue, inflight, held, refs, open, written, durable>>
  PROVE  RefsInv'
BY DEF RefsInv, Counted, OwnersRef, LoggersRefs, QueuedFor, CarriedFor,
       CarriersFor

LEMMA PlacesSame ==
  ASSUME PlacesInv, UNCHANGED <<queue, inflight, evicted, written, posted>>
  PROVE  PlacesInv'
BY DEF PlacesInv, OnceEach, Apart, Accounted, Carried

(* A step of others, or one that this client takes outside the logger.     *)
LEMMA CallSame ==
  ASSUME NEW c \in Client, CallInv(c),
         pc'[c] = pc[c] \/ (~Inside(c) /\ ~Inside(c)'),
         call'[c] = call[c], calls'[c] = calls[c], next'[c] = next[c],
         meant'[c] = meant[c], sinkLevel' = sinkLevel,
         \A m : m.from = c => (m \in posted' <=> m \in posted),
         \A n : <<c, n>> \in missed' <=> <<c, n>> \in missed
  PROVE  CallInv(c)'
<1>1. Reached(c)' = Reached(c)
  BY DEF Reached
<1>2. Settled(c)' <=> Settled(c)
  BY <1>1 DEF Settled
<1>3. Inside(c)' <=> Inside(c)
  BY DEF Inside
<1>4. /\ pc'[c] = "sink" <=> pc[c] = "sink"
      /\ pc'[c] = "post" <=> pc[c] = "post"
  BY DEF Inside
<1>5. /\ \A m \in posted' : m.from = c => m.nr <= calls'[c]
      /\ \A n \in 1 .. MaxCalls : <<c, n>> \in missed' => n <= calls'[c]
  BY DEF CallInv
<1>6. QED BY <1>1, <1>2, <1>3, <1>4, <1>5 DEF CallInv

LEMMA CallsSame ==
  ASSUME \A c \in Client : CallInv(c),
         UNCHANGED <<pc, callVars, sinkLevel, historyVars>>
  PROVE  (\A c \in Client : CallInv(c))'
<1>1. ASSUME NEW c \in Client PROVE CallInv(c)'
  BY <1>1, CallSame DEF callVars, historyVars
<1>2. QED BY <1>1

-----------------------------------------------------------------------------
(* Calls and setters                                                       *)

LEMMA CallKeeps ==
  ASSUME IInv, NEW c \in Client, NEW l \in Level, Call(c, l)
  PROVE  IInv'
<1> USE DEF IInv
<1>1. /\ pc[c] = "idle" /\ "logger" \in held /\ calls[c] < MaxCalls
      /\ calls' = [calls EXCEPT ![c] = @ + 1]
      /\ call' = [call EXCEPT ![c] = l]
      /\ pc' = [pc EXCEPT ![c] = IF ShouldLog(l) THEN "sink" ELSE "idle"]
      /\ meant' = [meant EXCEPT ![c] = MeantNow(l)]
      /\ UNCHANGED <<queue, inflight, evicted, phase, next, m_level, sinkLevel,
                     sets, poolRefs, held, refs, open, written, durable, posted,
                     missed>>
  BY DEF Call, poolVars, levelVars, sinkVars
<1>2. MeantNow(l) \in Meaning
  BY DEF MeantNow, Meaning
<1>3. Shapes'
  <2>1. calls[c] \in 0 .. MaxCalls /\ MaxCalls \in Nat /\ l \in Int /\ c \in Thread
    BY LoggingAssumption DEF Shapes, Types, Thread
  <2>2. Types'
    <3>1. /\ pc' \in [Thread -> {"idle", "sink", "post", "close", "join"}]
          /\ call' \in [Client -> Int] /\ calls' \in [Client -> 0 .. MaxCalls]
      BY <1>1, <2>1 DEF Shapes, Types
    <3>2. QED BY <1>1, <3>1 DEF Shapes, Types
  <2>3. meant' \in [Client -> Meaning]
    BY <1>1, <1>2 DEF Shapes
  <2>4. pc'[Owner] \in {"idle", "close", "join"}
    BY <1>1, LoggingAssumption DEF Shapes, Types, Thread
  <2>5. \A d \in Client : calls'[d] > 0 => call'[d] \in Level
    BY <1>1 DEF Shapes, Types
  <2>6. \A d \in Client : Inside(d)' => calls'[d] > 0 /\ "logger" \in held'
    BY <1>1, <2>1 DEF Shapes, Types, Inside, Thread
  <2>7. QED BY <2>2, <2>3, <2>4, <2>5, <2>6 DEF Shapes
<1>4. PoolInv'
  <2>1. pc \in [Thread -> {"idle", "sink", "post", "close", "join"}] /\ c \in Thread
    BY DEF Shapes, Types, Thread
  <2>2. \A t \in Thread : /\ pc'[t] = "post" <=> pc[t] = "post"
                          /\ pc'[t] = "close" <=> pc[t] = "close"
                          /\ pc'[t] = "join" <=> pc[t] = "join"
    BY <1>1, <2>1
  <2>3. Posting' = Posting
    BY <2>2 DEF Posting, Thread
  <2>4. QED BY <1>1, <2>2, <2>3 DEF PoolInv, Destroying
<1>5. RefsInv' /\ PlacesInv'
  BY <1>1, RefsSame, PlacesSame
<1>6. ASSUME NEW d \in Client, d # c PROVE CallInv(d)'
  BY <1>1, <1>6, CallSame DEF Shapes, Types
<1>7. CallInv(c)'
  <2>1. /\ calls'[c] = calls[c] + 1 /\ calls[c] \in Nat
        /\ call'[c] = l /\ meant'[c] = MeantNow(l)
        /\ pc'[c] = (IF ShouldLog(l) THEN "sink" ELSE "idle")
    BY <1>1 DEF Shapes, Types, Thread
  <2>2. \A m \in posted : m.from = c => m.nr \in 1 .. MaxCalls /\ m.nr <= calls[c]
    BY DEF Shapes, Types, CallInv, Entry
  <2>3. \A n \in 1 .. MaxCalls : <<c, n>> \in missed => n <= calls[c]
    BY DEF CallInv
  <2>4. Reached(c)' = {}
    BY <1>1, <2>1, <2>2 DEF Reached
  <2>5. <<c, calls'[c]>> \notin missed'
    BY <1>1, <2>1, <2>3 DEF Shapes, Types
  <2>6. ASSUME ~ShouldLog(l) PROVE MeantNow(l).always = {}
    BY <2>6 DEF ShouldLog, MeantNow
  <2>7. ASSUME ShouldLog(l), NEW i \in Slots
        PROVE  /\ i \in MeantNow(l).always <=> l >= sinkLevel[SinkList[i]]
               /\ i \in MeantNow(l).ever <=> l >= sinkLevel[SinkList[i]]
    BY <2>7 DEF ShouldLog, MeantNow
  <2>8. /\ \A m \in posted' : m.from = c => m.nr <= calls'[c]
        /\ \A n \in 1 .. MaxCalls : <<c, n>> \in missed' => n <= calls'[c]
    BY <1>1, <2>1, <2>2, <2>3
  <2>9. CASE ShouldLog(l)
    BY <1>1, <2>1, <2>4, <2>5, <2>7, <2>8, <2>9 DEF CallInv, Inside
  <2>10. CASE ~ShouldLog(l)
    BY <2>1, <2>4, <2>5, <2>6, <2>8, <2>10 DEF CallInv, Inside, Settled
  <2>11. QED BY <2>9, <2>10
<1>8. QED BY <1>3, <1>4, <1>5, <1>6, <1>7

LEMMA SetLevelKeeps ==
  ASSUME IInv, NEW l \in SetLevelTo, SetLevel(l)
  PROVE  IInv'
<1>1. /\ UNCHANGED <<queue, inflight, evicted, phase, pc, callVars, sinkLevel,
                     poolRefs, held, refs, open, written, durable, historyVars>>
      /\ m_level' = l /\ sets' = sets + 1 /\ sets < MaxSets
  BY DEF SetLevel, poolVars, sinkVars
<1>2. Shapes'
  <2>1. l \in Int /\ MaxSets \in Nat /\ sets \in 0 .. MaxSets
    BY LoggingAssumption DEF IInv, Shapes, Types
  <2>2. Types'
    BY <1>1, <2>1 DEF IInv, Shapes, Types, callVars, historyVars
  <2>3. QED BY <1>1, <2>2 DEF IInv, Shapes, Inside, callVars, historyVars
<1>3. PoolInv' /\ RefsInv' /\ PlacesInv'
  BY <1>1, PoolSame, RefsSame, PlacesSame DEF IInv, historyVars
<1>4. (\A c \in Client : CallInv(c))'
  BY <1>1, CallsSame DEF IInv
<1>5. QED BY <1>2, <1>3, <1>4 DEF IInv

LEMMA SetSinkLevelKeeps ==
  ASSUME IInv, NEW s \in Sink, NEW l \in SetLevelTo, SetSinkLevel(s, l)
  PROVE  IInv'
<1> DEFINE slots == {i \in Slots : SinkList[i] = s}
<1>1. /\ UNCHANGED <<queue, inflight, evicted, phase, pc, callVars, m_level,
                     poolRefs, held, refs, open, written, durable, posted, missed>>
      /\ sinkLevel' = [sinkLevel EXCEPT ![s] = l]
      /\ sets' = sets + 1 /\ sets < MaxSets
      /\ meant' = [c \in Client |->
           IF ~Inside(c) THEN meant[c]
           ELSE IF call[c] >= l THEN [meant[c] EXCEPT !.ever = @ \cup slots]
                ELSE [meant[c] EXCEPT !.always = @ \ slots]]
  BY DEF SetSinkLevel, poolVars, sinkVars, Inside
<1>2. /\ l \in Int /\ MaxSets \in Nat /\ sets \in 0 .. MaxSets
      /\ sinkLevel \in [Sink -> Int] /\ meant \in [Client -> Meaning]
      /\ sinkLevel' \in [Sink -> Int]
  BY <1>1, LoggingAssumption DEF IInv, Shapes, Types
<1>3. ASSUME NEW c \in Client
      PROVE  /\ meant'[c] \in Meaning
             /\ ~Inside(c) => meant'[c] = meant[c]
             /\ Inside(c) /\ call[c] >= l =>
                  /\ meant'[c].always = meant[c].always
                  /\ meant'[c].ever = meant[c].ever \cup slots
             /\ Inside(c) /\ ~(call[c] >= l) =>
                  /\ meant'[c].always = meant[c].always \ slots
                  /\ meant'[c].ever = meant[c].ever
  <2>1. /\ meant[c] \in Meaning
        /\ meant'[c] = IF ~Inside(c) THEN meant[c]
             ELSE IF call[c] >= l THEN [meant[c] EXCEPT !.ever = @ \cup slots]
                  ELSE [meant[c] EXCEPT !.always = @ \ slots]
    BY <1>1, <1>2
  <2>2. /\ [meant[c] EXCEPT !.ever = @ \cup slots] \in Meaning
        /\ [meant[c] EXCEPT !.always = @ \ slots] \in Meaning
    BY <2>1 DEF Meaning
  <2>3. QED BY <2>1, <2>2 DEF Meaning
<1>4. Shapes'
  <2>1. Types'
    <3>1. UNCHANGED <<queue, inflight, evicted, phase, pc, callVars, m_level,
                      poolRefs, held, refs, open, written, durable, posted,
                      missed>>
      BY <1>1
    <3>2. sets' \in 0 .. MaxSets
      BY <1>1, <1>2
    <3>3. QED BY <1>2, <3>1, <3>2 DEF IInv, Shapes, Types, callVars
  <2>2. meant' \in [Client -> Meaning]
    BY <1>1, <1>3
  <2>3. QED BY <1>1, <2>1, <2>2 DEF IInv, Shapes, Inside, callVars
<1>5. PoolInv' /\ RefsInv' /\ PlacesInv'
  BY <1>1, PoolSame, RefsSame, PlacesSame DEF IInv
<1>6. ASSUME NEW c \in Client PROVE CallInv(c)'
  <2>1. /\ Reached(c)' = Reached(c) /\ (Inside(c)' <=> Inside(c))
        /\ calls' = calls /\ call' = call /\ next' = next
    BY <1>1 DEF Reached, Inside, callVars
  <2>2. CASE ~Inside(c)
    <3>1. Settled(c)' <=> Settled(c)
      BY <1>1, <1>3, <2>1, <2>2 DEF Settled
    <3>2. pc'[c] # "sink" /\ pc'[c] # "post" /\ ~Inside(c)'
      BY <2>1, <2>2 DEF Inside
    <3>3. QED BY <1>1, <2>1, <2>2, <3>1, <3>2 DEF IInv, CallInv
  <2>3. CASE Inside(c)
    <3>1. ASSUME NEW i \in Slots
          PROVE  /\ i \in meant'[c].always => call[c] >= sinkLevel'[SinkList[i]]
                 /\ call[c] >= sinkLevel'[SinkList[i]] => i \in meant'[c].ever
      <4>1. /\ i \in meant[c].always => call[c] >= sinkLevel[SinkList[i]]
            /\ call[c] >= sinkLevel[SinkList[i]] => i \in meant[c].ever
        BY <2>3 DEF IInv, CallInv
      <4>2. SinkList[i] \in Sink
        BY Lists
      <4>3. sinkLevel'[SinkList[i]] = IF i \in slots THEN l ELSE sinkLevel[SinkList[i]]
        BY <1>1, <1>2, <4>2
      <4>4. CASE call[c] >= l
        BY <1>3, <2>3, <4>1, <4>3, <4>4
      <4>5. CASE ~(call[c] >= l)
        BY <1>3, <2>3, <4>1, <4>3, <4>5
      <4>6. QED BY <4>4, <4>5
    <3>2. meant'[c].always \subseteq meant[c].always /\ meant[c].ever \subseteq meant'[c].ever
      BY <1>3, <2>3
    <3>3. /\ pc'[c] = "sink" => Reached(c)' = {}
          /\ pc'[c] = "post" =>
               /\ \A i \in meant'[c].always : i < next'[c] => i \in Reached(c)'
               /\ \A i \in Reached(c)' : i < next'[c] /\ i \in meant'[c].ever
      BY <1>1, <2>1, <3>2 DEF IInv, CallInv
    <3>4. QED BY <1>1, <2>1, <2>3, <3>1, <3>3 DEF IInv, CallInv
  <2>4. QED BY <2>2, <2>3
<1>7. QED BY <1>4, <1>5, <1>6 DEF IInv

LEMMA FlushKeeps ==
  ASSUME IInv, NEW s \in Sink, Flush(s)
  PROVE  IInv'
<1>1. /\ UNCHANGED <<queue, inflight, evicted, phase, pc, callVars, levelVars,
                     poolRefs, held, refs, open, written, historyVars>>
      /\ durable' = [durable EXCEPT ![s] = Len(written[s])]
  BY DEF Flush, poolVars
<1>2. written[s] \in Seq(Entry) /\ Len(written[s]) \in Nat
  BY LenProperties DEF IInv, Shapes, Types
<1>3. Shapes'
  <2>1. durable' \in [Sink -> Nat]
    BY <1>1, <1>2 DEF IInv, Shapes, Types
  <2>2. Types'
    BY <1>1, <2>1 DEF IInv, Shapes, Types, callVars, levelVars, historyVars
  <2>3. QED BY <1>1, <2>2 DEF IInv, Shapes, Inside, callVars, historyVars
<1>4. PoolInv' /\ PlacesInv' /\ (\A c \in Client : CallInv(c))'
  BY <1>1, PoolSame, PlacesSame, CallsSame DEF IInv, historyVars, levelVars
<1>5. RefsInv'
  <2>1. \A r \in Sink : Counted(r)' = Counted(r)
    BY <1>1 DEF Counted, OwnersRef, LoggersRefs, QueuedFor, CarriedFor, CarriersFor
  <2>2. durable \in [Sink -> Nat]
    BY DEF IInv, Shapes, Types
  <2>3. QED BY <1>1, <2>1, <2>2 DEF IInv, RefsInv
<1>6. QED BY <1>3, <1>4, <1>5 DEF IInv

-----------------------------------------------------------------------------
(* References to the pool                                                  *)

LEMMA LockPoolKeeps ==
  ASSUME IInv, NEW c \in Client, LockPool(c)
  PROVE  IInv'
<1>1. /\ pc[c] = "sink" /\ next' = [next EXCEPT ![c] = 1]
      /\ UNCHANGED <<queue, inflight, evicted, phase, call, calls, levelVars, held,
                     refs, open, written, durable, posted, meant>>
      /\ \/ /\ poolRefs > 0 /\ poolRefs' = poolRefs + 1 /\ missed' = missed
            /\ pc' = [pc EXCEPT ![c] = "post"]
         \/ /\ ~(poolRefs > 0) /\ poolRefs' = poolRefs
            /\ missed' = missed \cup {<<c, calls[c]>>}
            /\ pc' = [pc EXCEPT ![c] = "idle"]
  BY DEF LockPool, LockedRef, poolVars, sinkVars
<1>2. /\ pc \in [Thread -> {"idle", "sink", "post", "close", "join"}] /\ c \in Thread
      /\ Inside(c) /\ calls[c] \in 1 .. MaxCalls /\ c # Owner
  BY <1>1, LoggingAssumption DEF IInv, Shapes, Types, Thread, Inside
<1>3. Shapes'
  <2>1. /\ pc' \in [Thread -> {"idle", "sink", "post", "close", "join"}]
        /\ next' \in [Client -> 1 .. Len(SinkList) + 1]
    <3>1. 1 \in 1 .. Len(SinkList) + 1 /\ next \in [Client -> 1 .. Len(SinkList) + 1]
      BY Lists DEF IInv, Shapes, Types
    <3>2. QED BY <1>1, <1>2, <3>1
  <2>2. poolRefs' \in Int /\ missed' \in SUBSET (Client \X (1 .. MaxCalls))
    BY <1>1, <1>2 DEF IInv, Shapes, Types
  <2>3. UNCHANGED <<queue, inflight, evicted, phase, call, calls, levelVars, held,
                    refs, open, written, durable, posted, meant>>
    BY <1>1
  <2>4. Types'
    BY <2>1, <2>2, <2>3 DEF IInv, Shapes, Types, levelVars
  <2>5. pc'[Owner] = pc[Owner] /\ \A d \in Client : Inside(d)' => Inside(d)
    BY <1>1, <1>2 DEF Inside, Thread
  <2>6. QED BY <2>3, <2>4, <2>5 DEF IInv, Shapes
<1>4. PoolInv'
  <2>1. \A t \in Thread : /\ pc'[t] = "close" <=> pc[t] = "close"
                          /\ pc'[t] = "join" <=> pc[t] = "join"
    BY <1>1, <1>2
  <2>2. IsFiniteSet(Posting) /\ Cardinality(Posting) \in Nat
    BY PostersCounted
  <2>3. CASE poolRefs > 0
    <3>1. Posting' = Posting \cup {c} /\ c \notin Posting
      BY <1>1, <1>2, <2>3 DEF Posting, Thread
    <3>2. Cardinality(Posting') = Cardinality(Posting) + 1
      BY <2>2, <3>1, FS_AddElement
    <3>3. poolRefs' = poolRefs + 1 /\ poolRefs \in Int
      BY <1>1, <2>3 DEF IInv, Shapes, Types
    <3>4. poolRefs' = Cardinality(Posting') + (IF "pool" \in held' THEN 1 ELSE 0)
      BY <1>1, <2>2, <3>2, <3>3 DEF IInv, PoolInv
    <3>5. QED BY <1>1, <2>1, <2>3, <3>3, <3>4 DEF IInv, PoolInv, Destroying
  <2>4. CASE ~(poolRefs > 0)
    <3>1. Posting' = Posting
      BY <1>1, <1>2, <2>4 DEF Posting, Thread
    <3>2. QED BY <1>1, <2>1, <2>4, <3>1 DEF IInv, PoolInv, Destroying
  <2>5. QED BY <2>3, <2>4
<1>5. RefsInv' /\ PlacesInv'
  BY <1>1, RefsSame, PlacesSame DEF IInv
<1>6. ASSUME NEW d \in Client, d # c PROVE CallInv(d)'
  <2>1. pc'[d] = pc[d] /\ next'[d] = next[d]
    BY <1>1, <1>2, <1>6 DEF IInv, Shapes, Types, Thread
  <2>2. \A n : <<d, n>> \in missed' <=> <<d, n>> \in missed
    BY <1>1, <1>6
  <2>3. QED BY <1>1, <2>1, <2>2, CallSame DEF IInv, levelVars
<1>7. CallInv(c)'
  <2>1. Reached(c)' = Reached(c) /\ Reached(c) = {}
    BY <1>1 DEF IInv, CallInv, Reached
  <2>2. next'[c] = 1 /\ c \in Client
    BY <1>1 DEF IInv, Shapes, Types
  <2>3. /\ \A i \in Slots : ~(i < 1)
        /\ meant[c].always \subseteq Slots
    BY Lists DEF IInv, Shapes, Meaning
  <2>4. CASE poolRefs > 0
    <3>1. pc'[c] = "post" /\ missed' = missed
      BY <1>1, <1>2, <2>4
    <3>2. QED BY <1>1, <1>2, <2>1, <2>2, <2>3, <3>1 DEF IInv, CallInv, Inside, levelVars
  <2>5. CASE ~(poolRefs > 0)
    <3>1. pc'[c] = "idle" /\ missed' = missed \cup {<<c, calls[c]>>}
      BY <1>1, <1>2, <2>5
    <3>2. Settled(c)' /\ ~Inside(c)'
      BY <1>1, <2>1, <3>1 DEF Settled, Inside
    <3>3. \A n \in 1 .. MaxCalls : <<c, n>> \in missed' => n <= calls'[c]
      <4>1. \A n \in 1 .. MaxCalls : <<c, n>> \in missed => n <= calls[c]
        BY DEF IInv, CallInv
      <4>2. QED BY <1>1, <1>2, <3>1, <4>1
    <3>4. QED BY <1>1, <3>1, <3>2, <3>3 DEF IInv, CallInv
  <2>6. QED BY <2>4, <2>5
<1>8. QED BY <1>3, <1>4, <1>5, <1>6, <1>7 DEF IInv

LEMMA UnlockKeeps ==
  ASSUME IInv, NEW c \in Client, Unlock(c)
  PROVE  IInv'
<1>1. /\ pc[c] = "post" /\ next[c] \notin Slots
      /\ poolRefs' = poolRefs - 1
      /\ pc' = [pc EXCEPT ![c] = IF poolRefs' = 0 THEN "close" ELSE "idle"]
      /\ UNCHANGED <<queue, inflight, evicted, phase, callVars, levelVars, held,
                     refs, open, written, durable, historyVars>>
  BY DEF Unlock, LockedRef, poolVars, sinkVars
<1>2. /\ pc \in [Thread -> {"idle", "sink", "post", "close", "join"}] /\ c \in Thread
      /\ Inside(c) /\ c # Owner
      /\ pc'[c] = (IF poolRefs' = 0 THEN "close" ELSE "idle")
      /\ \A t \in Thread \ {c} : pc'[t] = pc[t]
  BY <1>1, LoggingAssumption DEF IInv, Shapes, Types, Thread, Inside
<1>3. Shapes'
  <2>1. pc' \in [Thread -> {"idle", "sink", "post", "close", "join"}]
    BY <1>1, <1>2
  <2>2. poolRefs' \in Int
    BY <1>1 DEF IInv, Shapes, Types
  <2>3. UNCHANGED <<queue, inflight, evicted, phase, callVars, levelVars, held,
                    refs, open, written, durable, historyVars>>
    BY <1>1
  <2>4. Types'
    BY <2>1, <2>2, <2>3 DEF IInv, Shapes, Types, callVars, levelVars, historyVars
  <2>5. pc'[Owner] = pc[Owner] /\ \A d \in Client : Inside(d)' => Inside(d)
    BY <1>2 DEF Inside, Thread
  <2>6. QED BY <2>3, <2>4, <2>5 DEF IInv, Shapes, callVars, historyVars
<1>4. PoolInv'
  <2>1. IsFiniteSet(Posting) /\ Cardinality(Posting) \in Nat /\ poolRefs > 0
    <3>1. Cardinality(Posting) > 0
      BY <1>1, PostersCounted
    <3>2. QED BY <3>1, PostersCounted DEF IInv, PoolInv
  <2>2. phase = "open" /\ \A t \in Thread : ~Destroying(t)
    BY <2>1 DEF IInv, PoolInv
  <2>3. Posting' = Posting \ {c} /\ c \in Posting
    BY <1>1, <1>2 DEF Posting, Thread
  <2>4. Cardinality(Posting') = Cardinality(Posting) - 1
    BY <2>1, <2>3, FS_RemoveElement
  <2>5. poolRefs' = Cardinality(Posting') + (IF "pool" \in held' THEN 1 ELSE 0)
    BY <1>1, <2>1, <2>4 DEF IInv, PoolInv
  <2>6. CASE poolRefs' = 0
    <3>1. pc'[c] = "close" /\ \A t \in Thread : Destroying(t)' <=> t = c
      BY <1>2, <2>2, <2>6 DEF Destroying
    <3>2. \A t \in Thread : pc'[t] # "join"
      BY <1>2, <2>2, <2>6 DEF Destroying
    <3>3. QED BY <1>1, <1>2, <2>2, <2>5, <2>6, <3>1, <3>2 DEF PoolInv
  <2>7. CASE poolRefs' # 0
    <3>1. \A t \in Thread : ~Destroying(t)'
      BY <1>2, <2>2, <2>7 DEF Destroying
    <3>2. QED BY <1>1, <2>2, <2>5, <2>7, <3>1 DEF PoolInv, Destroying
  <2>8. QED BY <2>6, <2>7
<1>5. RefsInv' /\ PlacesInv'
  BY <1>1, RefsSame, PlacesSame DEF IInv, historyVars
<1>6. ASSUME NEW d \in Client, d # c PROVE CallInv(d)'
  BY <1>1, <1>2, <1>6, CallSame DEF IInv, Thread, callVars, levelVars, historyVars
<1>7. CallInv(c)'
  <2>1. Reached(c)' = Reached(c) /\ ~Inside(c)'
    BY <1>1, <1>2 DEF Reached, Inside, callVars, historyVars
  <2>2. \A i \in Slots : i < next[c]
    BY <1>1, Lists DEF IInv, Shapes, Types
  <2>3. meant[c].always \subseteq Slots
    BY DEF IInv, Shapes, Meaning
  <2>4. /\ meant[c].always \subseteq Reached(c) /\ Reached(c) \subseteq meant[c].ever
        /\ <<c, calls[c]>> \notin missed
    BY <1>1, <1>2, <2>2, <2>3 DEF IInv, CallInv
  <2>5. Settled(c)'
    BY <1>1, <2>1, <2>4 DEF Settled, callVars, historyVars
  <2>6. pc'[c] # "sink" /\ pc'[c] # "post"
    BY <1>2
  <2>7. QED BY <1>1, <2>1, <2>5, <2>6 DEF IInv, CallInv, callVars, historyVars
<1>8. QED BY <1>3, <1>4, <1>5, <1>6, <1>7 DEF IInv

-----------------------------------------------------------------------------
(* The destruction of the pool                                             *)

LEMMA CloseKeeps ==
  ASSUME IInv, NEW t \in Thread, CloseStep(t)
  PROVE  IInv'
<1>1. /\ pc[t] = "close" /\ phase' = "closing"
      /\ pc' = [pc EXCEPT ![t] = "join"]
      /\ UNCHANGED <<queue, inflight, evicted, callVars, levelVars, poolRefs, held,
                     refs, open, written, durable, historyVars>>
  BY DEF CloseStep, Pool!Close, sinkVars
<1>2. /\ pc \in [Thread -> {"idle", "sink", "post", "close", "join"}]
      /\ pc'[t] = "join" /\ \A u \in Thread \ {t} : pc'[u] = pc[u]
      /\ \A u \in Thread : /\ pc'[u] = "post" <=> pc[u] = "post"
                           /\ Destroying(u)' <=> Destroying(u)
                           /\ pc'[u] \in {"sink", "post"} => pc[u] \in {"sink", "post"}
  BY <1>1 DEF IInv, Shapes, Types, Destroying
<1>3. Shapes'
  <2>1. pc' \in [Thread -> {"idle", "sink", "post", "close", "join"}]
    BY <1>1, <1>2
  <2>2. UNCHANGED <<queue, inflight, evicted, callVars, levelVars, poolRefs, held,
                    refs, open, written, durable, historyVars>>
    BY <1>1
  <2>3. Types'
    BY <1>1, <2>1, <2>2 DEF IInv, Shapes, Types, callVars, levelVars, historyVars
  <2>4. pc'[Owner] \in {"idle", "close", "join"}
    BY <1>2 DEF IInv, Shapes, Thread
  <2>5. \A d \in Client : Inside(d)' => Inside(d)
    BY <1>2 DEF Inside, Thread
  <2>6. QED BY <2>2, <2>3, <2>4, <2>5 DEF IInv, Shapes, callVars, historyVars
<1>4. PoolInv'
  <2>1. Posting' = Posting
    BY <1>2 DEF Posting, Thread
  <2>2. Destroying(t)
    BY <1>1 DEF Destroying
  <2>3. \A u \in Thread : Destroying(u)' => u = t
    BY <1>2, <2>2 DEF IInv, PoolInv
  <2>4. \A u \in Thread : /\ pc'[u] = "close" => phase' = "open"
                          /\ pc'[u] = "join" => phase' = "closing"
    <3>1. ASSUME NEW u \in Thread, pc'[u] = "close" PROVE FALSE
      <4>1. u = t BY <2>3, <3>1 DEF Destroying
      <4>2. QED BY <1>2, <3>1, <4>1
    <3>2. QED BY <1>1, <3>1
  <2>5. ~(poolRefs > 0)
    BY <2>2 DEF IInv, PoolInv
  <2>6. QED BY <1>1, <1>2, <2>1, <2>2, <2>3, <2>4, <2>5 DEF IInv, PoolInv
<1>5. RefsInv' /\ PlacesInv'
  BY <1>1, RefsSame, PlacesSame DEF IInv, historyVars
<1>6. ASSUME NEW d \in Client PROVE CallInv(d)'
  <2>1. pc'[d] = pc[d] \/ (~Inside(d) /\ ~Inside(d)')
    BY <1>1, <1>2 DEF Inside, Thread
  <2>2. QED BY <1>1, <2>1, CallSame DEF IInv, callVars, levelVars, historyVars
<1>7. QED BY <1>3, <1>4, <1>5, <1>6 DEF IInv

LEMMA JoinKeeps ==
  ASSUME IInv, NEW t \in Thread, JoinStep(t)
  PROVE  IInv'
<1>1. /\ pc[t] = "join" /\ phase' = "joined"
      /\ queue = << >> /\ \A w \in Worker : inflight[w] = NoMsg
      /\ pc' = [pc EXCEPT ![t] = "idle"]
      /\ UNCHANGED <<queue, inflight, evicted, callVars, levelVars, poolRefs, held,
                     refs, open, written, durable, historyVars>>
  BY DEF JoinStep, Pool!Join, sinkVars
<1>2. /\ pc \in [Thread -> {"idle", "sink", "post", "close", "join"}]
      /\ pc'[t] = "idle" /\ \A u \in Thread \ {t} : pc'[u] = pc[u]
      /\ \A u \in Thread : /\ pc'[u] = "post" <=> pc[u] = "post"
                           /\ pc'[u] \in {"sink", "post"} => pc[u] \in {"sink", "post"}
  BY <1>1 DEF IInv, Shapes, Types
<1>3. Shapes'
  <2>1. pc' \in [Thread -> {"idle", "sink", "post", "close", "join"}]
    BY <1>1, <1>2
  <2>2. UNCHANGED <<queue, inflight, evicted, callVars, levelVars, poolRefs, held,
                    refs, open, written, durable, historyVars>>
    BY <1>1
  <2>3. Types'
    BY <1>1, <2>1, <2>2 DEF IInv, Shapes, Types, callVars, levelVars, historyVars
  <2>4. pc'[Owner] \in {"idle", "close", "join"}
    BY <1>2 DEF IInv, Shapes, Thread
  <2>5. \A d \in Client : Inside(d)' => Inside(d)
    BY <1>2 DEF Inside, Thread
  <2>6. QED BY <2>2, <2>3, <2>4, <2>5 DEF IInv, Shapes, callVars, historyVars
<1>4. PoolInv'
  <2>1. Posting' = Posting
    BY <1>2 DEF Posting, Thread
  <2>2. Destroying(t)
    BY <1>1 DEF Destroying
  <2>3. \A u \in Thread : ~Destroying(u)'
    BY <1>2, <2>2 DEF IInv, PoolInv, Destroying
  <2>4. ~(poolRefs > 0)
    BY <2>2 DEF IInv, PoolInv
  <2>5. QED BY <1>1, <2>1, <2>3, <2>4 DEF IInv, PoolInv, Destroying
<1>5. RefsInv' /\ PlacesInv'
  BY <1>1, RefsSame, PlacesSame DEF IInv, historyVars
<1>6. ASSUME NEW d \in Client PROVE CallInv(d)'
  <2>1. pc'[d] = pc[d] \/ (~Inside(d) /\ ~Inside(d)')
    BY <1>1, <1>2 DEF Inside, Thread
  <2>2. QED BY <1>1, <2>1, CallSame DEF IInv, callVars, levelVars, historyVars
<1>7. QED BY <1>3, <1>4, <1>5, <1>6 DEF IInv

LEMMA DropPoolKeeps ==
  ASSUME IInv, DropPool
  PROVE  IInv'
<1>1. /\ "pool" \in held /\ pc[Owner] = "idle" /\ held' = held \ {"pool"}
      /\ poolRefs' = poolRefs - 1
      /\ pc' = [pc EXCEPT ![Owner] = IF poolRefs = 1 THEN "close" ELSE "idle"]
      /\ UNCHANGED <<queue, inflight, evicted, phase, callVars, levelVars,
                     refs, open, written, durable, historyVars>>
  BY DEF DropPool, poolVars, sinkVars
<1>2. /\ pc \in [Thread -> {"idle", "sink", "post", "close", "join"}]
      /\ Owner \in Thread /\ Owner \notin Client
      /\ pc'[Owner] = (IF poolRefs = 1 THEN "close" ELSE "idle")
      /\ \A u \in Thread \ {Owner} : pc'[u] = pc[u]
  BY <1>1, LoggingAssumption DEF IInv, Shapes, Types, Thread
<1>3. Shapes'
  <2>1. pc' \in [Thread -> {"idle", "sink", "post", "close", "join"}]
    BY <1>1, <1>2
  <2>2. poolRefs' \in Int /\ held' \in SUBSET ({"pool", "logger"} \cup Sink)
    BY <1>1 DEF IInv, Shapes, Types
  <2>3. UNCHANGED <<queue, inflight, evicted, phase, callVars, levelVars,
                    refs, open, written, durable, historyVars>>
    BY <1>1
  <2>4. Types'
    BY <2>1, <2>2, <2>3 DEF IInv, Shapes, Types, callVars, levelVars, historyVars
  <2>5. pc'[Owner] \in {"idle", "close", "join"}
    BY <1>2
  <2>6. \A d \in Client : Inside(d)' => Inside(d)
    BY <1>2 DEF Inside, Thread
  <2>7. "logger" \in held' <=> "logger" \in held
    BY <1>1
  <2>8. QED BY <2>3, <2>4, <2>5, <2>6, <2>7 DEF IInv, Shapes, callVars, historyVars
<1>4. PoolInv'
  <2>1. Posting' = Posting /\ Cardinality(Posting) \in Nat
    BY <1>2, PostersCounted DEF Posting, Thread
  <2>2. poolRefs = Cardinality(Posting) + 1 /\ poolRefs > 0
    BY <1>1, <2>1 DEF IInv, PoolInv
  <2>3. phase = "open" /\ \A t \in Thread : ~Destroying(t)
    BY <2>2 DEF IInv, PoolInv
  <2>4. poolRefs' = Cardinality(Posting') + (IF "pool" \in held' THEN 1 ELSE 0)
    BY <1>1, <2>1, <2>2
  <2>5. CASE poolRefs = 1
    <3>1. \A t \in Thread : Destroying(t)' <=> t = Owner
      BY <1>2, <2>3, <2>5 DEF Destroying
    <3>2. \A t \in Thread : pc'[t] # "join"
      BY <1>2, <2>3, <2>5 DEF Destroying
    <3>3. QED BY <1>1, <1>2, <2>3, <2>4, <2>5, <3>1, <3>2 DEF PoolInv
  <2>6. CASE poolRefs # 1
    <3>1. \A t \in Thread : ~Destroying(t)'
      BY <1>2, <2>3, <2>6 DEF Destroying
    <3>2. QED BY <1>1, <2>1, <2>2, <2>3, <2>4, <2>6, <3>1 DEF PoolInv, Destroying
  <2>7. QED BY <2>5, <2>6
<1>5. PlacesInv'
  BY <1>1, PlacesSame DEF IInv, historyVars
<1>6. RefsInv'
  <2>1. \A s \in Sink : s \in held' <=> s \in held
    BY <1>1, LoggingAssumption
  <2>2. \A s \in Sink : Counted(s)' = Counted(s)
    BY <1>1, <2>1 DEF Counted, OwnersRef, LoggersRefs, QueuedFor, CarriedFor,
                      CarriersFor
  <2>3. QED BY <1>1, <2>2 DEF IInv, RefsInv
<1>7. ASSUME NEW d \in Client PROVE CallInv(d)'
  BY <1>1, <1>2, CallSame DEF IInv, callVars, levelVars, historyVars, Thread
<1>8. QED BY <1>3, <1>4, <1>5, <1>6, <1>7 DEF IInv

-----------------------------------------------------------------------------
(* References to the sinks                                                 *)

(* SettleSinks closes exactly the sinks whose last reference went, and     *)
(* what was written to them by then is flushed.                            *)
LEMMA SettledRefs ==
  ASSUME IInv, SettleSinks, written' \in [Sink -> Seq(Entry)],
         refs' \in [Sink -> Int],
         \A s \in Sink : refs'[s] = Counted(s)' /\ Counted(s)' \in Nat,
         \A s \in Sink : ~open[s] => refs'[s] = 0 /\ written'[s] = written[s]
  PROVE  /\ RefsInv'
         /\ open' \in [Sink -> BOOLEAN] /\ durable' \in [Sink -> Nat]
<1>1. ASSUME NEW s \in Sink
      PROVE  /\ open'[s] <=> open[s] /\ refs'[s] > 0
             /\ durable'[s] = IF open[s] /\ refs'[s] = 0
                              THEN Len(written'[s]) ELSE durable[s]
  BY DEF SettleSinks
<1>2. ASSUME NEW s \in Sink
      PROVE  /\ open'[s] <=> refs'[s] > 0
             /\ ~open'[s] => durable'[s] = Len(written'[s])
  <2>1. refs'[s] \in Nat
    OBVIOUS
  <2>2. CASE open[s]
    BY <1>1, <2>1, <2>2
  <2>3. CASE ~open[s]
    <3>1. refs'[s] = 0 /\ written'[s] = written[s] /\ durable[s] = Len(written[s])
      BY <2>3 DEF IInv, RefsInv
    <3>2. QED BY <1>1, <2>3, <3>1
  <2>4. QED BY <2>2, <2>3
<1>3. RefsInv'
  BY <1>2 DEF RefsInv
<1>4. open' \in [Sink -> BOOLEAN]
  <2>1. \A s \in Sink : (open[s] /\ refs'[s] > 0) \in BOOLEAN
    OBVIOUS
  <2>2. QED BY <2>1 DEF SettleSinks
<1>5. durable' \in [Sink -> Nat]
  <2>1. \A s \in Sink : Len(written'[s]) \in Nat /\ durable[s] \in Nat
    BY LenProperties DEF IInv, Shapes, Types
  <2>2. QED BY <2>1 DEF SettleSinks
<1>6. QED BY <1>3, <1>4, <1>5

LEMMA DropSinkKeeps ==
  ASSUME IInv, NEW s \in Sink, DropSink(s)
  PROVE  IInv'
<1>1. /\ s \in held /\ held' = held \ {s}
      /\ refs' = [refs EXCEPT ![s] = @ - 1]
      /\ SettleSinks
      /\ UNCHANGED <<queue, inflight, evicted, phase, pc, callVars, levelVars,
                     poolRefs, written, historyVars>>
  BY DEF DropSink, poolVars
<1>2. refs \in [Sink -> Int] /\ refs' \in [Sink -> Int]
  BY <1>1 DEF IInv, Shapes, Types
<1>3. s # "pool" /\ s # "logger"
  BY LoggingAssumption
<1>4. ASSUME NEW r \in Sink
      PROVE  /\ refs'[r] = Counted(r)' /\ Counted(r)' \in Nat
             /\ ~open[r] => refs'[r] = 0
  <2>1. /\ OwnersRef(r)' = OwnersRef(r) - (IF r = s THEN 1 ELSE 0)
        /\ OwnersRef(s) = 1
    BY <1>1 DEF OwnersRef
  <2>2. /\ LoggersRefs(r)' = LoggersRefs(r) /\ QueuedFor(r)' = QueuedFor(r)
        /\ CarriedFor(r)' = CarriedFor(r)
    BY <1>1, <1>3 DEF LoggersRefs, QueuedFor, CarriedFor, CarriersFor
  <2>3. refs'[r] = refs[r] - (IF r = s THEN 1 ELSE 0)
    BY <1>1, <1>2
  <2>4. /\ OwnersRef(r) \in Nat /\ LoggersRefs(r) \in Nat /\ QueuedFor(r) \in Nat
        /\ CarriedFor(r) \in Nat /\ refs[r] = Counted(r)
        /\ open[r] <=> refs[r] > 0
    BY CountsAreNat DEF IInv, Shapes, RefsInv
  <2>5. QED BY <2>1, <2>2, <2>3, <2>4 DEF Counted
<1>5. RefsInv' /\ open' \in [Sink -> BOOLEAN] /\ durable' \in [Sink -> Nat]
  <2>1. written' \in [Sink -> Seq(Entry)] /\ written' = written
    BY <1>1 DEF IInv, Shapes, Types
  <2>2. QED BY <1>1, <1>2, <1>4, <2>1, SettledRefs
<1>6. Shapes'
  <2>1. UNCHANGED <<queue, inflight, evicted, phase, pc, callVars, levelVars,
                    poolRefs, written, historyVars>>
    BY <1>1
  <2>2. held' \in SUBSET ({"pool", "logger"} \cup Sink) /\ ("logger" \in held' <=> "logger" \in held)
    BY <1>1, <1>3 DEF IInv, Shapes, Types
  <2>3. Types'
    BY <1>2, <1>5, <2>1, <2>2 DEF IInv, Shapes, Types, callVars, levelVars, historyVars
  <2>4. QED BY <2>1, <2>2, <2>3 DEF IInv, Shapes, Inside, callVars, historyVars
<1>7. PoolInv'
  <2>1. "pool" \in held' <=> "pool" \in held
    BY <1>1, <1>3
  <2>2. QED BY <1>1, <2>1 DEF IInv, PoolInv, Posting, Destroying
<1>8. PlacesInv' /\ (\A c \in Client : CallInv(c))'
  BY <1>1, PlacesSame, CallsSame DEF IInv, historyVars, levelVars
<1>9. QED BY <1>5, <1>6, <1>7, <1>8 DEF IInv

LEMMA DropLoggerKeeps ==
  ASSUME IInv, DropLogger
  PROVE  IInv'
<1>1. /\ "logger" \in held /\ held' = held \ {"logger"}
      /\ \A c \in Client : pc[c] = "idle"
      /\ refs' = [s \in Sink |-> refs[s] - Occurrences(s)]
      /\ SettleSinks
      /\ UNCHANGED <<queue, inflight, evicted, phase, pc, callVars, levelVars,
                     poolRefs, written, historyVars>>
  BY DEF DropLogger, poolVars
<1>2. refs \in [Sink -> Int] /\ refs' \in [Sink -> Int]
  BY <1>1, SlotsOf DEF IInv, Shapes, Types
<1>3. "logger" \notin Sink
  BY LoggingAssumption
<1>4. ASSUME NEW r \in Sink
      PROVE  /\ refs'[r] = Counted(r)' /\ Counted(r)' \in Nat
             /\ ~open[r] => refs'[r] = 0
  <2>1. LoggersRefs(r)' = 0 /\ LoggersRefs(r) = Occurrences(r)
    BY <1>1 DEF LoggersRefs
  <2>2. /\ OwnersRef(r)' = OwnersRef(r) /\ QueuedFor(r)' = QueuedFor(r)
        /\ CarriedFor(r)' = CarriedFor(r)
    BY <1>1, <1>3 DEF OwnersRef, QueuedFor, CarriedFor, CarriersFor
  <2>3. refs'[r] = refs[r] - Occurrences(r)
    BY <1>1
  <2>4. /\ OwnersRef(r) \in Nat /\ LoggersRefs(r) \in Nat /\ QueuedFor(r) \in Nat
        /\ CarriedFor(r) \in Nat /\ refs[r] = Counted(r)
        /\ open[r] <=> refs[r] > 0
    BY CountsAreNat DEF IInv, Shapes, RefsInv
  <2>5. QED BY <2>1, <2>2, <2>3, <2>4 DEF Counted
<1>5. RefsInv' /\ open' \in [Sink -> BOOLEAN] /\ durable' \in [Sink -> Nat]
  <2>1. written' \in [Sink -> Seq(Entry)] /\ written' = written
    BY <1>1 DEF IInv, Shapes, Types
  <2>2. QED BY <1>1, <1>2, <1>4, <2>1, SettledRefs
<1>6. Shapes'
  <2>1. UNCHANGED <<queue, inflight, evicted, phase, pc, callVars, levelVars,
                    poolRefs, written, historyVars>>
    BY <1>1
  <2>2. held' \in SUBSET ({"pool", "logger"} \cup Sink)
    BY <1>1 DEF IInv, Shapes, Types
  <2>3. Types'
    BY <1>2, <1>5, <2>1, <2>2 DEF IInv, Shapes, Types, callVars, levelVars, historyVars
  <2>4. \A c \in Client : ~Inside(c)'
    BY <1>1 DEF Inside
  <2>5. QED BY <2>1, <2>3, <2>4 DEF IInv, Shapes, callVars, historyVars
<1>7. PoolInv'
  <2>1. "pool" \in held' <=> "pool" \in held
    BY <1>1
  <2>2. QED BY <1>1, <2>1 DEF IInv, PoolInv, Posting, Destroying
<1>8. PlacesInv' /\ (\A c \in Client : CallInv(c))'
  BY <1>1, PlacesSame, CallsSame DEF IInv, historyVars, levelVars
<1>9. QED BY <1>5, <1>6, <1>7, <1>8 DEF IInv

-----------------------------------------------------------------------------
(* Workers                                                                 *)

LEMMA PickUp ==
  ASSUME Types, NEW w \in Worker, NEW m \in Entry, inflight[w] = NoMsg,
         inflight' = [inflight EXCEPT ![w] = m]
  PROVE  /\ \A s \in Sink : CarriedFor(s)' = CarriedFor(s) + Ref(m, s)
         /\ Carried' = Carried \cup {m}
<1>1. m # NoMsg
  BY Lists
<1>2. inflight'[w] = m /\ \A v \in Worker \ {w} : inflight'[v] = inflight[v]
  BY DEF Types
<1>3. ASSUME NEW s \in Sink PROVE CarriedFor(s)' = CarriedFor(s) + Ref(m, s)
  <2>1. w \notin CarriersFor(s) /\ IsFiniteSet(CarriersFor(s)) /\ CarriedFor(s) \in Nat
    BY Carriers DEF CarriersFor
  <2>2. CASE SinkOf(m) = s
    <3>1. CarriersFor(s)' = CarriersFor(s) \cup {w}
      BY <1>1, <1>2, <2>2 DEF CarriersFor
    <3>2. QED BY <2>1, <2>2, <3>1, FS_AddElement DEF CarriedFor, Ref
  <2>3. CASE SinkOf(m) # s
    <3>1. CarriersFor(s)' = CarriersFor(s)
      BY <1>1, <1>2, <2>1, <2>3 DEF CarriersFor
    <3>2. QED BY <2>1, <2>3, <3>1 DEF CarriedFor, Ref
  <2>4. QED BY <2>2, <2>3
<1>4. Carried' = Carried \cup {m}
  <2>1. ASSUME NEW k \in Carried PROVE k \in Carried'
    <3>1. PICK v \in Worker : k = inflight[v] /\ k # NoMsg
      BY DEF Carried
    <3>2. v # w BY <3>1
    <3>3. QED BY <1>2, <3>1, <3>2 DEF Carried
  <2>2. m \in Carried'
    BY <1>1, <1>2 DEF Carried
  <2>3. Carried' \subseteq Carried \cup {m}
    BY <1>2 DEF Carried
  <2>4. QED BY <2>1, <2>2, <2>3
<1>5. QED BY <1>3, <1>4

LEMMA PutDown ==
  ASSUME Types, NEW w \in Worker, inflight[w] # NoMsg,
         inflight' = [inflight EXCEPT ![w] = NoMsg]
  PROVE  /\ \A s \in Sink : CarriedFor(s) = CarriedFor(s)' + Ref(inflight[w], s)
         /\ \A s \in Sink : CarriedFor(s)' \in Nat
         /\ Carried \ {inflight[w]} \subseteq Carried'
         /\ Carried' \subseteq Carried
         /\ OnceEach => inflight[w] \notin Carried'
<1>1. inflight'[w] = NoMsg /\ \A v \in Worker \ {w} : inflight'[v] = inflight[v]
  BY DEF Types
<1>2. ASSUME NEW s \in Sink
      PROVE  /\ CarriedFor(s) = CarriedFor(s)' + Ref(inflight[w], s)
             /\ CarriedFor(s)' \in Nat
  <2>1. IsFiniteSet(CarriersFor(s)) /\ CarriedFor(s) \in Nat
    BY Carriers
  <2>2. CarriersFor(s)' = CarriersFor(s) \ {w}
    BY <1>1 DEF CarriersFor
  <2>3. w \in CarriersFor(s) <=> SinkOf(inflight[w]) = s
    BY DEF CarriersFor
  <2>4. CarriedFor(s)' = IF SinkOf(inflight[w]) = s THEN CarriedFor(s) - 1
                                                    ELSE CarriedFor(s)
    BY <2>1, <2>2, <2>3, FS_RemoveElement DEF CarriedFor
  <2>5. SinkOf(inflight[w]) = s => CarriedFor(s) > 0
    BY <2>3, Carriers
  <2>6. QED BY <2>1, <2>4, <2>5 DEF Ref
<1>3. Carried \ {inflight[w]} \subseteq Carried'
  <2>1. ASSUME NEW k \in Carried, k # inflight[w] PROVE k \in Carried'
    <3>1. PICK v \in Worker : k = inflight[v] /\ k # NoMsg
      BY DEF Carried
    <3>2. v # w BY <2>1, <3>1
    <3>3. QED BY <1>1, <3>1, <3>2 DEF Carried
  <2>2. QED BY <2>1
<1>4. Carried' \subseteq Carried
  <2>1. ASSUME NEW k \in Carried' PROVE k \in Carried
    <3>1. PICK v \in Worker : k = inflight'[v] /\ k # NoMsg
      BY DEF Carried
    <3>2. v # w BY <1>1, <3>1
    <3>3. QED BY <1>1, <3>1, <3>2 DEF Carried
  <2>2. QED BY <2>1
<1>5. ASSUME OnceEach, inflight[w] \in Carried' PROVE FALSE
  <2>1. PICK v \in Worker : inflight[w] = inflight'[v]
    BY <1>5 DEF Carried
  <2>2. v # w BY <1>1, <2>1
  <2>3. QED BY <1>1, <1>5, <2>1, <2>2 DEF OnceEach
<1>6. QED BY <1>2, <1>3, <1>4, <1>5

LEMMA TakeKeeps ==
  ASSUME IInv, NEW w \in Worker, TakeStep(w)
  PROVE  IInv'
<1> DEFINE m == Head(queue)
<1>1. /\ inflight[w] = NoMsg /\ queue # << >>
      /\ inflight' = [inflight EXCEPT ![w] = m]
      /\ queue' = Tail(queue)
      /\ UNCHANGED <<evicted, phase, pc, callVars, levelVars, poolRefs, held, refs,
                     open, written, durable, historyVars>>
  BY DEF TakeStep, Pool!Take, sinkVars
<1>2. queue \in Seq(Entry) /\ Types
  BY DEF IInv, Shapes, Types
<1>3. /\ m \in Entry /\ queue' \in Seq(Entry)
      /\ Among(queue) = {m} \cup Among(queue')
      /\ Once(queue') /\ m \notin Among(queue')
  BY <1>1, <1>2, FromTheFront DEF IInv, PlacesInv, OnceEach
<1>4. /\ \A s \in Sink : CarriedFor(s)' = CarriedFor(s) + Ref(m, s)
      /\ Carried' = Carried \cup {m}
  BY <1>1, <1>2, <1>3, PickUp
<1> HIDE DEF m
<1>5. Shapes'
  <2>1. inflight' \in [Worker -> Entry \cup {NoMsg}]
    BY <1>1, <1>2, <1>3 DEF Types
  <2>2. UNCHANGED <<evicted, phase, pc, callVars, levelVars, poolRefs, held, refs,
                    open, written, durable, historyVars>>
    BY <1>1
  <2>3. Types'
    BY <1>2, <1>3, <2>1, <2>2 DEF Types, callVars, levelVars, historyVars
  <2>4. QED BY <2>2, <2>3 DEF IInv, Shapes, Inside, callVars, historyVars
<1>6. PoolInv'
  <2>1. phase # "joined"
    BY <1>1 DEF IInv, PoolInv
  <2>2. QED BY <1>1, <2>1 DEF IInv, PoolInv, Posting, Destroying
<1>7. RefsInv'
  <2>1. ASSUME NEW s \in Sink PROVE Counted(s)' = Counted(s)
    <3>1. QueuedFor(s) = QueuedFor(s)' + Ref(m, s)
      BY <1>1, <1>2, CountFromTheFront DEF QueuedFor, m
    <3>2. OwnersRef(s)' = OwnersRef(s) /\ LoggersRefs(s)' = LoggersRefs(s)
      BY <1>1 DEF OwnersRef, LoggersRefs
    <3>3. /\ CarriedFor(s) \in Nat /\ QueuedFor(s)' \in Nat /\ Ref(m, s) \in Nat
          /\ OwnersRef(s) \in Nat /\ LoggersRefs(s) \in Nat
      BY <1>2, <1>3, CountsAreNat, CountIsNat DEF QueuedFor, Ref
    <3>4. CarriedFor(s)' = CarriedFor(s) + Ref(m, s)
      BY <1>4
    <3>5. QED BY <3>1, <3>2, <3>3, <3>4 DEF Counted
  <2>2. QED BY <1>1, <2>1 DEF IInv, RefsInv
<1>8. PlacesInv'
  <2>1. OnceEach'
    <3>1. m \notin Carried
      BY <1>3 DEF IInv, PlacesInv, Apart
    <3>2. \A v \in Worker : inflight[v] # m
      BY <1>3, <3>1, Lists DEF Carried
    <3>3. /\ inflight'[w] = m /\ \A v \in Worker \ {w} : inflight'[v] = inflight[v]
      BY <1>1, <1>2 DEF Types
    <3>4. \A u, v \in Worker : inflight'[u] = inflight'[v] /\ inflight'[u] # NoMsg => u = v
      BY <3>2, <3>3 DEF IInv, PlacesInv, OnceEach
    <3>5. QED BY <1>1, <1>3, <3>4 DEF IInv, PlacesInv, OnceEach
  <2>2. Apart'
    <3>1. Among(queue') \cap Carried' = {}
      BY <1>3, <1>4 DEF IInv, PlacesInv, Apart
    <3>2. Among(queue') \cup Carried' = Among(queue) \cup Carried
      BY <1>3, <1>4
    <3>3. QED BY <1>1, <3>1, <3>2 DEF IInv, PlacesInv, Apart
  <2>3. Accounted'
    <3>1. Among(queue') \cup Carried' = Among(queue) \cup Carried
      BY <1>3, <1>4
    <3>2. QED BY <1>1, <3>1 DEF IInv, PlacesInv, Accounted, historyVars
  <2>4. QED BY <2>1, <2>2, <2>3 DEF PlacesInv
<1>9. (\A c \in Client : CallInv(c))'
  BY <1>1, CallsSame DEF IInv, levelVars
<1>10. QED BY <1>5, <1>6, <1>7, <1>8, <1>9 DEF IInv

LEMMA DeliverKeeps ==
  ASSUME IInv, NEW w \in Worker, DeliverStep(w)
  PROVE  IInv'
<1> DEFINE m == inflight[w]
<1>1. /\ m # NoMsg
      /\ inflight' = [inflight EXCEPT ![w] = NoMsg]
      /\ written' = [written EXCEPT ![SinkOf(m)] = Append(@, m)]
      /\ refs' = [s \in Sink |-> refs[s] - Ref(m, s)]
      /\ SettleSinks
      /\ UNCHANGED <<queue, evicted, phase, pc, callVars, levelVars, poolRefs, held,
                     historyVars>>
  BY DEF DeliverStep, Pool!Deliver, Released
<1>2. Types /\ m \in Entry /\ SinkOf(m) \in Sink /\ m \in Carried
  BY <1>1, Lists DEF IInv, Shapes, Types, Carried
<1>3. /\ \A s \in Sink : CarriedFor(s) = CarriedFor(s)' + Ref(m, s)
      /\ \A s \in Sink : CarriedFor(s)' \in Nat
      /\ Carried \ {m} \subseteq Carried' /\ Carried' \subseteq Carried
      /\ m \notin Carried'
  BY <1>1, <1>2, PutDown DEF IInv, PlacesInv
<1>4. /\ written[SinkOf(m)] \in Seq(Entry) /\ Once(written[SinkOf(m)])
      /\ m \notin Among(written[SinkOf(m)])
  BY <1>2 DEF IInv, PlacesInv, OnceEach, Apart, Types
<1>5. /\ written'[SinkOf(m)] \in Seq(Entry) /\ Once(written'[SinkOf(m)])
      /\ Among(written'[SinkOf(m)]) = Among(written[SinkOf(m)]) \cup {m}
      /\ \A s \in Sink \ {SinkOf(m)} : written'[s] = written[s]
      /\ written' \in [Sink -> Seq(Entry)]
  <2>1. written'[SinkOf(m)] = Append(written[SinkOf(m)], m)
    BY <1>1, <1>2 DEF Types
  <2>2. Append(written[SinkOf(m)], m) \in Seq(Entry)
    BY <1>2, <1>4, AtTheEnd
  <2>3. /\ \A s \in Sink \ {SinkOf(m)} : written'[s] = written[s]
        /\ written' \in [Sink -> Seq(Entry)]
    BY <1>1, <1>2, <2>2 DEF Types
  <2>4. QED BY <1>2, <1>4, <2>1, <2>3, AtTheEnd
<1>6. open[SinkOf(m)]
  BY <1>1, <1>2, ReferredSinksAreOpen DEF IInv, SinkOutlivesMessages, Pending, Carried
<1> HIDE DEF m
<1>7. refs' \in [Sink -> Int]
  BY <1>1, <1>2 DEF Types, Ref
<1>8. ASSUME NEW s \in Sink
      PROVE  /\ refs'[s] = Counted(s)' /\ Counted(s)' \in Nat
             /\ ~open[s] => refs'[s] = 0 /\ written'[s] = written[s]
  <2>1. /\ OwnersRef(s)' = OwnersRef(s) /\ LoggersRefs(s)' = LoggersRefs(s)
        /\ QueuedFor(s)' = QueuedFor(s)
    BY <1>1 DEF OwnersRef, LoggersRefs, QueuedFor
  <2>2. /\ OwnersRef(s) \in Nat /\ LoggersRefs(s) \in Nat /\ QueuedFor(s) \in Nat
        /\ CarriedFor(s) \in Nat /\ refs[s] = Counted(s) /\ Ref(m, s) \in Nat
        /\ open[s] <=> refs[s] > 0
    BY <1>2, CountsAreNat DEF IInv, RefsInv, Ref
  <2>3. refs'[s] = refs[s] - Ref(m, s)
    BY <1>1
  <2>4. CarriedFor(s) = CarriedFor(s)' + Ref(m, s) /\ CarriedFor(s)' \in Nat
    BY <1>3
  <2>5. refs'[s] = Counted(s)' /\ Counted(s)' \in Nat
    BY <2>1, <2>2, <2>3, <2>4 DEF Counted
  <2>6. ~open[s] => SinkOf(m) # s
    BY <1>6
  <2>7. ASSUME ~open[s] PROVE refs'[s] = 0 /\ written'[s] = written[s]
    <3>1. Ref(m, s) = 0 /\ s \in Sink \ {SinkOf(m)}
      BY <2>6, <2>7 DEF Ref
    <3>2. refs[s] = 0
      BY <1>2, <2>2, <2>7, CountsAreNat
    <3>3. QED BY <1>5, <2>3, <3>1, <3>2
  <2>8. QED BY <2>5, <2>7
<1>9. RefsInv' /\ open' \in [Sink -> BOOLEAN] /\ durable' \in [Sink -> Nat]
  BY <1>1, <1>5, <1>7, <1>8, SettledRefs
<1>10. Shapes'
  <2>1. inflight' \in [Worker -> Entry \cup {NoMsg}]
    BY <1>1, <1>2 DEF Types
  <2>2. UNCHANGED <<queue, evicted, phase, pc, callVars, levelVars, poolRefs, held,
                    historyVars>>
    BY <1>1
  <2>3. Types'
    BY <1>2, <1>5, <1>7, <1>9, <2>1, <2>2 DEF Types, callVars, levelVars, historyVars
  <2>4. QED BY <2>2, <2>3 DEF IInv, Shapes, Inside, callVars, historyVars
<1>11. PoolInv'
  <2>1. phase # "joined"
    BY <1>1 DEF IInv, PoolInv, m
  <2>2. QED BY <1>1, <2>1 DEF IInv, PoolInv, Posting, Destroying
<1>12. PlacesInv'
  <2>1. OnceEach'
    <3>1. inflight'[w] = NoMsg /\ \A v \in Worker \ {w} : inflight'[v] = inflight[v]
      BY <1>1, <1>2 DEF Types
    <3>2. \A u, v \in Worker : inflight'[u] = inflight'[v] /\ inflight'[u] # NoMsg => u = v
      <4>1. \A u, v \in Worker : inflight[u] = inflight[v] /\ inflight[u] # NoMsg => u = v
        BY DEF IInv, PlacesInv, OnceEach
      <4>2. QED BY <3>1, <4>1
    <3>3. \A s \in Sink : Once(written'[s])
      BY <1>5 DEF IInv, PlacesInv, OnceEach
    <3>4. Once(queue')
      BY <1>1 DEF IInv, PlacesInv, OnceEach
    <3>5. QED BY <3>2, <3>3, <3>4 DEF OnceEach
  <2>2. Apart'
    <3>1. /\ m \notin Among(queue) /\ m \notin evicted
      BY <1>2 DEF IInv, PlacesInv, Apart
    <3>2. ASSUME NEW s \in Sink
          PROVE  Among(written'[s]) \cap (Among(queue') \cup Carried' \cup evicted') = {}
      <4>1. Among(written'[s]) \subseteq Among(written[s]) \cup {m}
        BY <1>5
      <4>2. Among(written[s]) \cap (Among(queue) \cup Carried \cup evicted) = {}
        BY DEF IInv, PlacesInv, Apart
      <4>3. queue' = queue /\ evicted' = evicted
        BY <1>1
      <4>4. QED BY <1>3, <3>1, <4>1, <4>2, <4>3
    <3>3. QED BY <1>1, <1>3, <3>2 DEF IInv, PlacesInv, Apart
  <2>3. Accounted'
    <3>1. queue' = queue /\ evicted' = evicted /\ posted' = posted
      BY <1>1 DEF historyVars
    <3>2. m \in posted
      BY <1>2 DEF IInv, PlacesInv, Accounted
    <3>3. \A s \in Sink : Among(written'[s]) \subseteq posted'
      BY <1>5, <3>1, <3>2 DEF IInv, PlacesInv, Accounted
    <3>4. ASSUME NEW k \in posted
          PROVE  \/ k \in Among(queue') \cup Carried' \cup evicted'
                 \/ k \in Among(written'[SinkOf(k)])
      <4>1. \/ k \in Among(queue) \cup Carried \cup evicted
            \/ k \in Among(written[SinkOf(k)])
        BY DEF IInv, PlacesInv, Accounted
      <4>2. SinkOf(k) \in Sink
        BY <1>2, Lists DEF Types
      <4>3. Among(written[SinkOf(k)]) \subseteq Among(written'[SinkOf(k)])
        BY <1>5, <4>2
      <4>4. CASE k = m
        BY <1>5, <4>4
      <4>5. CASE k # m
        BY <1>3, <3>1, <4>1, <4>3, <4>5
      <4>6. QED BY <4>4, <4>5
    <3>5. QED BY <1>3, <3>1, <3>3, <3>4 DEF IInv, PlacesInv, Accounted
  <2>4. QED BY <2>1, <2>2, <2>3 DEF PlacesInv
<1>13. (\A c \in Client : CallInv(c))'
  BY <1>1, CallsSame DEF IInv, levelVars
<1>14. QED BY <1>9, <1>10, <1>11, <1>12, <1>13 DEF IInv

-----------------------------------------------------------------------------
(* Posting: what stays in the queue, and what has to go                    *)

Rest == IF Len(queue) = Capacity THEN Tail(queue) ELSE queue

Dropped == IF Len(queue) = Capacity THEN {Head(queue)} ELSE {}

DroppedRefs(s) == IF Len(queue) = Capacity THEN Ref(Head(queue), s) ELSE 0

LEMMA MakingRoom ==
  ASSUME IInv
  PROVE  /\ Rest \in Seq(Entry) /\ Once(Rest)
         /\ Among(queue) = Among(Rest) \cup Dropped
         /\ Dropped \cap Among(Rest) = {}
         /\ \A s \in Sink : /\ CountIn(queue, s) = CountIn(Rest, s) + DroppedRefs(s)
                            /\ DroppedRefs(s) \in Nat
<1>1. queue \in Seq(Entry) /\ Once(queue)
  BY DEF IInv, Shapes, Types, PlacesInv, OnceEach
<1>2. \A s \in Sink : DroppedRefs(s) \in Nat
  BY DEF DroppedRefs, Ref
<1>3. CASE Len(queue) = Capacity
  <2>1. queue # << >>
    BY <1>3, LoggingAssumption, EmptySeq
  <2>2. QED BY <1>1, <1>2, <1>3, <2>1, FromTheFront, CountFromTheFront
            DEF Rest, Dropped, DroppedRefs
<1>4. CASE Len(queue) # Capacity
  <2>1. Rest = queue /\ Dropped = {} /\ \A s \in Sink : DroppedRefs(s) = 0
    BY <1>4 DEF Rest, Dropped, DroppedRefs
  <2>2. \A s \in Sink : CountIn(queue, s) \in Nat
    BY <1>1, CountIsNat
  <2>3. QED BY <1>1, <2>1, <2>2
<1>5. QED BY <1>3, <1>4

(* The message of this round, and what a round does.                       *)
LEMMA PostRound ==
  ASSUME IInv, NEW c \in Client, Post(c)
  PROVE  LET m == Msg(c, next[c])
             wanted == call[c] >= sinkLevel[SinkOf(m)]
         IN  /\ m \in Entry /\ SinkOf(m) \in Sink /\ SinkOf(m) = SinkList[next[c]]
             /\ m.from = c /\ m.nr = calls[c] /\ m.at = next[c]
             /\ pc[c] = "post" /\ next[c] \in Slots /\ phase = "open"
             /\ next' = [next EXCEPT ![c] = @ + 1]
             /\ UNCHANGED <<inflight, phase, pc, call, calls, levelVars, poolRefs,
                            held, written, missed, meant>>
             /\ ~wanted => UNCHANGED <<queue, evicted, refs, open, durable, posted>>
             /\ wanted => /\ posted' = posted \cup {m}
                          /\ queue' = Append(Rest, m)
                          /\ evicted' = evicted \cup Dropped
                          /\ refs' = [s \in Sink |-> refs[s] + Ref(m, s) - DroppedRefs(s)]
                          /\ SettleSinks
<1> DEFINE m == Msg(c, next[c])
           wanted == call[c] >= sinkLevel[SinkOf(m)]
<1>1. pc[c] = "post" /\ next[c] \in Slots
  BY DEF Post
<1>2. calls[c] \in 1 .. MaxCalls /\ call[c] \in Level
  BY <1>1, LoggingAssumption DEF IInv, Shapes, Types, Inside
<1>3. /\ m = [from |-> c, nr |-> calls[c], level |-> call[c], at |-> next[c]]
      /\ m \in Entry
  BY <1>1, <1>2 DEF Msg, Entry
<1>4. SinkOf(m) \in Sink /\ SinkOf(m) = SinkList[next[c]]
  BY <1>3, Lists DEF SinkOf
<1>5. phase = "open"
  BY <1>1, PoolIsOpen DEF IInv, Shapes, PoolOutlivesPosts
<1>6. /\ next' = [next EXCEPT ![c] = @ + 1]
      /\ UNCHANGED <<pc, call, calls, levelVars, poolRefs, held, missed, meant>>
  BY DEF Post, Advance
<1>7. ASSUME ~wanted
      PROVE  UNCHANGED <<queue, inflight, evicted, phase, refs, open, written,
                         durable, posted>>
  BY <1>7 DEF Post, SinkShouldLog, poolVars, sinkVars
<1>8. ASSUME wanted
      PROVE  /\ posted' = posted \cup {m} /\ Pool!Accept(m) /\ written' = written
             /\ refs' = [s \in Sink |-> refs[s] + Copied(m, s)
                           - IF Len(queue) = Capacity THEN Released(Head(queue), s) ELSE 0]
             /\ SettleSinks
  BY <1>5, <1>8 DEF Post, SinkShouldLog
<1>9. ASSUME wanted
      PROVE  /\ queue' = Append(Rest, m) /\ evicted' = evicted \cup Dropped
             /\ inflight' = inflight /\ phase' = phase
  BY <1>8, <1>9 DEF Pool!Accept, Rest, Dropped
<1>10. ASSUME wanted
       PROVE  refs' = [s \in Sink |-> refs[s] + Ref(m, s) - DroppedRefs(s)]
  BY <1>8, <1>10 DEF Copied, Released, DroppedRefs
<1> HIDE DEF m
<1>11. m.from = c /\ m.nr = calls[c] /\ m.at = next[c]
  BY <1>3
<1>12. QED
  BY <1>1, <1>3, <1>4, <1>5, <1>6, <1>7, <1>8, <1>9, <1>10, <1>11 DEF m

LEMMA PostCounts ==
  ASSUME IInv, NEW c \in Client, Post(c)
  PROVE  RefsInv' /\ open' \in [Sink -> BOOLEAN] /\ durable' \in [Sink -> Nat]
                  /\ refs' \in [Sink -> Int]
<1> DEFINE m == Msg(c, next[c])
           wanted == call[c] >= sinkLevel[SinkOf(m)]
<1>1. /\ m \in Entry /\ SinkOf(m) = SinkList[next[c]] /\ SinkOf(m) \in Sink
      /\ pc[c] = "post" /\ next[c] \in Slots
      /\ UNCHANGED <<inflight, held, written>>
      /\ ~wanted => UNCHANGED <<queue, refs, open, durable>>
      /\ wanted => /\ queue' = Append(Rest, m)
                   /\ refs' = [s \in Sink |-> refs[s] + Ref(m, s) - DroppedRefs(s)]
                   /\ SettleSinks
  BY PostRound
<1>2. Types
  BY DEF IInv, Shapes
<1> HIDE DEF m, wanted
<1>3. CASE ~wanted
  <2>1. RefsInv'
    BY <1>1, <1>3, RefsSame DEF IInv
  <2>2. QED BY <1>1, <1>2, <1>3, <2>1 DEF Types
<1>4. CASE wanted
  <2>1. "logger" \in held
    BY <1>1 DEF IInv, Shapes, Inside
  <2>2. open[SinkOf(m)]
    BY <1>1, <1>2, <2>1, ReferredSinksAreOpen DEF IInv
  <2>3. refs' \in [Sink -> Int]
    <3>1. \A s \in Sink : DroppedRefs(s) \in Nat /\ Ref(m, s) \in Nat /\ refs[s] \in Int
      BY <1>2, MakingRoom DEF Ref, Types
    <3>2. QED BY <1>1, <1>4, <3>1
  <2>4. ASSUME NEW s \in Sink
        PROVE  /\ refs'[s] = Counted(s)' /\ Counted(s)' \in Nat
               /\ ~open[s] => refs'[s] = 0
    <3>1. /\ OwnersRef(s)' = OwnersRef(s) /\ LoggersRefs(s)' = LoggersRefs(s)
          /\ CarriedFor(s)' = CarriedFor(s)
      BY <1>1 DEF OwnersRef, LoggersRefs, CarriedFor, CarriersFor
    <3>2. /\ OwnersRef(s) \in Nat /\ LoggersRefs(s) \in Nat /\ QueuedFor(s) \in Nat
          /\ CarriedFor(s) \in Nat /\ refs[s] = Counted(s) /\ Ref(m, s) \in Nat
          /\ open[s] <=> refs[s] > 0
      BY <1>2, CountsAreNat DEF IInv, RefsInv, Ref
    <3>3. refs'[s] = refs[s] + Ref(m, s) - DroppedRefs(s)
      BY <1>1, <1>4
    <3>4. /\ QueuedFor(s) = CountIn(Rest, s) + DroppedRefs(s)
          /\ CountIn(Rest, s) \in Nat /\ DroppedRefs(s) \in Nat
      BY MakingRoom, CountIsNat DEF QueuedFor
    <3>5. QueuedFor(s)' = CountIn(Rest, s) + Ref(m, s)
      BY <1>1, <1>4, MakingRoom, CountAtTheEnd DEF QueuedFor
    <3>6. refs'[s] = Counted(s)' /\ Counted(s)' \in Nat
      BY <3>1, <3>2, <3>3, <3>4, <3>5 DEF Counted
    <3>7. ASSUME ~open[s] PROVE refs'[s] = 0
      <4>1. Ref(m, s) = 0
        BY <2>2, <3>7 DEF Ref
      <4>2. Counted(s) = 0
        BY <1>2, <3>2, <3>7, CountsAreNat
      <4>3. QueuedFor(s) = 0 /\ DroppedRefs(s) = 0
        BY <3>2, <3>4, <4>2 DEF Counted
      <4>4. QED BY <3>2, <3>3, <4>1, <4>2, <4>3
    <3>8. QED BY <3>6, <3>7
  <2>5. written' = written /\ written' \in [Sink -> Seq(Entry)]
    BY <1>1, <1>2 DEF Types
  <2>6. QED BY <1>1, <1>4, <2>3, <2>4, <2>5, SettledRefs
<1>5. QED BY <1>3, <1>4

(* The message of a round was never posted before.                         *)
LEMMA PostPlaces ==
  ASSUME IInv, NEW c \in Client, Post(c)
  PROVE  /\ PlacesInv' /\ queue' \in Seq(Entry)
         /\ evicted' \in SUBSET Entry /\ posted' \in SUBSET Entry
<1> DEFINE m == Msg(c, next[c])
           wanted == call[c] >= sinkLevel[SinkOf(m)]
<1>1. /\ m \in Entry /\ m.from = c /\ m.nr = calls[c] /\ m.at = next[c]
      /\ pc[c] = "post" /\ next[c] \in Slots
      /\ UNCHANGED <<inflight, written>>
      /\ ~wanted => UNCHANGED <<queue, evicted, posted>>
      /\ wanted => /\ posted' = posted \cup {m}
                   /\ queue' = Append(Rest, m)
                   /\ evicted' = evicted \cup Dropped
  BY PostRound
<1>2. Types
  BY DEF IInv, Shapes
<1> HIDE DEF m, wanted
<1>3. CASE ~wanted
  BY <1>1, <1>2, <1>3, PlacesSame DEF IInv, Types
<1>4. CASE wanted
  <2>1. m \notin posted
    <3>1. SUFFICES ASSUME m \in posted PROVE FALSE
      OBVIOUS
    <3>2. next[c] \in Reached(c)
      BY <1>1, <3>1 DEF Reached
    <3>3. next[c] < next[c]
      BY <1>1, <3>2 DEF IInv, CallInv
    <3>4. next[c] \in Int
      BY <1>1, Lists
    <3>5. QED BY <3>3, <3>4
  <2>2. /\ Rest \in Seq(Entry) /\ Once(Rest)
        /\ Among(queue) = Among(Rest) \cup Dropped
        /\ Dropped \cap Among(Rest) = {}
    BY MakingRoom
  <2>3. /\ m \notin Among(queue) /\ m \notin Carried /\ m \notin evicted
        /\ \A s \in Sink : m \notin Among(written[s])
    BY <2>1 DEF IInv, PlacesInv, Accounted
  <2>4. /\ queue' \in Seq(Entry) /\ Once(queue')
        /\ Among(queue') = Among(Rest) \cup {m}
    BY <1>1, <1>4, <2>2, <2>3, AtTheEnd
  <2>5. Carried' = Carried /\ written' = written
    BY <1>1 DEF Carried
  <2>6. OnceEach'
    BY <1>1, <2>4 DEF IInv, PlacesInv, OnceEach
  <2>7. Apart'
    <3>1. /\ Among(queue) \cap Carried = {}
          /\ evicted \cap (Among(queue) \cup Carried) = {}
      BY DEF IInv, PlacesInv, Apart
    <3>2. /\ Among(queue') \cap Carried' = {}
          /\ evicted' \cap (Among(queue') \cup Carried') = {}
      BY <1>1, <1>4, <2>2, <2>3, <2>4, <2>5, <3>1
    <3>3. ASSUME NEW s \in Sink
          PROVE  Among(written'[s]) \cap (Among(queue') \cup Carried' \cup evicted') = {}
      <4>1. Among(written[s]) \cap (Among(queue) \cup Carried \cup evicted) = {}
        BY DEF IInv, PlacesInv, Apart
      <4>2. Among(queue') \cup Carried' \cup evicted'
              = Among(queue) \cup Carried \cup evicted \cup {m}
        BY <1>1, <1>4, <2>2, <2>4, <2>5
      <4>3. QED BY <2>3, <2>5, <4>1, <4>2
    <3>4. QED BY <3>2, <3>3 DEF Apart
  <2>8. Accounted'
    <3>1. Among(queue') \cup Carried' \cup evicted'
            = Among(queue) \cup Carried \cup evicted \cup {m}
      BY <1>1, <1>4, <2>2, <2>4, <2>5
    <3>2. posted' = posted \cup {m}
      BY <1>1, <1>4
    <3>3. QED BY <2>5, <3>1, <3>2 DEF IInv, PlacesInv, Accounted
  <2>9. evicted' \in SUBSET Entry /\ posted' \in SUBSET Entry
    <3>1. Among(queue) \subseteq Entry
      BY <1>2, LenProperties DEF Types, Among
    <3>2. evicted \subseteq Entry /\ posted \subseteq Entry
      BY <1>2 DEF Types
    <3>3. QED BY <1>1, <1>4, <2>2, <3>1, <3>2
  <2>10. QED BY <2>4, <2>6, <2>7, <2>8, <2>9 DEF PlacesInv
<1>5. QED BY <1>3, <1>4

LEMMA PostCalls ==
  ASSUME IInv, NEW c \in Client, Post(c), NEW d \in Client
  PROVE  CallInv(d)'
<1> DEFINE m == Msg(c, next[c])
           wanted == call[c] >= sinkLevel[SinkOf(m)]
<1>1. /\ m.from = c /\ m.nr = calls[c] /\ m.at = next[c]
      /\ SinkOf(m) = SinkList[next[c]] /\ pc[c] = "post" /\ next[c] \in Slots
      /\ next' = [next EXCEPT ![c] = @ + 1]
      /\ UNCHANGED <<pc, call, calls, levelVars, missed, meant>>
      /\ ~wanted => posted' = posted
      /\ wanted => posted' = posted \cup {m}
  BY PostRound
<1>2. next \in [Client -> 1 .. Len(SinkList) + 1] /\ next[c] \in Int
  BY <1>1, Lists DEF IInv, Shapes, Types
<1> HIDE DEF m
<1>3. CASE d # c
  <2>1. next'[d] = next[d]
    BY <1>1, <1>2, <1>3
  <2>2. \A k : k.from = d => (k \in posted' <=> k \in posted)
    BY <1>1, <1>3
  <2>3. QED BY <1>1, <2>1, <2>2, CallSame DEF IInv, levelVars
<1>4. CASE d = c
  <2>1. next'[c] = next[c] + 1
    BY <1>1, <1>2
  <2>2. Inside(c) /\ Inside(c)' /\ pc'[c] = "post"
    BY <1>1 DEF Inside
  <2>3. Reached(c)' = Reached(c) \cup (IF wanted THEN {next[c]} ELSE {})
    <3>1. CASE wanted
      <4>1. {k \in posted' : k.from = c /\ k.nr = calls'[c]}
              = {k \in posted : k.from = c /\ k.nr = calls[c]} \cup {m}
        BY <1>1, <3>1
      <4>2. QED BY <1>1, <3>1, <4>1 DEF Reached
    <3>2. CASE ~wanted
      BY <1>1, <3>2 DEF Reached
    <3>3. QED BY <3>1, <3>2
  <2>4. /\ next[c] \in meant[c].always => wanted
        /\ wanted => next[c] \in meant[c].ever
    BY <1>1, <2>2 DEF IInv, CallInv
  <2>5. ASSUME NEW i \in meant'[c].always, i < next'[c] PROVE i \in Reached(c)'
    <3>1. i \in Slots /\ i \in Int
      BY <1>1, Lists DEF IInv, Shapes, Meaning
    <3>2. CASE i = next[c]
      BY <1>1, <2>3, <2>4, <3>2
    <3>3. CASE i # next[c]
      <4>1. i < next[c]
        BY <1>2, <2>1, <2>5, <3>1, <3>3
      <4>2. i \in Reached(c)
        BY <1>1, <4>1 DEF IInv, CallInv
      <4>3. QED BY <2>3, <4>2
    <3>4. QED BY <3>2, <3>3
  <2>6. ASSUME NEW i \in Reached(c)' PROVE i < next'[c] /\ i \in meant'[c].ever
    <3>1. CASE i \in Reached(c)
      <4>1. i < next[c] /\ i \in meant[c].ever
        BY <1>1, <3>1 DEF IInv, CallInv
      <4>2. i \in Int
        BY <3>1, Lists DEF Reached, IInv, Shapes, Types
      <4>3. QED BY <1>1, <1>2, <2>1, <4>1, <4>2
    <3>2. CASE i \notin Reached(c)
      <4>1. i = next[c] /\ wanted
        BY <2>3, <3>2
      <4>2. QED BY <1>1, <1>2, <2>1, <2>4, <4>1
    <3>3. QED BY <3>1, <3>2
  <2>7. \A k \in posted' : k.from = c => k.nr <= calls'[c]
    <3>1. \A k \in posted : k.from = c => k.nr <= calls[c]
      BY DEF IInv, CallInv
    <3>2. calls[c] \in Int
      BY DEF IInv, Shapes, Types
    <3>3. QED BY <1>1, <3>1, <3>2
  <2>8. /\ \A n \in 1 .. MaxCalls : <<c, n>> \in missed' => n <= calls'[c]
        /\ <<c, calls'[c]>> \notin missed'
        /\ \A i \in Slots :
             /\ i \in meant'[c].always => call'[c] >= sinkLevel'[SinkList[i]]
             /\ call'[c] >= sinkLevel'[SinkList[i]] => i \in meant'[c].ever
    BY <1>1, <2>2 DEF IInv, CallInv, levelVars
  <2>9. CallInv(c)'
    BY <2>2, <2>5, <2>6, <2>7, <2>8 DEF CallInv
  <2>10. QED BY <1>4, <2>9
<1>5. QED BY <1>3, <1>4

LEMMA PostKeeps ==
  ASSUME IInv, NEW c \in Client, Post(c)
  PROVE  IInv'
<1>1. /\ pc[c] = "post" /\ next[c] \in Slots /\ phase = "open"
      /\ next' = [next EXCEPT ![c] = @ + 1]
      /\ UNCHANGED <<inflight, phase, pc, call, calls, levelVars, poolRefs, held,
                     written, missed, meant>>
  BY PostRound
<1>2. RefsInv' /\ PlacesInv'
  BY PostCounts, PostPlaces
<1>3. PoolInv'
  BY <1>1 DEF IInv, PoolInv, Posting, Destroying
<1>4. (\A d \in Client : CallInv(d))'
  <2>1. ASSUME NEW d \in Client PROVE CallInv(d)'
    BY PostCalls
  <2>2. QED BY <2>1
<1>5. Shapes'
  <2>1. next' \in [Client -> 1 .. Len(SinkList) + 1]
    <3>1. next[c] + 1 \in 1 .. Len(SinkList) + 1
      BY <1>1, Lists
    <3>2. QED BY <1>1, <3>1 DEF IInv, Shapes, Types
  <2>2. Types'
    BY <1>1, <2>1, PostCounts, PostPlaces DEF IInv, Shapes, Types, levelVars
  <2>3. QED BY <1>1, <2>2 DEF IInv, Shapes, Inside
<1>6. QED BY <1>2, <1>3, <1>4, <1>5 DEF IInv

-----------------------------------------------------------------------------
(* The induction                                                           *)

LEMMA StutterKeeps ==
  ASSUME IInv, UNCHANGED vars
  PROVE  IInv'
<1>1. UNCHANGED <<queue, inflight, evicted, phase, pc, callVars, levelVars, poolRefs,
                  held, refs, open, written, durable, historyVars>>
  BY DEF vars, poolVars, sinkVars
<1>2. Types'
  BY <1>1 DEF IInv, Shapes, Types, callVars, levelVars, historyVars
<1>3. Shapes'
  BY <1>1, <1>2 DEF IInv, Shapes, Inside, callVars, historyVars
<1>4. PoolInv' /\ RefsInv' /\ PlacesInv'
  BY <1>1, PoolSame, RefsSame, PlacesSame DEF IInv, historyVars
<1>5. (\A c \in Client : CallInv(c))'
  BY <1>1, CallsSame DEF IInv, levelVars
<1>6. QED BY <1>3, <1>4, <1>5 DEF IInv

LEMMA StepIInv == IInv /\ [Next]_vars => IInv'
<1> SUFFICES ASSUME IInv, [Next]_vars PROVE IInv'
  OBVIOUS
<1>1. ASSUME NEW c \in Client, ClientStep(c) PROVE IInv'
  BY <1>1, LockPoolKeeps, PostKeeps, UnlockKeeps DEF ClientStep
<1>2. ASSUME NEW c \in Client, NEW l \in Level, Call(c, l) PROVE IInv'
  BY <1>2, CallKeeps
<1>3. ASSUME NEW t \in Thread, DestroyStep(t) PROVE IInv'
  BY <1>3, CloseKeeps, JoinKeeps DEF DestroyStep
<1>4. ASSUME NEW w \in Worker, WorkerStep(w) PROVE IInv'
  BY <1>4, TakeKeeps, DeliverKeeps DEF WorkerStep
<1>5. ASSUME OwnerStep PROVE IInv'
  BY <1>5, DropPoolKeeps, DropLoggerKeeps, DropSinkKeeps, FlushKeeps DEF OwnerStep
<1>6. ASSUME NEW l \in SetLevelTo, SetLevel(l) PROVE IInv'
  BY <1>6, SetLevelKeeps
<1>7. ASSUME NEW l \in SetLevelTo, NEW s \in Sink, SetSinkLevel(s, l) PROVE IInv'
  BY <1>7, SetSinkLevelKeeps
<1>8. CASE Over
  BY <1>8, StutterKeeps DEF Over
<1>9. CASE UNCHANGED vars
  BY <1>9, StutterKeeps
<1>10. QED
  BY <1>1, <1>2, <1>3, <1>4, <1>5, <1>6, <1>7, <1>8, <1>9 DEF Next

LEMMA InductiveInvariant == Spec => []IInv
BY InitIInv, StepIInv, PTL DEF Spec

-----------------------------------------------------------------------------
(* What follows from the invariant                                         *)

LEMMA WellTyped == IInv => TypeOK
<1> SUFFICES ASSUME IInv PROVE TypeOK
  OBVIOUS
<1>1. Types
  BY DEF IInv, Shapes
<1>2. poolRefs \in Nat
  BY PostersCounted DEF IInv, PoolInv
<1>3. refs \in [Sink -> Nat]
  BY <1>1, ReferredSinksAreOpen DEF IInv, Types
<1>4. QED BY <1>1, <1>2, <1>3 DEF Types, TypeOK

(* No post is refused: what was posted is what the pool accepted.          *)
LEMMA PostsAreAccepted == IInv => Accepted = posted
<1> SUFFICES ASSUME IInv PROVE Accepted = posted
  OBVIOUS
<1>1. \A m \in posted : SinkOf(m) \in Sink
  BY LoggingAssumption DEF IInv, Shapes, Types, Entry, Slots, SinkOf
<1>2. Pending = Among(queue) \cup Carried
  BY DEF Pending, Carried
<1>3. QED BY <1>1, <1>2 DEF IInv, PlacesInv, Accounted, Accepted

LEMMA OutcomeOfCalls == IInv => AllSinksOrNone
<1> SUFFICES ASSUME IInv, NEW c \in Client, ~Inside(c), calls[c] > 0
             PROVE  Settled(c)
  BY PostsAreAccepted DEF AllSinksOrNone, Inside, Settled, Reached
<1>1. QED BY DEF IInv, CallInv

LEMMA WritesAreOnce == IInv => WrittenOnce
<1> SUFFICES ASSUME IInv, NEW s \in Sink
             PROVE  /\ Cardinality(Among(written[s])) = Len(written[s])
                    /\ Among(written[s]) \cap evicted = {}
  BY DEF WrittenOnce
<1> DEFINE f == written[s]
<1>1. f \in Seq(Entry) /\ Once(f)
  BY DEF IInv, Shapes, Types, PlacesInv, OnceEach
<1>2. Len(f) \in Nat /\ DOMAIN f = 1 .. Len(f)
  BY <1>1, LenProperties
<1>3. Among(written[s]) \cap evicted = {}
  BY DEF IInv, PlacesInv, Apart
<1> HIDE DEF f
<1>4. f \in Bijection(1 .. Len(f), Among(f))
  <2>1. f \in [1 .. Len(f) -> Among(f)]
    <3>1. f = [i \in 1 .. Len(f) |-> f[i]]
      BY <1>1, <1>2, LenProperties
    <3>2. \A i \in 1 .. Len(f) : f[i] \in Among(f)
      BY <1>2 DEF Among
    <3>3. QED BY <3>1, <3>2
  <2>2. \A i, j \in 1 .. Len(f) : f[i] = f[j] => i = j
    BY <1>1, <1>2 DEF Once
  <2>3. \A m \in Among(f) : \E i \in 1 .. Len(f) : f[i] = m
    BY <1>2 DEF Among
  <2>4. QED BY <2>1, <2>2, <2>3, Fun_IsBij
<1>5. ExistsBijection(1 .. Len(f), Among(f))
  BY <1>4 DEF ExistsBijection
<1>6. IsFiniteSet(1 .. Len(f)) /\ Cardinality(1 .. Len(f)) = Len(f)
  <2>1. /\ IsFiniteSet(1 .. Len(f))
        /\ Cardinality(1 .. Len(f)) = IF 1 > Len(f) THEN 0 ELSE Len(f) - 1 + 1
    BY <1>2, 1 \in Int, Len(f) \in Int, FS_Interval
  <2>2. QED BY <1>2, <2>1
<1>7. Cardinality(Among(f)) = Len(f)
  BY <1>5, <1>6, FS_Bijection
<1>8. QED BY <1>3, <1>7 DEF f

LEMMA NothingIsLost == IInv => EverythingSettled
<1> SUFFICES ASSUME IInv, AllDropped
             PROVE  /\ phase = "joined" /\ Pending = {}
                    /\ \A s \in Sink : ~open[s] /\ durable[s] = Len(written[s])
                    /\ \A m \in posted : m \in evicted \/ m \in Among(written[SinkOf(m)])
  BY DEF EverythingSettled
<1>1. held = {} /\ \A t \in Thread : ~Destroying(t) /\ pc[t] # "post"
  BY DEF AllDropped, Destroying
<1>2. Posting = {} /\ Cardinality(Posting) = 0
  BY <1>1, FS_EmptySet DEF Posting, Thread
<1>3. poolRefs = 0
  BY <1>1, <1>2 DEF IInv, PoolInv
<1>4. phase = "joined"
  BY <1>1, <1>3 DEF IInv, PoolInv
<1>5. queue = << >> /\ \A w \in Worker : inflight[w] = NoMsg
  BY <1>4 DEF IInv, PoolInv
<1>6. Among(queue) = {} /\ Carried = {}
  BY <1>5 DEF Among, Carried
<1>7. ASSUME NEW s \in Sink PROVE ~open[s] /\ durable[s] = Len(written[s])
  <2>1. QueuedFor(s) = 0
    BY <1>5, CountNothing DEF QueuedFor
  <2>2. CarriersFor(s) = {}
    BY <1>5 DEF CarriersFor
  <2>3. CarriedFor(s) = 0
    BY <2>2, FS_EmptySet DEF CarriedFor
  <2>4. OwnersRef(s) = 0 /\ LoggersRefs(s) = 0
    BY <1>1 DEF OwnersRef, LoggersRefs
  <2>5. refs[s] = 0
    BY <2>1, <2>3, <2>4 DEF IInv, RefsInv, Counted
  <2>6. QED BY <2>5 DEF IInv, RefsInv
<1>8. \A m \in posted : m \in evicted \/ m \in Among(written[SinkOf(m)])
  BY <1>6 DEF IInv, PlacesInv, Accounted
<1>9. Pending = {}
  BY <1>6 DEF Pending, Carried
<1>10. QED BY <1>4, <1>7, <1>8, <1>9

LEMMA PostsFindThePool == IInv => PoolOutlivesPosts
BY PoolIsOpen DEF IInv, Shapes

LEMMA MessagesFindTheirSink == IInv => SinkOutlivesMessages
BY ReferredSinksAreOpen DEF IInv, Shapes

-----------------------------------------------------------------------------
(* The state is well-formed; in particular no count of references, to the  *)
(* pool or to a sink, is ever decremented below zero.                      *)
THEOREM AsyncTypes == Spec => []TypeOK
BY InductiveInvariant, WellTyped, PTL

(* A worker never logs to a destroyed sink or a closed file, in whatever   *)
(* order the owner lets go of logger, sinks and pool: the sinkPtr in a     *)
(* message is one of the references that are counted.                      *)
THEOREM AsyncSinkOutlivesMessages == Spec => []SinkOutlivesMessages
BY InductiveInvariant, MessagesFindTheirSink, PTL

(* A thread that has locked the weak_ptr posts to a pool that accepts.     *)
THEOREM AsyncPoolOutlivesPosts == Spec => []PoolOutlivesPosts
BY InductiveInvariant, PostsFindThePool, PTL

(* Of a finished call, the pool has accepted a message for every sink that *)
(* wanted it all the time and for none that never did, or, the pool being  *)
(* gone, for none.                                                         *)
THEOREM AsyncAllSinksOrNone == Spec => []AllSinksOrNone
BY InductiveInvariant, OutcomeOfCalls, PTL

(* When every handle is gone, the pool is joined, every sink is closed and *)
(* flushed, and every posted message was written or evicted.               *)
THEOREM AsyncEverythingSettled == Spec => []EverythingSettled
BY InductiveInvariant, NothingIsLost, PTL

(* A message is written at most once and never after it was evicted.       *)
THEOREM AsyncWrittenOnce == Spec => []WrittenOnce
BY InductiveInvariant, WritesAreOnce, PTL
=============================================================================
