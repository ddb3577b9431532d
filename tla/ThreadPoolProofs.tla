-------------------------- MODULE ThreadPoolProofs --------------------------
(***************************************************************************)
(* ThreadPool for every number of cells, workers and producers: the parts  *)
(* of IInv hold in every state, and every step of the pool is a step of    *)
(* AsyncDelivery or leaves its variables alone.  HInv adds where each      *)
(* accepted message is, and the properties of the histories follow.        *)
(***************************************************************************)
EXTENDS ThreadPool, DataBufTheorems, FunctionTheorems, FiniteSetTheorems

(* What IInv says of the buffer, in the form the buffer lemmas use.        *)
LEMMA InvBuf ==
  ASSUME TypeOK, LiveCells PROVE BufOK(Message)
BY MarkerAssumption DEF TypeOK, BufTypeOK, LiveCells, BufOK, Ring

(* A step outside the buffer leaves everything said of it alone.           *)
LEMMA BufUnchanged ==
  ASSUME UNCHANGED bufVars
  PROVE  /\ Contents' = Contents
         /\ Empty' = Empty
         /\ Front' = Front
         /\ BufTypeOK(Message)' = BufTypeOK(Message)
         /\ LiveCells' = LiveCells
BY DEF bufVars, Contents, Empty, Front, BufTypeOK, LiveCells

(* A call builds a message and touches nothing shared.                     *)
LEMMA PostCallStep ==
  ASSUME IInv, NEW p \in Producers, NEW s \in Sinks, PostCall(p, s)
  PROVE  IInv'
<1> USE DEF IInv, PostCall, producerVars, workerVars, historyVars
<1>0. /\ Contents' = Contents /\ Empty' = Empty /\ Front' = Front
      /\ BufTypeOK(Message)' /\ LiveCells'
  BY BufUnchanged DEF TypeOK
<1>1. TypeOK'
  <2>1. sent[p] \in 0 .. MaxPosts - 1
    BY PoolAssumption DEF TypeOK
  <2>2. [from |-> p, nr |-> sent[p], sink |-> s] \in Message
    BY <2>1 DEF Message
  <2>3. QED BY <1>0, <2>1, <2>2, PoolAssumption DEF TypeOK
<1>2. MutexOK'
  BY PoolAssumption DEF MutexOK, CanLock, TypeOK
<1>3. WorkersOK'
  BY <1>0 DEF WorkersOK, WaitIsOver, Finished, TypeOK
<1>4. ProducersOK'
  <2>1. sent[p] \in 0 .. MaxPosts - 1
    BY PoolAssumption DEF TypeOK
  <2>2. [from |-> p, nr |-> sent[p], sink |-> s] \in Message
    BY <2>1 DEF Message
  <2>3. QED BY <2>2 DEF ProducersOK, TypeOK
<1>5. DtorOK'
  BY DEF DtorOK, Waiting, TypeOK
<1>6. QED BY <1>0, <1>1, <1>2, <1>3, <1>4, <1>5

(* A producer enters the critical section when nobody is inside.           *)
LEMMA PostLockStep ==
  ASSUME IInv, NEW p \in Producers, PostLock(p)
  PROVE  IInv'
<1> USE DEF IInv, PostLock, producerVars, workerVars, historyVars
<1>0. /\ Contents' = Contents /\ Empty' = Empty /\ Front' = Front
      /\ BufTypeOK(Message)' /\ LiveCells'
  BY BufUnchanged DEF TypeOK
<1>1. TypeOK'
  BY <1>0 DEF TypeOK
<1>2. MutexOK'
  BY PoolAssumption DEF MutexOK, CanLock, TypeOK
<1>3. WorkersOK'
  BY <1>0 DEF WorkersOK, WaitIsOver, Finished, TypeOK
<1>4. ProducersOK'
  BY DEF ProducersOK, TypeOK
<1>5. DtorOK'
  BY DEF DtorOK, Waiting, TypeOK
<1>6. QED BY <1>0, <1>1, <1>2, <1>3, <1>4, <1>5

(* A stopped pool lets the producer go.                                    *)
LEMMA PostRejectStep ==
  ASSUME IInv, NEW p \in Producers, PostReject(p)
  PROVE  IInv'
<1> USE DEF IInv, PostReject, producerVars, workerVars, historyVars
<1>0. /\ Contents' = Contents /\ Empty' = Empty /\ Front' = Front
      /\ BufTypeOK(Message)' /\ LiveCells'
  BY BufUnchanged DEF TypeOK
<1>1. TypeOK'
  BY <1>0 DEF TypeOK
<1>2. MutexOK'
  BY PoolAssumption DEF MutexOK, CanLock, TypeOK
<1>3. WorkersOK'
  BY <1>0 DEF WorkersOK, WaitIsOver, Finished, TypeOK
<1>4. ProducersOK'
  BY DEF ProducersOK, TypeOK
<1>5. DtorOK'
  BY DEF DtorOK, Waiting, TypeOK
<1>6. QED BY <1>0, <1>1, <1>2, <1>3, <1>4, <1>5

(* No worker is inside the critical section, and none has left the pool,   *)
(* when a producer pushes.                                                 *)
LEMMA PostPushStep ==
  ASSUME IInv, NEW p \in Producers, PostPush(p)
  PROVE  IInv'
<1> USE DEF IInv, PostPush, producerVars, workerVars, historyVars
<1>0. /\ BufTypeOK(Message)' /\ LiveCells'
      /\ asmsg[p] \in Message
  <2>1. asmsg[p] \in Message
    BY DEF ProducersOK
  <2>2. BufOK(Message)'
    BY <2>1, InvBuf, PushEffect
  <2>3. QED BY <2>1, <2>2 DEF BufOK, Ring, BufTypeOK, LiveCells
<1>1. TypeOK'
  <2>1. Full => Front \in Message
    BY InvBuf, FrontValue
  <2>2. QED BY <1>0, <2>1 DEF TypeOK
<1>2. MutexOK'
  BY PoolAssumption DEF MutexOK, CanLock, TypeOK
<1>3. WorkersOK'
  BY PoolAssumption DEF WorkersOK, MutexOK, TypeOK, Finished
<1>4. ProducersOK'
  BY DEF ProducersOK, TypeOK
<1>5. DtorOK'
  BY DEF DtorOK, Waiting, TypeOK
<1>6. QED BY <1>0, <1>1, <1>2, <1>3, <1>4, <1>5

(* A notification moves one worker, if any, out of the wait set.           *)
LEMMA PostNotifyStep ==
  ASSUME IInv, NEW p \in Producers, PostNotify(p)
  PROVE  IInv'
<1> USE DEF IInv, PostNotify, producerVars, workerVars, historyVars
<1>0. /\ Contents' = Contents /\ Empty' = Empty /\ Front' = Front
      /\ BufTypeOK(Message)' /\ LiveCells'
  BY BufUnchanged DEF TypeOK
<1>1. TypeOK'
  BY <1>0 DEF TypeOK, NotifyOne, Waiting
<1>2. MutexOK'
  BY PoolAssumption DEF MutexOK, TypeOK, NotifyOne, Waiting
<1>3. WorkersOK'
  BY <1>0 DEF WorkersOK, WaitIsOver, Finished, TypeOK, NotifyOne, Waiting
<1>4. ProducersOK'
  BY DEF ProducersOK, TypeOK
<1>5. DtorOK'
  BY DEF DtorOK, Waiting, TypeOK, NotifyOne
<1>6. QED BY <1>0, <1>1, <1>2, <1>3, <1>4, <1>5

(* A worker enters the critical section when nobody is inside.             *)
LEMMA WorkerLockStep ==
  ASSUME IInv, NEW w \in Workers, WorkerLock(w)
  PROVE  IInv'
<1> USE DEF IInv, WorkerLock, producerVars, workerVars, historyVars
<1>0. /\ Contents' = Contents /\ Empty' = Empty /\ Front' = Front
      /\ BufTypeOK(Message)' /\ LiveCells'
  BY BufUnchanged DEF TypeOK
<1>1. TypeOK'
  BY <1>0 DEF TypeOK
<1>2. MutexOK'
  BY PoolAssumption DEF MutexOK, CanLock, TypeOK
<1>3. WorkersOK'
  BY <1>0 DEF WorkersOK, WaitIsOver, Finished, TypeOK
<1>4. ProducersOK'
  BY DEF ProducersOK, TypeOK
<1>5. DtorOK'
  BY DEF DtorOK, Waiting, TypeOK
<1>6. QED BY <1>0, <1>1, <1>2, <1>3, <1>4, <1>5

(* The predicate is evaluated under the mutex.                             *)
LEMMA WorkerCheckStep ==
  ASSUME IInv, NEW w \in Workers, WorkerCheck(w)
  PROVE  IInv'
<1> USE DEF IInv, WorkerCheck, producerVars, workerVars, historyVars
<1>0. /\ Contents' = Contents /\ Empty' = Empty /\ Front' = Front
      /\ BufTypeOK(Message)' /\ LiveCells'
  BY BufUnchanged DEF TypeOK
<1>1. TypeOK'
  BY <1>0 DEF TypeOK
<1>2. MutexOK'
  BY PoolAssumption DEF MutexOK, CanLock, TypeOK
<1>3. WorkersOK'
  BY <1>0 DEF WorkersOK, WaitIsOver, Finished, TypeOK
<1>4. ProducersOK'
  BY DEF ProducersOK, TypeOK
<1>5. DtorOK'
  BY DEF DtorOK, Waiting, TypeOK
<1>6. QED BY <1>0, <1>1, <1>2, <1>3, <1>4, <1>5

(* A worker goes to sleep only while the stop flag is down.                *)
LEMMA WorkerBlockStep ==
  ASSUME IInv, NEW w \in Workers, WorkerBlock(w)
  PROVE  IInv'
<1> USE DEF IInv, WorkerBlock, producerVars, workerVars, historyVars
<1>0. /\ Contents' = Contents /\ Empty' = Empty /\ Front' = Front
      /\ BufTypeOK(Message)' /\ LiveCells'
  BY BufUnchanged DEF TypeOK
<1>1. TypeOK'
  BY <1>0 DEF TypeOK
<1>2. MutexOK'
  BY PoolAssumption DEF MutexOK, CanLock, TypeOK
<1>3. WorkersOK'
  BY <1>0 DEF WorkersOK, WaitIsOver, Finished, TypeOK
<1>4. ProducersOK'
  BY DEF ProducersOK, TypeOK
<1>5. DtorOK'
  BY DEF DtorOK, Waiting, TypeOK, WorkersOK, WaitIsOver
<1>6. QED BY <1>0, <1>1, <1>2, <1>3, <1>4, <1>5

(* A spurious wakeup sends the worker back to the mutex.                   *)
LEMMA SpuriousWakeStep ==
  ASSUME IInv, NEW w \in Workers, SpuriousWake(w)
  PROVE  IInv'
<1> USE DEF IInv, SpuriousWake, producerVars, workerVars, historyVars
<1>0. /\ Contents' = Contents /\ Empty' = Empty /\ Front' = Front
      /\ BufTypeOK(Message)' /\ LiveCells'
  BY BufUnchanged DEF TypeOK
<1>1. TypeOK'
  BY <1>0, PoolAssumption DEF TypeOK
<1>2. MutexOK'
  BY PoolAssumption DEF MutexOK, CanLock, TypeOK
<1>3. WorkersOK'
  BY <1>0 DEF WorkersOK, WaitIsOver, Finished, TypeOK
<1>4. ProducersOK'
  BY DEF ProducersOK, TypeOK
<1>5. DtorOK'
  BY DEF DtorOK, Waiting, TypeOK
<1>6. QED BY <1>0, <1>1, <1>2, <1>3, <1>4, <1>5

(* A worker leaves for good when the pool is stopped and empty.            *)
LEMMA WorkerExitStep ==
  ASSUME IInv, NEW w \in Workers, WorkerExit(w)
  PROVE  IInv'
<1> USE DEF IInv, WorkerExit, producerVars, workerVars, historyVars
<1>0. /\ Contents' = Contents /\ Empty' = Empty /\ Front' = Front
      /\ BufTypeOK(Message)' /\ LiveCells'
  BY BufUnchanged DEF TypeOK
<1>1. TypeOK'
  BY <1>0 DEF TypeOK
<1>2. MutexOK'
  BY PoolAssumption DEF MutexOK, CanLock, TypeOK
<1>3. WorkersOK'
  BY <1>0 DEF WorkersOK, WaitIsOver, Finished, TypeOK
<1>4. ProducersOK'
  BY DEF ProducersOK, TypeOK
<1>5. DtorOK'
  BY DEF DtorOK, Waiting, TypeOK
<1>6. QED BY <1>0, <1>1, <1>2, <1>3, <1>4, <1>5

(* What a worker copies is the oldest message.                             *)
LEMMA WorkerCopyStep ==
  ASSUME IInv, NEW w \in Workers, WorkerCopy(w)
  PROVE  IInv'
<1> USE DEF IInv, WorkerCopy, producerVars, workerVars, historyVars
<1>0. /\ Contents' = Contents /\ Empty' = Empty /\ Front' = Front
      /\ BufTypeOK(Message)' /\ LiveCells'
  BY BufUnchanged DEF TypeOK
<1>1. TypeOK'
  <2>1. Front \in Message \cup {Raw}
    BY InvBuf, FrontValue DEF Front
  <2>2. QED BY <1>0, <2>1 DEF TypeOK
<1>2. MutexOK'
  BY PoolAssumption DEF MutexOK, CanLock, TypeOK
<1>3. WorkersOK'
  <2>1. Empty \/ Front \in Message
    BY InvBuf, FrontValue
  <2>2. Empty => Front = Raw
    BY DEF Front
  <2>3. QED BY <1>0, <2>1, <2>2 DEF WorkersOK, WaitIsOver, Finished, TypeOK
<1>4. ProducersOK'
  BY DEF ProducersOK, TypeOK
<1>5. DtorOK'
  BY DEF DtorOK, Waiting, TypeOK
<1>6. QED BY <1>0, <1>1, <1>2, <1>3, <1>4, <1>5

(* Taking a message disturbs no other thread: none is inside.              *)
LEMMA WorkerPopStep ==
  ASSUME IInv, NEW w \in Workers, WorkerPop(w)
  PROVE  IInv'
<1> USE DEF IInv, WorkerPop, producerVars, workerVars, historyVars
<1>0. BufTypeOK(Message)' /\ LiveCells' /\ msg[w] \in Message
  <2>1. ~Empty /\ msg[w] = Front
    BY DEF WorkersOK
  <2>2. BufOK(Message)'
    BY <2>1, InvBuf, DropHeadEffect DEF Pop
  <2>3. msg[w] \in Message
    BY <2>1, InvBuf, FrontValue
  <2>4. QED BY <2>2, <2>3 DEF BufOK, Ring, BufTypeOK, LiveCells
<1>1. TypeOK'
  BY <1>0 DEF TypeOK
<1>2. MutexOK'
  BY PoolAssumption DEF MutexOK, CanLock, TypeOK
<1>3. WorkersOK'
  BY <1>0, PoolAssumption DEF WorkersOK, MutexOK, TypeOK, Finished
<1>4. ProducersOK'
  BY DEF ProducersOK, TypeOK
<1>5. DtorOK'
  BY DEF DtorOK, Waiting, TypeOK
<1>6. QED BY <1>0, <1>1, <1>2, <1>3, <1>4, <1>5

(* The sink call is outside the critical section.                          *)
LEMMA WorkerLogStep ==
  ASSUME IInv, NEW w \in Workers, WorkerLog(w)
  PROVE  IInv'
<1> USE DEF IInv, WorkerLog, producerVars, workerVars, historyVars
<1>0. /\ Contents' = Contents /\ Empty' = Empty /\ Front' = Front
      /\ BufTypeOK(Message)' /\ LiveCells'
  BY BufUnchanged DEF TypeOK
<1>1. TypeOK'
  <2>1. msg[w] \in Message
    BY DEF WorkersOK
  <2>2. QED BY <1>0, <2>1 DEF TypeOK
<1>2. MutexOK'
  BY PoolAssumption DEF MutexOK, CanLock, TypeOK
<1>3. WorkersOK'
  BY <1>0 DEF WorkersOK, WaitIsOver, Finished, TypeOK
<1>4. ProducersOK'
  BY DEF ProducersOK, TypeOK
<1>5. DtorOK'
  BY DEF DtorOK, Waiting, TypeOK
<1>6. QED BY <1>0, <1>1, <1>2, <1>3, <1>4, <1>5

(* The flag goes up while no worker is about to sleep.                     *)
LEMMA DtorStopStep ==
  ASSUME IInv, DtorStop
  PROVE  IInv'
<1> USE DEF IInv, DtorStop, producerVars, workerVars, historyVars
<1>0. /\ Contents' = Contents /\ Empty' = Empty /\ Front' = Front
      /\ BufTypeOK(Message)' /\ LiveCells'
  BY BufUnchanged DEF TypeOK
<1>1. TypeOK'
  BY <1>0 DEF TypeOK
<1>2. MutexOK'
  BY PoolAssumption DEF MutexOK, CanLock, TypeOK
<1>3. WorkersOK'
  BY <1>0, PoolAssumption DEF WorkersOK, WaitIsOver, Finished, MutexOK, CanLock
<1>4. ProducersOK'
  BY DEF ProducersOK, TypeOK
<1>5. DtorOK'
  BY DEF DtorOK, Waiting, TypeOK
<1>6. QED BY <1>0, <1>1, <1>2, <1>3, <1>4, <1>5

(* Everybody wakes.                                                        *)
LEMMA DtorNotifyAllStep ==
  ASSUME IInv, DtorNotifyAll
  PROVE  IInv'
<1> USE DEF IInv, DtorNotifyAll, producerVars, workerVars, historyVars
<1>0. /\ Contents' = Contents /\ Empty' = Empty /\ Front' = Front
      /\ BufTypeOK(Message)' /\ LiveCells'
  BY BufUnchanged DEF TypeOK
<1>1. TypeOK'
  BY <1>0 DEF TypeOK, NotifyAll, Waiting
<1>2. MutexOK'
  BY PoolAssumption DEF MutexOK, TypeOK, NotifyAll, Waiting
<1>3. WorkersOK'
  BY <1>0 DEF WorkersOK, WaitIsOver, Finished, TypeOK, NotifyAll, Waiting
<1>4. ProducersOK'
  BY DEF ProducersOK, TypeOK
<1>5. DtorOK'
  BY DEF DtorOK, Waiting, TypeOK, NotifyAll
<1>6. QED BY <1>0, <1>1, <1>2, <1>3, <1>4, <1>5

(* All workers have left.                                                  *)
LEMMA DtorJoinStep ==
  ASSUME IInv, DtorJoin
  PROVE  IInv'
<1> USE DEF IInv, DtorJoin, producerVars, workerVars, historyVars
<1>0. /\ Contents' = Contents /\ Empty' = Empty /\ Front' = Front
      /\ BufTypeOK(Message)' /\ LiveCells'
  BY BufUnchanged DEF TypeOK
<1>1. TypeOK'
  BY <1>0 DEF TypeOK
<1>2. MutexOK'
  BY PoolAssumption DEF MutexOK, CanLock, TypeOK
<1>3. WorkersOK'
  BY <1>0 DEF WorkersOK, WaitIsOver, Finished, TypeOK
<1>4. ProducersOK'
  BY DEF ProducersOK, TypeOK
<1>5. DtorOK'
  BY DEF DtorOK, Waiting, TypeOK
<1>6. QED BY <1>0, <1>1, <1>2, <1>3, <1>4, <1>5

(* Nobody is inside the pool when its members go.                          *)
LEMMA DtorFinishStep ==
  ASSUME IInv, DtorFinish
  PROVE  IInv'
<1> USE DEF IInv, DtorFinish, producerVars, workerVars, historyVars
<1>0. BufTypeOK(Message)' /\ LiveCells' /\ Empty'
  <2>1. BufOK(Message)' /\ Contents' = << >>
    BY InvBuf, DestroyAllEffect
  <2>2. Empty'
    BY DEF DestroyAll, Empty
  <2>3. QED BY <2>1, <2>2 DEF BufOK, Ring, BufTypeOK, LiveCells
<1>1. TypeOK'
  BY <1>0 DEF TypeOK
<1>2. MutexOK'
  BY PoolAssumption DEF MutexOK, CanLock, TypeOK
<1>3. WorkersOK'
  BY <1>0 DEF WorkersOK, WaitIsOver, Finished, DtorOK
<1>4. ProducersOK'
  BY DEF ProducersOK, TypeOK
<1>5. DtorOK'
  BY DEF DtorOK, Waiting, TypeOK
<1>6. QED BY <1>0, <1>1, <1>2, <1>3, <1>4, <1>5

-----------------------------------------------------------------------------
LEMMA InitIInv ==
  ASSUME Init PROVE IInv /\ Contents = << >>
<1>1. BufOK(Message) /\ Contents = << >>
  BY MarkerAssumption, BufInitEffect DEF Init
<1>2. BufTypeOK(Message) /\ LiveCells
  BY <1>1 DEF BufOK, Ring, BufTypeOK, LiveCells
<1>3. TypeOK
  <2>1. << >> \in Seq(Message) /\ 0 \in 0 .. MaxPosts /\ 0 \in 0 .. MaxSpurious
    BY EmptySeq, PoolAssumption
  <2>2. QED BY <1>2, <2>1 DEF Init, TypeOK
<1>4. MutexOK /\ WorkersOK /\ ProducersOK /\ DtorOK
  BY PoolAssumption
  DEF Init, MutexOK, WorkersOK, ProducersOK, DtorOK, Waiting
<1>5. QED BY <1>1, <1>2, <1>3, <1>4 DEF IInv

LEMMA StepIInv ==
  ASSUME IInv, [Next]_vars PROVE IInv'
<1>1. ASSUME NEW p \in Producers, ProducerStep(p) PROVE IInv'
  BY <1>1, PostLockStep, PostRejectStep, PostPushStep, PostNotifyStep
  DEF ProducerStep
<1>2. ASSUME NEW p \in Producers, NEW s \in Sinks, PostCall(p, s) PROVE IInv'
  BY <1>2, PostCallStep
<1>3. ASSUME NEW w \in Workers, WorkerStep(w) PROVE IInv'
  BY <1>3, WorkerLockStep, WorkerCheckStep, WorkerBlockStep, WorkerExitStep,
     WorkerCopyStep, WorkerPopStep, WorkerLogStep
  DEF WorkerStep
<1>4. ASSUME NEW w \in Workers, SpuriousWake(w) PROVE IInv'
  BY <1>4, SpuriousWakeStep
<1>5. CASE DtorStop
  BY <1>5, DtorStopStep
<1>6. CASE DtorStep
  BY <1>6, DtorNotifyAllStep, DtorJoinStep, DtorFinishStep DEF DtorStep
<1>7. CASE UNCHANGED vars
  <2>1. UNCHANGED bufVars
    BY <1>7 DEF vars
  <2>2. /\ Contents' = Contents /\ Empty' = Empty /\ Front' = Front
        /\ BufTypeOK(Message)' /\ LiveCells'
    BY <2>1, BufUnchanged DEF IInv, TypeOK
  <2>3. TypeOK' /\ MutexOK' /\ WorkersOK' /\ ProducersOK' /\ DtorOK'
    BY <1>7, <2>2
    DEF IInv, TypeOK, MutexOK, WorkersOK, ProducersOK, DtorOK, Waiting,
        WaitIsOver, Finished, vars, producerVars, workerVars, historyVars
  <2>4. QED BY <2>2, <2>3 DEF IInv
<1>8. QED
  BY <1>1, <1>2, <1>3, <1>4, <1>5, <1>6, <1>7 DEF Next, Over

(* IInv is an invariant of the pool.                                       *)
THEOREM PoolInvariant == Spec => []IInv
<1>1. Init => IInv
  BY InitIInv
<1>2. IInv /\ [Next]_vars => IInv'
  BY StepIInv
<1>3. QED BY <1>1, <1>2, PTL DEF Spec

(* Every variable of the pool stays within its type.                       *)
THEOREM PoolTypeOK == Spec => []TypeOK
<1>1. IInv => TypeOK
  BY DEF IInv
<1>2. QED BY <1>1, PoolInvariant, PTL

(* Under every interleaving the message a worker pops is the one it        *)
(* copied, and front() is never null where the worker dereferences it.     *)
THEOREM PoolCopyIsOldest == Spec => []CopyIsOldest
<1>1. IInv => CopyIsOldest
  <2> SUFFICES ASSUME IInv, NEW w \in Workers
               PROVE  /\ wpc[w] = "pop" => ~Empty /\ msg[w] = Front
                      /\ wpc[w] = "ready" => stop \/ Front # Raw
    BY DEF CopyIsOldest
  <2>1. ~Empty => Front # Raw
    BY InvBuf, FrontValue, MarkerAssumption DEF IInv
  <2>2. QED BY <2>1 DEF IInv, WorkersOK, WaitIsOver
<1>2. QED BY <1>1, PoolInvariant, PTL

(* No worker goes to sleep on a stale predicate, and none sleeps once the  *)
(* destructor has notified.                                                *)
THEOREM PoolNoMissedStop == Spec => []NoMissedStop
<1>1. IInv => NoMissedStop
  BY DEF IInv, NoMissedStop, WorkersOK, WaitIsOver, DtorOK
<1>2. QED BY <1>1, PoolInvariant, PTL
-----------------------------------------------------------------------------
(* Refinement: what AsyncDelivery sees of the pool.                        *)
Seen == <<Contents, Held, logged, evicted, PoolPhase>>

(* A step that leaves the buffer, the histories and the phase alone, and   *)
(* no worker's hold on a message changed, is invisible.                    *)
LEMMA Invisible ==
  ASSUME UNCHANGED <<bufVars, logged, evicted, PoolPhase>>,
         \A w \in Workers : /\ wpc'[w] = "log" <=> wpc[w] = "log"
                            /\ wpc[w] = "log" => msg'[w] = msg[w]
  PROVE  UNCHANGED Seen
<1>1. Held' = Held
  BY DEF Held
<1>2. QED BY <1>1, BufUnchanged DEF Seen

LEMMA ProducerInvisible ==
  ASSUME IInv, NEW p \in Producers,
         \/ PostLock(p) \/ PostReject(p) \/ PostNotify(p)
         \/ \E s \in Sinks : PostCall(p, s)
  PROVE  UNCHANGED Seen
<1>1. UNCHANGED <<bufVars, logged, evicted, msg, dpc>>
  BY DEF PostLock, PostReject, PostNotify, PostCall, workerVars, historyVars
<1>2. \A w \in Workers : wpc'[w] = "log" <=> wpc[w] = "log"
  BY DEF PostLock, PostReject, PostNotify, PostCall, workerVars, NotifyOne,
         Waiting, IInv, TypeOK
<1>3. QED BY <1>1, <1>2, Invisible DEF PoolPhase

LEMMA WorkerInvisible ==
  ASSUME IInv, NEW w \in Workers,
         \/ WorkerLock(w) \/ WorkerCheck(w) \/ WorkerBlock(w)
         \/ WorkerExit(w) \/ WorkerCopy(w) \/ SpuriousWake(w)
  PROVE  UNCHANGED Seen
<1>1. UNCHANGED <<bufVars, logged, evicted, dpc>>
  BY DEF WorkerLock, WorkerCheck, WorkerBlock, WorkerExit, WorkerCopy,
         SpuriousWake, historyVars
<1>2. \A v \in Workers : /\ wpc'[v] = "log" <=> wpc[v] = "log"
                         /\ wpc[v] = "log" => msg'[v] = msg[v]
  BY DEF WorkerLock, WorkerCheck, WorkerBlock, WorkerExit, WorkerCopy,
         SpuriousWake, IInv, TypeOK
<1>3. QED BY <1>1, <1>2, Invisible DEF PoolPhase

LEMMA DtorInvisible ==
  ASSUME IInv, DtorNotifyAll \/ DtorFinish
  PROVE  UNCHANGED Seen
<1>1. CASE DtorNotifyAll
  <2>1. UNCHANGED <<bufVars, logged, evicted, msg, PoolPhase>>
    BY <1>1 DEF DtorNotifyAll, historyVars, PoolPhase
  <2>2. \A w \in Workers : wpc'[w] = "log" <=> wpc[w] = "log"
    BY <1>1 DEF DtorNotifyAll, NotifyAll, Waiting, IInv, TypeOK
  <2>3. QED BY <2>1, <2>2, Invisible
<1>2. CASE DtorFinish
  <2>1. \A w \in Workers : wpc[w] = "done" /\ Empty
    BY <1>2 DEF DtorFinish, IInv, DtorOK, WorkersOK, Finished
  <2>2. Empty
    BY <2>1, PoolAssumption DEF Workers
  <2>3. Contents = << >> /\ Contents' = << >>
    BY <1>2, <2>2, InvBuf, LengthTests, DestroyAllEffect
    DEF DtorFinish, IInv
  <2>4. QED
    BY <1>2, <2>3
    DEF DtorFinish, Seen, Held, PoolPhase, workerVars, historyVars
<1>3. QED BY <1>1, <1>2

(* The push is the abstract acceptance: it evicts exactly when Cells - 1   *)
(* messages wait, and then the oldest.                                     *)
LEMMA PushAccepts ==
  ASSUME IInv, NEW p \in Producers, PostPush(p)
  PROVE  asmsg[p] \in Message /\ Delivery!Accept(asmsg[p])
<1>1. asmsg[p] \in Message /\ BufOK(Message)
  BY InvBuf DEF IInv, ProducersOK, PostPush
<1>2. Contents' = Append(IF Len(Contents) = Cells - 1
                         THEN Tail(Contents) ELSE Contents, asmsg[p])
  BY <1>1, PushEffect DEF PostPush
<1>3. evicted' = IF Len(Contents) = Cells - 1
                 THEN evicted \cup {Head(Contents)} ELSE evicted
  BY <1>1, LengthTests, FrontValue DEF PostPush
<1>4. UNCHANGED <<Held, logged, PoolPhase>>
  BY DEF PostPush, Held, PoolPhase, workerVars
<1>5. PoolPhase = "open"
  BY DEF PostPush, PoolPhase, IInv, DtorOK, TypeOK
<1>6. QED
  BY <1>1, <1>2, <1>3, <1>4, <1>5 DEF Delivery!Accept

(* The pop is the abstract taking of the oldest message.                   *)
LEMMA PopTakes ==
  ASSUME IInv, NEW w \in Workers, WorkerPop(w)
  PROVE  Delivery!Take(w)
<1>1. ~Empty /\ msg[w] = Front /\ BufOK(Message)
  BY InvBuf DEF IInv, WorkersOK, WorkerPop
<1>2. msg[w] = Head(Contents)
  BY <1>1, FrontValue
<1>3. Contents' = Tail(Contents) /\ Contents # << >>
  BY <1>1, DropHeadEffect DEF WorkerPop, Pop
<1>4. Held[w] = NoMsg /\ Held' = [Held EXCEPT ![w] = msg[w]]
  BY DEF WorkerPop, Held, IInv, TypeOK
<1>5. UNCHANGED <<logged, evicted, PoolPhase>>
  BY DEF WorkerPop, PoolPhase, historyVars
<1>6. QED
  BY <1>2, <1>3, <1>4, <1>5 DEF Delivery!Take

(* The sink call is the abstract delivery.                                 *)
LEMMA LogDelivers ==
  ASSUME IInv, NEW w \in Workers, WorkerLog(w)
  PROVE  Delivery!Deliver(w)
<1>1. msg[w] \in Message /\ Held[w] = msg[w] /\ msg[w] # NoMsg
  BY MarkerAssumption DEF IInv, WorkersOK, WorkerLog, Held
<1>2. Held' = [Held EXCEPT ![w] = NoMsg]
  BY DEF WorkerLog, Held, IInv, TypeOK
<1>3. logged' = IF msg[w] \in {m \in Message : m.sink = NoSink}
                THEN logged ELSE Append(logged, msg[w])
  BY <1>1 DEF WorkerLog, HasSink
<1>4. UNCHANGED <<evicted, PoolPhase>> /\ UNCHANGED Contents
  BY BufUnchanged DEF WorkerLog, PoolPhase
<1>5. QED
  BY <1>1, <1>2, <1>3, <1>4 DEF Delivery!Deliver

LEMMA StopCloses ==
  ASSUME IInv, DtorStop PROVE Delivery!Close
<1>1. PoolPhase = "open" /\ PoolPhase' = "closing"
  BY DEF DtorStop, PoolPhase
<1>2. UNCHANGED <<Held, logged, evicted>> /\ UNCHANGED Contents
  BY BufUnchanged DEF DtorStop, Held, workerVars, historyVars
<1>3. QED BY <1>1, <1>2 DEF Delivery!Close

(* The destructor goes on when nothing waits and nothing is held.          *)
LEMMA JoinJoins ==
  ASSUME IInv, DtorJoin PROVE Delivery!Join
<1>1. PoolPhase = "closing" /\ PoolPhase' = "joined"
  BY DEF DtorJoin, PoolPhase
<1>2. UNCHANGED <<Held, logged, evicted>> /\ UNCHANGED Contents
  BY BufUnchanged DEF DtorJoin, Held, workerVars, historyVars
<1>3. \A w \in Workers : Held[w] = NoMsg /\ Empty
  BY DEF DtorJoin, Held, IInv, WorkersOK, Finished
<1>4. Contents = << >>
  <2>1. Empty
    BY <1>3, PoolAssumption DEF Workers
  <2>2. QED BY <2>1, InvBuf, LengthTests DEF IInv
<1>5. QED BY <1>1, <1>2, <1>3, <1>4 DEF Delivery!Join

LEMMA StepRefines ==
  ASSUME IInv, [Next]_vars
  PROVE  [Delivery!Next]_(Delivery!vars)
<1> SUFFICES ASSUME ~ UNCHANGED Seen PROVE Delivery!Next
  BY DEF Seen, Delivery!vars
<1>1. ASSUME NEW p \in Producers,
             ProducerStep(p) \/ \E s \in Sinks : PostCall(p, s)
      PROVE  Delivery!Next
  <2>1. PostPush(p)
    BY <1>1, ProducerInvisible DEF ProducerStep
  <2>2. QED BY <2>1, PushAccepts DEF Delivery!Next
<1>2. ASSUME NEW w \in Workers, WorkerStep(w) \/ SpuriousWake(w)
      PROVE  Delivery!Next
  <2>1. WorkerPop(w) \/ WorkerLog(w)
    BY <1>2, WorkerInvisible DEF WorkerStep
  <2>2. QED BY <2>1, PopTakes, LogDelivers DEF Delivery!Next
<1>3. CASE DtorStop
  BY <1>3, StopCloses DEF Delivery!Next
<1>4. CASE DtorStep
  <2>1. DtorJoin
    BY <1>4, DtorInvisible DEF DtorStep
  <2>2. QED BY <2>1, JoinJoins DEF Delivery!Next
<1>5. CASE UNCHANGED vars
  <2>1. UNCHANGED Seen
    BY <1>5, Invisible DEF vars, workerVars, historyVars, PoolPhase
  <2>2. QED BY <2>1
<1>6. QED
  BY <1>1, <1>2, <1>3, <1>4, <1>5 DEF Next, Over

(* The thread pool implements AsyncDelivery, whatever the number of cells, *)
(* producers and workers.                                                  *)
THEOREM PoolRefines == Spec => ImplementsAsyncDelivery
<1>1. Init => Delivery!Init
  <2> SUFFICES ASSUME Init PROVE Delivery!Init
    OBVIOUS
  <2>1. Contents = << >>
    BY InitIInv
  <2>2. Held = [w \in Workers |-> NoMsg] /\ PoolPhase = "open"
    BY DEF Init, Held, PoolPhase
  <2>3. QED BY <2>1, <2>2 DEF Init, Delivery!Init
<1>2. IInv /\ [Next]_vars => [Delivery!Next]_(Delivery!vars)
  BY StepRefines
<1>3. QED
  BY <1>1, <1>2, PoolInvariant, PTL
  DEF Spec, ImplementsAsyncDelivery, Delivery!Spec

-----------------------------------------------------------------------------
(* Where the messages are.  Every post is told apart from the others, so   *)
(* none is accepted twice ...                                              *)
Once(q) == \A i, j \in DOMAIN q : q[i] = q[j] => i = j

FreshInv ==
  /\ \A p \in Producers :
       ppc[p] # "idle" => asmsg[p].from = p /\ asmsg[p].nr = sent[p] - 1
  /\ \A m \in Among(accepted) :
       /\ m.nr < sent[m.from]
       /\ ppc[m.from] \in {"lock", "locked"} => m.nr < sent[m.from] - 1
  /\ Once(accepted)

(* ... and a worker's msg is empty outside the part of its loop that uses  *)
(* it.                                                                     *)
CopyInv == \A w \in Workers : wpc[w] \notin {"pop", "log"} => msg[w] = NoMsg

(* What waits is the end of what was accepted.                             *)
Gone == Len(accepted) - Len(Contents)

NewestInv ==
  /\ Len(Contents) <= Len(accepted)
  /\ \A i \in 1 .. Len(Contents) : Contents[i] = accepted[Gone + i]

(* A message is in at most one of four places, and, when it has a sink, in *)
(* one.                                                                    *)
PlacesInv ==
  /\ Once(logged)
  /\ \A v, w \in Workers : Held[v] = Held[w] /\ Held[v] # NoMsg => v = w
  /\ Among(Contents) \cap InFlight = {}
  /\ evicted \cap (Among(Contents) \cup InFlight) = {}
  /\ Among(logged) \cap (Among(Contents) \cup InFlight \cup evicted) = {}
  /\ Among(Contents) \cup InFlight \cup evicted \cup Among(logged)
       \subseteq Among(accepted)
  /\ \A m \in Among(accepted) : HasSink(m) =>
       m \in Among(Contents) \cup InFlight \cup evicted \cup Among(logged)

(* Of a logged message, one worker holds no predecessor: the one that took *)
(* it.                                                                     *)
OvertakeInv ==
  \A j \in DOMAIN accepted : accepted[j] \in Among(logged) =>
    \E v \in Workers : \A i \in 1 .. j - 1 : Held[v] # accepted[i]

HInv ==
  /\ IInv
  /\ FreshInv /\ CopyInv /\ NewestInv /\ PlacesInv /\ OvertakeInv
  /\ BacklogIsCovered

-----------------------------------------------------------------------------
(* Sequences of messages                                                   *)

LEMMA AtTheEnd ==
  ASSUME NEW q \in Seq(Message), NEW m \in Message
  PROVE  /\ Append(q, m) \in Seq(Message) /\ Len(Append(q, m)) = Len(q) + 1
         /\ \A i \in 1 .. Len(q) : Append(q, m)[i] = q[i]
         /\ Append(q, m)[Len(q) + 1] = m
         /\ Among(Append(q, m)) = Among(q) \cup {m}
         /\ Once(q) /\ m \notin Among(q) => Once(Append(q, m))
<1>1. /\ Append(q, m) \in Seq(Message)
      /\ Len(Append(q, m)) = Len(q) + 1
      /\ \A i \in 1 .. Len(q) : Append(q, m)[i] = q[i]
      /\ Append(q, m)[Len(q) + 1] = m
  BY AppendProperties
<1>2. /\ Len(q) \in Nat /\ DOMAIN q = 1 .. Len(q)
      /\ DOMAIN Append(q, m) = 1 .. Len(q) + 1
  BY <1>1, LenProperties
<1>3. Among(Append(q, m)) = Among(q) \cup {m}
  BY <1>1, <1>2 DEF Among
<1>4. ASSUME Once(q), m \notin Among(q)
      PROVE  Once(Append(q, m))
  <2>1. \A i \in 1 .. Len(q) : q[i] # m
    BY <1>2, <1>4 DEF Among
  <2>2. QED BY <1>1, <1>2, <1>4, <2>1 DEF Once
<1>5. QED BY <1>1, <1>3, <1>4

LEMMA FromTheFront ==
  ASSUME NEW q \in Seq(Message), q # << >>
  PROVE  /\ Head(q) \in Message /\ Head(q) = q[1] /\ Len(q) > 0
         /\ Tail(q) \in Seq(Message) /\ Len(Tail(q)) = Len(q) - 1
         /\ \A i \in 1 .. Len(q) - 1 : Tail(q)[i] = q[i + 1]
         /\ Among(q) = {Head(q)} \cup Among(Tail(q))
         /\ Once(q) => Head(q) \notin Among(Tail(q))
<1>1. /\ Len(q) \in Nat /\ Len(q) > 0 /\ DOMAIN q = 1 .. Len(q)
      /\ Head(q) \in Message /\ Head(q) = q[1]
      /\ Tail(q) \in Seq(Message) /\ Len(Tail(q)) = Len(q) - 1
      /\ \A i \in 1 .. Len(q) - 1 : Tail(q)[i] = q[i + 1]
  BY EmptySeq, LenProperties, HeadTailProperties
<1>2. DOMAIN Tail(q) = 1 .. Len(q) - 1
  BY <1>1, LenProperties
<1>3. \A i \in 1 .. Len(q) : i = 1 \/ (i - 1 \in 1 .. Len(q) - 1 /\ q[i] = Tail(q)[i - 1])
  BY <1>1
<1>4. Among(q) \subseteq {Head(q)} \cup Among(Tail(q))
  <2>1. ASSUME NEW i \in 1 .. Len(q)
        PROVE  q[i] \in {Head(q)} \cup Among(Tail(q))
    BY <1>1, <1>2, <1>3 DEF Among
  <2>2. QED BY <1>1, <2>1 DEF Among
<1>5. {Head(q)} \cup Among(Tail(q)) \subseteq Among(q)
  <2>1. Head(q) \in Among(q)
    BY <1>1 DEF Among
  <2>2. ASSUME NEW i \in 1 .. Len(q) - 1 PROVE Tail(q)[i] \in Among(q)
    BY <1>1, i + 1 \in 1 .. Len(q) DEF Among
  <2>3. QED BY <1>2, <2>1, <2>2 DEF Among
<1>6. ASSUME Once(q) PROVE Head(q) \notin Among(Tail(q))
  <2>1. \A i, j \in 1 .. Len(q) : q[i] = q[j] => i = j
    BY <1>1, <1>6 DEF Once
  <2>2. \A i \in 1 .. Len(q) - 1 : i + 1 \in 1 .. Len(q) /\ i + 1 # 1
    BY <1>1
  <2>3. \A i \in 1 .. Len(q) - 1 : Tail(q)[i] # Head(q)
    BY <1>1, <2>1, <2>2, 1 \in 1 .. Len(q)
  <2>4. QED BY <1>2, <2>3 DEF Among
<1>7. QED BY <1>1, <1>4, <1>5, <1>6

-----------------------------------------------------------------------------
(* What a step does to the messages                                        *)

Visible == <<Contents, Held, logged, evicted, accepted>>

LEMMA StepKinds ==
  ASSUME IInv, [Next]_vars
  PROVE  \/ \E p \in Producers : PostPush(p)
         \/ \E w \in Workers : WorkerPop(w) \/ WorkerLog(w)
         \/ UNCHANGED Visible
<1>1. ASSUME NEW p \in Producers,
             PostLock(p) \/ PostReject(p) \/ PostNotify(p) \/ \E s \in Sinks : PostCall(p, s)
      PROVE  UNCHANGED Visible
  <2>1. accepted' = accepted
    BY <1>1 DEF PostLock, PostReject, PostNotify, PostCall, historyVars
  <2>2. QED BY <1>1, <2>1, ProducerInvisible DEF Seen, Visible
<1>2. ASSUME NEW w \in Workers,
             \/ WorkerLock(w) \/ WorkerCheck(w) \/ WorkerBlock(w)
             \/ WorkerExit(w) \/ WorkerCopy(w) \/ SpuriousWake(w)
      PROVE  UNCHANGED Visible
  <2>1. accepted' = accepted
    BY <1>2 DEF WorkerLock, WorkerCheck, WorkerBlock, WorkerExit, WorkerCopy,
                SpuriousWake, historyVars
  <2>2. QED BY <1>2, <2>1, WorkerInvisible DEF Seen, Visible
<1>3. ASSUME DtorNotifyAll \/ DtorFinish PROVE UNCHANGED Visible
  <2>1. accepted' = accepted
    BY <1>3 DEF DtorNotifyAll, DtorFinish, historyVars
  <2>2. QED BY <1>3, <2>1, DtorInvisible DEF Seen, Visible
<1>4. ASSUME DtorStop \/ DtorJoin PROVE UNCHANGED Visible
  <2>1. UNCHANGED <<Held, logged, evicted, accepted>>
    BY <1>4 DEF DtorStop, DtorJoin, Held, workerVars, historyVars
  <2>2. UNCHANGED Contents
    BY <1>4, BufUnchanged DEF DtorStop, DtorJoin
  <2>3. QED BY <2>1, <2>2 DEF Visible
<1>5. ASSUME UNCHANGED vars PROVE UNCHANGED Visible
  <2>1. UNCHANGED <<Held, logged, evicted, accepted>>
    BY <1>5 DEF vars, Held, workerVars, historyVars
  <2>2. UNCHANGED Contents
    BY <1>5, BufUnchanged DEF vars
  <2>3. QED BY <2>1, <2>2 DEF Visible
<1>6. QED
  BY <1>1, <1>2, <1>3, <1>4, <1>5 DEF Next, ProducerStep, WorkerStep, DtorStep, Over

LEMMA HeldMessages ==
  ASSUME IInv
  PROVE  /\ InFlight = {Held[w] : w \in Workers} \ {NoMsg}
         /\ Held \in [Workers -> Message \cup {NoMsg}]
         /\ Contents \in Seq(Message) /\ Len(Contents) \in Nat
         /\ DOMAIN Contents = 1 .. Len(Contents)
         /\ accepted \in Seq(Message) /\ Len(accepted) \in Nat
         /\ DOMAIN accepted = 1 .. Len(accepted)
<1>1. \A w \in Workers : wpc[w] = "log" => msg[w] \in Message /\ msg[w] # NoMsg
  BY MarkerAssumption DEF IInv, WorkersOK
<1>2. InFlight = {Held[w] : w \in Workers} \ {NoMsg}
  BY <1>1 DEF InFlight, Held
<1>3. Contents \in Seq(Message)
  BY InvBuf, LengthTests DEF IInv
<1>4. accepted \in Seq(Message)
  BY DEF IInv, TypeOK
<1>5. Held \in [Workers -> Message \cup {NoMsg}]
  BY <1>1 DEF Held
<1>6. QED BY <1>2, <1>3, <1>4, <1>5, LenProperties

LEMMA HeldNext ==
  IInv' => InFlight' = {Held'[w] : w \in Workers} \ {NoMsg}
<1>1. IInv => (InFlight = {Held[w] : w \in Workers} \ {NoMsg})
  BY HeldMessages
<1>2. IInv' => (InFlight = {Held[w] : w \in Workers} \ {NoMsg})'
  BY <1>1, PTL
<1>3. QED BY <1>2

(* The three steps that move a message.                                    *)
Kept == IF Len(Contents) = Cells - 1 THEN Tail(Contents) ELSE Contents

Displaced == IF Len(Contents) = Cells - 1 THEN {Head(Contents)} ELSE {}

LEMMA PushMoves ==
  ASSUME IInv, NEW p \in Producers, PostPush(p)
  PROVE  /\ asmsg[p] \in Message /\ ppc[p] = "locked"
         /\ Contents' = Append(Kept, asmsg[p])
         /\ evicted' = evicted \cup Displaced
         /\ accepted' = Append(accepted, asmsg[p])
         /\ Held' = Held /\ logged' = logged
<1>1. asmsg[p] \in Message /\ Delivery!Accept(asmsg[p])
  BY PushAccepts
<1>2. Contents' = Append(Kept, asmsg[p]) /\ evicted' = evicted \cup Displaced
  BY <1>1 DEF Delivery!Accept, Kept, Displaced
<1>3. Held' = Held /\ logged' = logged
  BY <1>1 DEF Delivery!Accept
<1>4. QED BY <1>1, <1>2, <1>3 DEF PostPush

LEMMA PopMoves ==
  ASSUME IInv, NEW w \in Workers, WorkerPop(w)
  PROVE  /\ Held[w] = NoMsg /\ Contents # << >>
         /\ Held' = [Held EXCEPT ![w] = Head(Contents)]
         /\ Contents' = Tail(Contents)
         /\ UNCHANGED <<logged, evicted, accepted>>
<1>1. Delivery!Take(w)
  BY PopTakes
<1>2. accepted' = accepted
  BY DEF WorkerPop, historyVars
<1>3. QED BY <1>1, <1>2 DEF Delivery!Take

LEMMA LogMoves ==
  ASSUME IInv, NEW w \in Workers, WorkerLog(w)
  PROVE  /\ Held[w] \in Message
         /\ Held' = [Held EXCEPT ![w] = NoMsg]
         /\ logged' = IF HasSink(Held[w]) THEN Append(logged, Held[w]) ELSE logged
         /\ UNCHANGED <<Contents, evicted, accepted>>
<1>1. Delivery!Deliver(w)
  BY LogDelivers
<1>2. Held[w] \in Message
  BY <1>1, HeldMessages DEF Delivery!Deliver
<1>3. logged' = IF HasSink(Held[w]) THEN Append(logged, Held[w]) ELSE logged
  BY <1>1, <1>2 DEF Delivery!Deliver, HasSink
<1>4. accepted' = accepted
  BY DEF WorkerLog
<1>5. QED BY <1>1, <1>2, <1>3, <1>4 DEF Delivery!Deliver

-----------------------------------------------------------------------------
(* No message is accepted twice                                            *)

LEMMA AcceptedMessages ==
  ASSUME IInv, NEW m \in Among(accepted)
  PROVE  m \in Message /\ m.from \in Producers /\ m.nr \in Int
<1>1. PICK i \in DOMAIN accepted : m = accepted[i]
  BY DEF Among
<1>2. m \in Message
  BY <1>1, HeldMessages
<1>3. QED BY <1>2, PoolAssumption DEF Message

LEMMA FreshPost ==
  ASSUME IInv, FreshInv, NEW p \in Producers, ppc[p] = "locked"
  PROVE  asmsg[p] \notin Among(accepted)
<1>1. asmsg[p].from = p /\ asmsg[p].nr = sent[p] - 1 /\ asmsg[p] \in Message
  BY DEF FreshInv, IInv, ProducersOK
<1>2. ASSUME asmsg[p] \in Among(accepted) PROVE FALSE
  <2>1. asmsg[p].nr < sent[p] - 1
    BY <1>1, <1>2 DEF FreshInv
  <2>2. sent[p] \in Int
    BY DEF IInv, TypeOK
  <2>3. QED BY <1>1, <2>1, <2>2
<1>3. QED BY <1>2

LEMMA FreshSame ==
  ASSUME FreshInv, UNCHANGED <<producerVars, accepted>>
  PROVE  FreshInv'
BY DEF FreshInv, producerVars, Once, Among

LEMMA FreshPostCall ==
  ASSUME IInv, FreshInv, NEW p \in Producers, NEW s \in Sinks, PostCall(p, s)
  PROVE  FreshInv'
<1>1. /\ asmsg' = [asmsg EXCEPT ![p] = [from |-> p, nr |-> sent[p], sink |-> s]]
      /\ sent' = [sent EXCEPT ![p] = @ + 1]
      /\ ppc' = [ppc EXCEPT ![p] = "lock"]
      /\ accepted' = accepted /\ ppc[p] = "idle"
  BY DEF PostCall, historyVars
<1>2. /\ asmsg'[p].from = p /\ asmsg'[p].nr = sent[p] /\ sent'[p] = sent[p] + 1
      /\ ppc'[p] = "lock" /\ sent[p] \in Int
      /\ \A q \in Producers \ {p} :
           asmsg'[q] = asmsg[q] /\ sent'[q] = sent[q] /\ ppc'[q] = ppc[q]
  BY <1>1 DEF IInv, TypeOK
<1>3. ASSUME NEW q \in Producers, ppc'[q] # "idle"
      PROVE  asmsg'[q].from = q /\ asmsg'[q].nr = sent'[q] - 1
  BY <1>2, <1>3 DEF FreshInv
<1>4. ASSUME NEW m \in Among(accepted)
      PROVE  /\ m.nr < sent'[m.from]
             /\ ppc'[m.from] \in {"lock", "locked"} => m.nr < sent'[m.from] - 1
  <2>1. m \in Message /\ m.from \in Producers /\ m.nr \in Int
    BY AcceptedMessages
  <2>2. /\ m.nr < sent[m.from]
        /\ ppc[m.from] \in {"lock", "locked"} => m.nr < sent[m.from] - 1
    BY DEF FreshInv
  <2>3. CASE m.from = p
    BY <1>2, <2>1, <2>2, <2>3
  <2>4. CASE m.from # p
    BY <1>2, <2>1, <2>2, <2>4
  <2>5. QED BY <2>3, <2>4
<1>5. Once(accepted') /\ Among(accepted') = Among(accepted)
  BY <1>1 DEF FreshInv, Once, Among
<1>6. QED BY <1>3, <1>4, <1>5 DEF FreshInv

LEMMA FreshPostPush ==
  ASSUME IInv, FreshInv, NEW p \in Producers, PostPush(p)
  PROVE  FreshInv'
<1> DEFINE m == asmsg[p]
<1>1. /\ accepted' = Append(accepted, m) /\ m \in Message /\ ppc[p] = "locked"
      /\ ppc' = [ppc EXCEPT ![p] = "notify"] /\ asmsg' = asmsg /\ sent' = sent
  BY PushMoves DEF PostPush
<1>2. m.from = p /\ m.nr = sent[p] - 1 /\ sent[p] \in Int
  BY <1>1 DEF FreshInv, IInv, TypeOK
<1>3. m \notin Among(accepted)
  BY <1>1, FreshPost
<1>4. accepted \in Seq(Message)
  BY HeldMessages
<1> HIDE DEF m
<1>5. Among(accepted') = Among(accepted) \cup {m} /\ Once(accepted')
  BY <1>1, <1>3, <1>4, AtTheEnd DEF FreshInv
<1>6. ppc'[p] = "notify" /\ \A q \in Producers \ {p} : ppc'[q] = ppc[q]
  BY <1>1 DEF IInv, TypeOK
<1>7. ASSUME NEW q \in Producers, ppc'[q] # "idle"
      PROVE  asmsg'[q].from = q /\ asmsg'[q].nr = sent'[q] - 1
  BY <1>1, <1>6, <1>7 DEF FreshInv
<1>8. ASSUME NEW k \in Among(accepted')
      PROVE  /\ k.nr < sent'[k.from]
             /\ ppc'[k.from] \in {"lock", "locked"} => k.nr < sent'[k.from] - 1
  <2>1. CASE k = m
    BY <1>1, <1>2, <1>6, <2>1
  <2>2. CASE k # m
    <3>1. k \in Among(accepted) /\ k.from \in Producers
      BY <1>5, <2>2, AcceptedMessages
    <3>2. CASE k.from = p
      BY <1>1, <1>6, <3>1, <3>2 DEF FreshInv
    <3>3. CASE k.from # p
      BY <1>1, <1>6, <3>1, <3>3 DEF FreshInv
    <3>4. QED BY <3>2, <3>3
  <2>3. QED BY <2>1, <2>2
<1>9. QED BY <1>5, <1>7, <1>8 DEF FreshInv

(* The producer is on its way out, or in, with the same message.           *)
LEMMA FreshPostElse ==
  ASSUME IInv, FreshInv, NEW p \in Producers,
         PostLock(p) \/ PostReject(p) \/ PostNotify(p)
  PROVE  FreshInv'
<1>1. /\ accepted' = accepted /\ sent' = sent
      /\ \A q \in Producers :
           /\ ppc'[q] # "idle" => ppc[q] # "idle" /\ asmsg'[q] = asmsg[q]
           /\ ppc'[q] \in {"lock", "locked"} => ppc[q] \in {"lock", "locked"}
  BY DEF PostLock, PostReject, PostNotify, historyVars, IInv, TypeOK
<1>2. \A m \in Among(accepted) : m.from \in Producers
  BY AcceptedMessages
<1>3. Once(accepted') /\ Among(accepted') = Among(accepted)
  BY <1>1 DEF FreshInv, Once, Among
<1>4. QED BY <1>1, <1>2, <1>3 DEF FreshInv

LEMMA FreshStep ==
  ASSUME IInv, FreshInv, [Next]_vars
  PROVE  FreshInv'
<1>1. ASSUME NEW w \in Workers, WorkerStep(w) \/ SpuriousWake(w)
      PROVE  UNCHANGED <<producerVars, accepted>>
  BY <1>1 DEF WorkerStep, WorkerLock, WorkerCheck, WorkerBlock, WorkerExit,
              WorkerCopy, WorkerPop, WorkerLog, SpuriousWake, historyVars
<1>2. ASSUME DtorStop \/ DtorStep PROVE UNCHANGED <<producerVars, accepted>>
  BY <1>2 DEF DtorStop, DtorStep, DtorNotifyAll, DtorJoin, DtorFinish, historyVars
<1>3. ASSUME UNCHANGED vars PROVE UNCHANGED <<producerVars, accepted>>
  BY <1>3 DEF vars, historyVars
<1>4. ASSUME NEW p \in Producers, ProducerStep(p) \/ \E s \in Sinks : PostCall(p, s)
      PROVE  FreshInv'
  BY <1>4, FreshPostCall, FreshPostPush, FreshPostElse DEF ProducerStep
<1>5. QED BY <1>1, <1>2, <1>3, <1>4, FreshSame DEF Next, Over

LEMMA CopyStep ==
  ASSUME IInv, CopyInv, [Next]_vars
  PROVE  CopyInv'
<1>1. ASSUME NEW p \in Producers, ProducerStep(p) \/ \E s \in Sinks : PostCall(p, s)
      PROVE  CopyInv'
  BY <1>1 DEF ProducerStep, PostLock, PostReject, PostPush, PostNotify, PostCall,
              NotifyOne, Waiting, workerVars, CopyInv, IInv, TypeOK
<1>2. ASSUME NEW w \in Workers, WorkerStep(w) \/ SpuriousWake(w)
      PROVE  CopyInv'
  <2>1. CASE WorkerCopy(w)
    BY <2>1 DEF WorkerCopy, CopyInv, IInv, TypeOK
  <2>2. CASE WorkerPop(w) \/ WorkerLog(w)
    BY <2>2 DEF WorkerPop, WorkerLog, CopyInv, IInv, TypeOK
  <2>3. CASE WorkerLock(w) \/ WorkerCheck(w) \/ WorkerBlock(w) \/ WorkerExit(w)
             \/ SpuriousWake(w)
    BY <2>3 DEF WorkerLock, WorkerCheck, WorkerBlock, WorkerExit, SpuriousWake,
                CopyInv, IInv, TypeOK
  <2>4. QED BY <1>2, <2>1, <2>2, <2>3 DEF WorkerStep
<1>3. ASSUME DtorStop \/ DtorStep \/ UNCHANGED vars PROVE CopyInv'
  BY <1>3 DEF DtorStop, DtorStep, DtorNotifyAll, DtorJoin, DtorFinish, NotifyAll,
              Waiting, vars, workerVars, CopyInv, IInv, TypeOK
<1>4. QED BY <1>1, <1>2, <1>3 DEF Next, Over

-----------------------------------------------------------------------------
(* What waits is what was accepted last                                    *)

EndOf(q, a) ==
  /\ Len(q) <= Len(a)
  /\ \A i \in 1 .. Len(q) : q[i] = a[Len(a) - Len(q) + i]

LEMMA EndGrows ==
  ASSUME NEW q \in Seq(Message), NEW a \in Seq(Message), NEW m \in Message, EndOf(q, a)
  PROVE  EndOf(Append(q, m), Append(a, m))
<1>1. Len(q) \in Nat /\ Len(a) \in Nat
  BY LenProperties
<1>2. /\ Len(Append(q, m)) = Len(q) + 1 /\ Len(Append(a, m)) = Len(a) + 1
      /\ \A i \in 1 .. Len(q) : Append(q, m)[i] = q[i]
      /\ \A i \in 1 .. Len(a) : Append(a, m)[i] = a[i]
      /\ Append(q, m)[Len(q) + 1] = m /\ Append(a, m)[Len(a) + 1] = m
  BY AtTheEnd
<1>3. ASSUME NEW i \in 1 .. Len(q) + 1
      PROVE  Append(q, m)[i] = Append(a, m)[Len(a) - Len(q) + i]
  <2>1. CASE i = Len(q) + 1
    BY <1>1, <1>2, <2>1
  <2>2. CASE i # Len(q) + 1
    <3>1. i \in 1 .. Len(q) /\ Len(a) - Len(q) + i \in 1 .. Len(a)
      BY <1>1, <2>2 DEF EndOf
    <3>2. QED BY <1>2, <3>1 DEF EndOf
  <2>3. QED BY <2>1, <2>2
<1> DEFINE q1 == Append(q, m)
           a1 == Append(a, m)
<1>4. /\ Len(q1) = Len(q) + 1 /\ Len(a1) = Len(a) + 1
      /\ \A i \in 1 .. Len(q) + 1 : q1[i] = a1[Len(a) - Len(q) + i]
      /\ Len(q) <= Len(a)
  BY <1>2, <1>3 DEF EndOf
<1> HIDE DEF q1, a1
<1>5. /\ Len(q1) <= Len(a1) /\ Len(a1) - Len(q1) = Len(a) - Len(q)
      /\ 1 .. Len(q1) = 1 .. Len(q) + 1
  BY <1>1, <1>4
<1>6. EndOf(q1, a1)
  BY <1>4, <1>5 DEF EndOf
<1>7. QED BY <1>6 DEF q1, a1

LEMMA EndShrinks ==
  ASSUME NEW q \in Seq(Message), NEW a \in Seq(Message), q # << >>, EndOf(q, a)
  PROVE  EndOf(Tail(q), a) /\ Head(q) = a[Len(a) - Len(q) + 1]
<1>1. /\ Len(q) \in Nat /\ Len(a) \in Nat /\ Len(q) > 0
      /\ Len(Tail(q)) = Len(q) - 1 /\ Head(q) = q[1]
      /\ \A i \in 1 .. Len(q) - 1 : Tail(q)[i] = q[i + 1]
  BY FromTheFront, LenProperties
<1>2. ASSUME NEW i \in 1 .. Len(q) - 1
      PROVE  Tail(q)[i] = a[Len(a) - (Len(q) - 1) + i]
  <2>1. i + 1 \in 1 .. Len(q) /\ Len(a) - Len(q) + (i + 1) = Len(a) - (Len(q) - 1) + i
    BY <1>1
  <2>2. QED BY <1>1, <2>1 DEF EndOf
<1>3. 1 \in 1 .. Len(q)
  BY <1>1
<1>4. QED BY <1>1, <1>2, <1>3 DEF EndOf

LEMMA EndIsOnce ==
  ASSUME NEW q \in Seq(Message), NEW a \in Seq(Message), EndOf(q, a), Once(a)
  PROVE  Once(q)
<1>1. /\ Len(q) \in Nat /\ Len(a) \in Nat
      /\ DOMAIN q = 1 .. Len(q) /\ DOMAIN a = 1 .. Len(a)
  BY LenProperties
<1>2. ASSUME NEW i \in 1 .. Len(q), NEW j \in 1 .. Len(q), q[i] = q[j] PROVE i = j
  <2>1. /\ Len(q) <= Len(a)
        /\ q[i] = a[Len(a) - Len(q) + i] /\ q[j] = a[Len(a) - Len(q) + j]
    BY DEF EndOf
  <2>2. Len(a) - Len(q) + i \in 1 .. Len(a) /\ Len(a) - Len(q) + j \in 1 .. Len(a)
    BY <1>1, <2>1
  <2>3. Len(a) - Len(q) + i = Len(a) - Len(q) + j
    BY <1>1, <1>2, <2>1, <2>2 DEF Once
  <2>4. QED BY <1>1, <2>3
<1>3. QED BY <1>1, <1>2 DEF Once

LEMMA NewestIsEnd ==
  NewestInv <=> EndOf(Contents, accepted)
BY DEF NewestInv, EndOf, Gone

LEMMA KeptMessages ==
  ASSUME IInv, FreshInv, NewestInv
  PROVE  /\ Kept \in Seq(Message) /\ EndOf(Kept, accepted)
         /\ Among(Contents) = Among(Kept) \cup Displaced
         /\ Displaced \cap Among(Kept) = {}
<1>1. /\ Contents \in Seq(Message) /\ accepted \in Seq(Message)
      /\ EndOf(Contents, accepted) /\ Once(Contents)
  BY HeldMessages, NewestIsEnd, EndIsOnce DEF FreshInv
<1>2. CASE Len(Contents) = Cells - 1
  <2>1. Contents # << >>
    BY <1>2, CellsAssumption, EmptySeq
  <2>2. Kept = Tail(Contents) /\ Displaced = {Head(Contents)}
    BY <1>2 DEF Kept, Displaced
  <2>3. EndOf(Tail(Contents), accepted)
    BY <1>1, <2>1, EndShrinks
  <2>4. QED BY <1>1, <2>1, <2>2, <2>3, FromTheFront
<1>3. CASE Len(Contents) # Cells - 1
  BY <1>1, <1>3 DEF Kept, Displaced
<1>4. QED BY <1>2, <1>3

LEMMA NewestStep ==
  ASSUME IInv, FreshInv, NewestInv, [Next]_vars
  PROVE  NewestInv'
<1>1. /\ Contents \in Seq(Message) /\ accepted \in Seq(Message)
      /\ EndOf(Contents, accepted)
  BY HeldMessages, NewestIsEnd
<1>2. ASSUME NEW p \in Producers, PostPush(p) PROVE EndOf(Contents', accepted')
  BY <1>1, <1>2, PushMoves, KeptMessages, EndGrows
<1>3. ASSUME NEW w \in Workers, WorkerPop(w) PROVE EndOf(Contents', accepted')
  BY <1>1, <1>3, PopMoves, EndShrinks
<1>4. ASSUME NEW w \in Workers, WorkerLog(w) PROVE EndOf(Contents', accepted')
  BY <1>1, <1>4, LogMoves
<1>5. ASSUME UNCHANGED Visible PROVE EndOf(Contents', accepted')
  BY <1>1, <1>5 DEF Visible
<1>6. EndOf(Contents', accepted')
  BY <1>2, <1>3, <1>4, <1>5, StepKinds
<1>7. QED BY <1>6 DEF NewestInv, EndOf, Gone

-----------------------------------------------------------------------------
(* Every message is in its place                                           *)

LEMMA PlacesPush ==
  ASSUME IInv, FreshInv, NewestInv, PlacesInv, NEW p \in Producers, PostPush(p)
  PROVE  PlacesInv'
<1> DEFINE m == asmsg[p]
<1>1. /\ m \in Message /\ m \notin Among(accepted)
      /\ Contents' = Append(Kept, m) /\ accepted' = Append(accepted, m)
      /\ evicted' = evicted \cup Displaced /\ Held' = Held /\ logged' = logged
  BY PushMoves, FreshPost
<1>2. InFlight' = InFlight
  BY DEF PostPush, workerVars, InFlight
<1>3. /\ Among(Contents) = Among(Kept) \cup Displaced
      /\ Displaced \cap Among(Kept) = {}
      /\ Kept \in Seq(Message) /\ accepted \in Seq(Message)
  BY KeptMessages, HeldMessages
<1> HIDE DEF m
<1>4. /\ Among(Contents') = Among(Kept) \cup {m}
      /\ Among(accepted') = Among(accepted) \cup {m}
      /\ Among(logged') = Among(logged)
  BY <1>1, <1>3, AtTheEnd
<1>5. Once(logged') /\ \A v, w \in Workers : Held'[v] = Held'[w] /\ Held'[v] # NoMsg => v = w
  BY <1>1 DEF PlacesInv
<1>6. /\ Among(Contents) \cap InFlight = {}
      /\ evicted \cap (Among(Contents) \cup InFlight) = {}
      /\ Among(logged) \cap (Among(Contents) \cup InFlight \cup evicted) = {}
      /\ Among(Contents) \cup InFlight \cup evicted \cup Among(logged)
           \subseteq Among(accepted)
  BY DEF PlacesInv
<1>7. Among(Contents') \cap InFlight' = {}
  BY <1>1, <1>2, <1>3, <1>4, <1>6
<1>8. evicted' \cap (Among(Contents') \cup InFlight') = {}
  BY <1>1, <1>2, <1>3, <1>4, <1>6
<1>9. Among(logged') \cap (Among(Contents') \cup InFlight' \cup evicted') = {}
  BY <1>1, <1>2, <1>3, <1>4, <1>6
<1>10. Among(Contents') \cup InFlight' \cup evicted' \cup Among(logged')
         \subseteq Among(accepted')
  BY <1>1, <1>2, <1>3, <1>4, <1>6
<1>11. ASSUME NEW k \in Among(accepted'), HasSink(k)
       PROVE  k \in Among(Contents') \cup InFlight' \cup evicted' \cup Among(logged')
  BY <1>1, <1>2, <1>3, <1>4, <1>11 DEF PlacesInv
<1>12. QED BY <1>5, <1>7, <1>8, <1>9, <1>10, <1>11 DEF PlacesInv

LEMMA PlacesPop ==
  ASSUME IInv, FreshInv, NewestInv, PlacesInv, NEW w \in Workers, WorkerPop(w)
  PROVE  PlacesInv'
<1> DEFINE h == Head(Contents)
<1>1. /\ Held[w] = NoMsg /\ Contents # << >>
      /\ Held' = [Held EXCEPT ![w] = h] /\ Contents' = Tail(Contents)
      /\ logged' = logged /\ evicted' = evicted /\ accepted' = accepted
  BY PopMoves
<1>2. Contents \in Seq(Message) /\ Once(Contents)
  BY HeldMessages, NewestIsEnd, EndIsOnce DEF FreshInv
<1>3. /\ h \in Message /\ h # NoMsg /\ h \notin Among(Contents')
      /\ Among(Contents) = {h} \cup Among(Contents')
  BY <1>1, <1>2, FromTheFront, MarkerAssumption
<1> HIDE DEF h
<1>4. /\ Held'[w] = h /\ \A v \in Workers \ {w} : Held'[v] = Held[v]
      /\ InFlight = {Held[v] : v \in Workers} \ {NoMsg}
  BY <1>1, HeldMessages
<1>5. InFlight' = {Held'[v] : v \in Workers} \ {NoMsg}
  BY StepIInv, HeldNext DEF Next, WorkerStep
<1>6. InFlight' = InFlight \cup {h}
  BY <1>1, <1>3, <1>4, <1>5
<1>7. /\ Among(accepted') = Among(accepted)
      /\ Among(logged') = Among(logged) /\ Once(logged')
  BY <1>1 DEF PlacesInv
<1>8. /\ Among(Contents) \cap InFlight = {}
      /\ evicted \cap (Among(Contents) \cup InFlight) = {}
      /\ Among(logged) \cap (Among(Contents) \cup InFlight \cup evicted) = {}
      /\ Among(Contents) \cup InFlight \cup evicted \cup Among(logged)
           \subseteq Among(accepted)
  BY DEF PlacesInv
<1>9. ASSUME NEW u \in Workers, NEW v \in Workers, Held'[u] = Held'[v], Held'[u] # NoMsg
      PROVE  u = v
  <2>1. h \notin InFlight
    BY <1>3, <1>8
  <2>2. \A x \in Workers : Held[x] # h
    BY <1>3, <1>4, <2>1
  <2>3. CASE u = w \/ v = w
    BY <1>4, <1>9, <2>2, <2>3
  <2>4. CASE u # w /\ v # w
    BY <1>4, <1>9, <2>4 DEF PlacesInv
  <2>5. QED BY <2>3, <2>4
<1>10. Among(Contents') \cap InFlight' = {}
  BY <1>3, <1>6, <1>8
<1>11. evicted' \cap (Among(Contents') \cup InFlight') = {}
  BY <1>1, <1>3, <1>6, <1>8
<1>12. Among(logged') \cap (Among(Contents') \cup InFlight' \cup evicted') = {}
  BY <1>1, <1>3, <1>6, <1>7, <1>8
<1>13. Among(Contents') \cup InFlight' \cup evicted' \cup Among(logged')
         \subseteq Among(accepted')
  BY <1>1, <1>3, <1>6, <1>7, <1>8
<1>14. ASSUME NEW k \in Among(accepted'), HasSink(k)
       PROVE  k \in Among(Contents') \cup InFlight' \cup evicted' \cup Among(logged')
  BY <1>1, <1>3, <1>6, <1>7, <1>14 DEF PlacesInv
<1>15. QED BY <1>7, <1>9, <1>10, <1>11, <1>12, <1>13, <1>14 DEF PlacesInv

LEMMA PlacesLog ==
  ASSUME IInv, PlacesInv, NEW w \in Workers, WorkerLog(w)
  PROVE  PlacesInv'
<1> DEFINE m == Held[w]
<1>1. /\ m \in Message /\ m # NoMsg /\ Held' = [Held EXCEPT ![w] = NoMsg]
      /\ logged' = IF HasSink(m) THEN Append(logged, m) ELSE logged
      /\ Contents' = Contents /\ evicted' = evicted /\ accepted' = accepted
  BY LogMoves, MarkerAssumption
<1>2. /\ InFlight = {Held[v] : v \in Workers} \ {NoMsg}
      /\ Held'[w] = NoMsg /\ \A v \in Workers \ {w} : Held'[v] = Held[v]
  BY <1>1, HeldMessages
<1>3. InFlight' = {Held'[v] : v \in Workers} \ {NoMsg}
  BY StepIInv, HeldNext DEF Next, WorkerStep
<1>4. \A u, v \in Workers : Held[u] = Held[v] /\ Held[u] # NoMsg => u = v
  BY DEF PlacesInv
<1>5. InFlight' = InFlight \ {m} /\ m \in InFlight
  <2>1. m \in InFlight
    BY <1>1, <1>2
  <2>2. \A v \in Workers \ {w} : Held[v] # m
    BY <1>1, <1>4
  <2> HIDE DEF m
  <2>3. InFlight' \subseteq InFlight \ {m}
    BY <1>2, <1>3, <2>2
  <2>4. InFlight \ {m} \subseteq InFlight'
    <3>1. ASSUME NEW k \in InFlight, k # m PROVE k \in InFlight'
      <4>1. PICK v \in Workers : k = Held[v] /\ k # NoMsg
        BY <1>2
      <4>2. v # w
        BY <3>1, <4>1 DEF m
      <4>3. QED BY <1>2, <1>3, <4>1, <4>2
    <3>2. QED BY <3>1
  <2>5. QED BY <2>1, <2>3, <2>4
<1>6. \A u, v \in Workers : Held'[u] = Held'[v] /\ Held'[u] # NoMsg => u = v
  BY <1>2, <1>4
<1> HIDE DEF m
<1>7. /\ Among(Contents) \cap InFlight = {}
      /\ evicted \cap (Among(Contents) \cup InFlight) = {}
      /\ Among(logged) \cap (Among(Contents) \cup InFlight \cup evicted) = {}
      /\ Among(Contents) \cup InFlight \cup evicted \cup Among(logged)
           \subseteq Among(accepted)
  BY DEF PlacesInv
<1>8. /\ Among(Contents') = Among(Contents) /\ Among(accepted') = Among(accepted)
      /\ Among(logged') = IF HasSink(m) THEN Among(logged) \cup {m} ELSE Among(logged)
      /\ Once(logged')
  <2>1. logged \in Seq(Message) /\ Once(logged) /\ m \notin Among(logged)
    BY <1>5, <1>7 DEF IInv, TypeOK, PlacesInv
  <2>2. QED BY <1>1, <2>1, AtTheEnd
<1>9. Among(Contents') \cap InFlight' = {}
  BY <1>5, <1>7, <1>8
<1>10. evicted' \cap (Among(Contents') \cup InFlight') = {}
  BY <1>1, <1>5, <1>7, <1>8
<1>11. Among(logged') \cap (Among(Contents') \cup InFlight' \cup evicted') = {}
  BY <1>1, <1>5, <1>7, <1>8
<1>12. Among(Contents') \cup InFlight' \cup evicted' \cup Among(logged')
         \subseteq Among(accepted')
  BY <1>1, <1>5, <1>7, <1>8
<1>13. ASSUME NEW k \in Among(accepted'), HasSink(k)
       PROVE  k \in Among(Contents') \cup InFlight' \cup evicted' \cup Among(logged')
  <2>1. k \in Among(Contents) \cup InFlight \cup evicted \cup Among(logged)
    BY <1>8, <1>13 DEF PlacesInv
  <2>2. QED BY <1>1, <1>5, <1>8, <1>13, <2>1
<1>14. QED BY <1>6, <1>8, <1>9, <1>10, <1>11, <1>12, <1>13 DEF PlacesInv

LEMMA PlacesStep ==
  ASSUME IInv, FreshInv, NewestInv, PlacesInv, [Next]_vars
  PROVE  PlacesInv'
<1>1. ASSUME UNCHANGED Visible PROVE PlacesInv'
  <2>1. /\ Contents' = Contents /\ evicted' = evicted /\ accepted' = accepted
        /\ logged' = logged /\ Held' = Held
    BY <1>1 DEF Visible
  <2>2. InFlight' = InFlight
    BY <2>1, HeldMessages, StepIInv, HeldNext
  <2>3. QED BY <2>1, <2>2 DEF PlacesInv, Among, Once
<1>2. QED BY <1>1, StepKinds, PlacesPush, PlacesPop, PlacesLog

-----------------------------------------------------------------------------
(* Overtaking                                                              *)

LEMMA OvertakePush ==
  ASSUME IInv, FreshInv, PlacesInv, OvertakeInv, NEW p \in Producers, PostPush(p)
  PROVE  OvertakeInv'
<1> DEFINE m == asmsg[p]
<1>1. /\ m \in Message /\ m \notin Among(accepted)
      /\ accepted' = Append(accepted, m) /\ Held' = Held /\ logged' = logged
  BY PushMoves, FreshPost
<1>2. /\ accepted \in Seq(Message) /\ Len(accepted) \in Nat
      /\ DOMAIN accepted = 1 .. Len(accepted)
  BY HeldMessages
<1> HIDE DEF m
<1>3. /\ DOMAIN accepted' = 1 .. Len(accepted) + 1
      /\ \A i \in 1 .. Len(accepted) : accepted'[i] = accepted[i]
      /\ accepted'[Len(accepted) + 1] = m
  BY <1>1, <1>2, AtTheEnd, LenProperties
<1>4. Among(logged') = Among(logged) /\ m \notin Among(logged)
  BY <1>1 DEF PlacesInv
<1>5. ASSUME NEW j \in DOMAIN accepted', accepted'[j] \in Among(logged')
      PROVE  \E v \in Workers : \A i \in 1 .. j - 1 : Held'[v] # accepted'[i]
  <2>1. j \in DOMAIN accepted /\ accepted[j] \in Among(logged)
    BY <1>2, <1>3, <1>4, <1>5
  <2>2. PICK v \in Workers : \A i \in 1 .. j - 1 : Held[v] # accepted[i]
    BY <2>1 DEF OvertakeInv
  <2>3. \A i \in 1 .. j - 1 : i \in 1 .. Len(accepted)
    BY <1>2, <2>1
  <2>4. QED BY <1>1, <1>3, <2>2, <2>3
<1>6. QED BY <1>5 DEF OvertakeInv

(* What has been logged was accepted before anything that still waits.     *)
LEMMA LoggedIsGone ==
  ASSUME IInv, NewestInv, PlacesInv,
         NEW j \in DOMAIN accepted, accepted[j] \in Among(logged)
  PROVE  j <= Gone
<1>1. /\ Len(Contents) \in Nat /\ DOMAIN Contents = 1 .. Len(Contents)
      /\ Len(accepted) \in Nat /\ DOMAIN accepted = 1 .. Len(accepted)
  BY HeldMessages
<1>2. Gone \in Nat
  BY <1>1 DEF NewestInv, Gone
<1>3. CASE j > Gone
  <2>1. j - Gone \in 1 .. Len(Contents) /\ Gone + (j - Gone) = j
    BY <1>1, <1>2, <1>3 DEF Gone
  <2>2. Contents[j - Gone] = accepted[j]
    BY <2>1 DEF NewestInv
  <2>3. accepted[j] \in Among(Contents)
    BY <1>1, <2>1, <2>2 DEF Among
  <2>4. QED BY <2>3 DEF PlacesInv
<1>4. QED BY <1>1, <1>2, <1>3

LEMMA OvertakePop ==
  ASSUME IInv, FreshInv, NewestInv, PlacesInv, OvertakeInv,
         NEW w \in Workers, WorkerPop(w)
  PROVE  OvertakeInv'
<1> DEFINE h == Head(Contents)
<1>1. /\ Contents # << >> /\ Held' = [Held EXCEPT ![w] = h]
      /\ logged' = logged /\ accepted' = accepted
  BY PopMoves
<1>2. /\ Contents \in Seq(Message) /\ Len(Contents) \in Nat
      /\ DOMAIN Contents = 1 .. Len(Contents)
      /\ Len(accepted) \in Nat /\ DOMAIN accepted = 1 .. Len(accepted)
      /\ Held \in [Workers -> Message \cup {NoMsg}]
  BY HeldMessages
<1>3. h = Contents[1] /\ Len(Contents) > 0
  BY <1>1, <1>2, FromTheFront
<1> HIDE DEF h
<1>4. /\ Len(Contents) <= Len(accepted)
      /\ Gone \in Nat /\ Gone + 1 \in DOMAIN accepted /\ h = accepted[Gone + 1]
  BY <1>2, <1>3 DEF NewestInv, Gone
<1>5. ASSUME NEW j \in DOMAIN accepted, accepted[j] \in Among(logged)
      PROVE  j <= Gone
  BY <1>5, LoggedIsGone
<1>6. ASSUME NEW j \in DOMAIN accepted, accepted[j] \in Among(logged)
      PROVE  \E v \in Workers : \A i \in 1 .. j - 1 : Held'[v] # accepted[i]
  <2>1. PICK v \in Workers : \A i \in 1 .. j - 1 : Held[v] # accepted[i]
    BY <1>6 DEF OvertakeInv
  <2>2. \A i \in 1 .. j - 1 : i \in DOMAIN accepted /\ i # Gone + 1
    BY <1>2, <1>4, <1>5, <1>6
  <2>3. \A i \in 1 .. j - 1 : h # accepted[i]
    BY <1>4, <2>2 DEF FreshInv, Once
  <2>4. Held'[v] = Held[v] \/ Held'[v] = h
    BY <1>1, <1>2
  <2>5. QED BY <2>1, <2>3, <2>4
<1>7. QED BY <1>1, <1>6 DEF OvertakeInv

LEMMA OvertakeLog ==
  ASSUME IInv, OvertakeInv, NEW w \in Workers, WorkerLog(w)
  PROVE  OvertakeInv'
<1> DEFINE m == Held[w]
<1>1. /\ m \in Message /\ Held' = [Held EXCEPT ![w] = NoMsg]
      /\ logged' = IF HasSink(m) THEN Append(logged, m) ELSE logged
      /\ accepted' = accepted
  BY LogMoves
<1>2. /\ accepted \in Seq(Message) /\ Len(accepted) \in Nat
      /\ DOMAIN accepted = 1 .. Len(accepted)
      /\ Held \in [Workers -> Message \cup {NoMsg}]
  BY HeldMessages
<1>3. Held'[w] = NoMsg /\ \A v \in Workers : Held'[v] = Held[v] \/ Held'[v] = NoMsg
  BY <1>1, <1>2
<1> HIDE DEF m
<1>4. Among(logged') \subseteq Among(logged) \cup {m}
  BY <1>1, AtTheEnd DEF IInv, TypeOK
<1>5. \A i \in DOMAIN accepted : accepted[i] # NoMsg
  BY <1>2, MarkerAssumption
<1>6. ASSUME NEW j \in DOMAIN accepted, accepted[j] \in Among(logged')
      PROVE  \E v \in Workers : \A i \in 1 .. j - 1 : Held'[v] # accepted[i]
  <2>1. \A i \in 1 .. j - 1 : accepted[i] # NoMsg
    BY <1>2, <1>5
  <2>2. CASE accepted[j] = m
    BY <1>3, <2>1
  <2>3. CASE accepted[j] # m
    <3>1. PICK v \in Workers : \A i \in 1 .. j - 1 : Held[v] # accepted[i]
      BY <1>4, <1>6, <2>3 DEF OvertakeInv
    <3>2. QED BY <1>3, <2>1, <3>1
  <2>4. QED BY <2>2, <2>3
<1>7. QED BY <1>1, <1>6 DEF OvertakeInv

LEMMA OvertakeStep ==
  ASSUME IInv, FreshInv, NewestInv, PlacesInv, OvertakeInv, [Next]_vars
  PROVE  OvertakeInv'
<1>1. ASSUME UNCHANGED Visible PROVE OvertakeInv'
  BY <1>1 DEF Visible, OvertakeInv, Among
<1>2. QED BY <1>1, StepKinds, OvertakePush, OvertakePop, OvertakeLog

-----------------------------------------------------------------------------
(* The backlog                                                             *)

Active == {w \in Workers : wpc[w] \in {"lock", "check", "ready", "pop"}}

Notifying == {p \in Producers : ppc[p] = "notify"}

Cover == Cardinality(Active) + Cardinality(Notifying)

LEMMA BacklogCover == BacklogIsCovered <=> (Waiting # {} => Len(Contents) <= Cover)
BY DEF BacklogIsCovered, Cover, Active, Notifying

FewThreads ==
  /\ IsFiniteSet(Active) /\ IsFiniteSet(Notifying)
  /\ Cardinality(Active) \in Nat /\ Cardinality(Notifying) \in Nat /\ Cover \in Nat

LEMMA FiniteCover == FewThreads
<1>1. IsFiniteSet(Workers) /\ IsFiniteSet(Producers)
  BY PoolAssumption, FS_Interval DEF Workers
<1>2. IsFiniteSet(Active) /\ IsFiniteSet(Notifying)
  BY <1>1, FS_Subset DEF Active, Notifying
<1>3. Cardinality(Active) \in Nat /\ Cardinality(Notifying) \in Nat
  BY <1>2, FS_CardinalityType
<1>4. QED BY <1>2, <1>3 DEF FewThreads, Cover

LEMMA FiniteCoverNext == FewThreads'
BY FiniteCover, PTL

(* A step that lets more threads look at the same messages is harmless.    *)
LEMMA BacklogMore ==
  ASSUME IInv, BacklogIsCovered, Contents' = Contents, Waiting' \subseteq Waiting,
         Active \subseteq Active', Notifying \subseteq Notifying'
  PROVE  BacklogIsCovered'
<1>1. Cardinality(Active) <= Cardinality(Active')
      /\ Cardinality(Notifying) <= Cardinality(Notifying')
  BY FiniteCoverNext, FS_Subset DEF FewThreads
<1>2. /\ Cardinality(Active) \in Nat /\ Cardinality(Active') \in Nat
      /\ Cardinality(Notifying) \in Nat /\ Cardinality(Notifying') \in Nat
  BY FiniteCover, FiniteCoverNext DEF FewThreads
<1>3. Cover <= Cover'
  BY <1>1, <1>2 DEF Cover
<1>4. Cover \in Nat /\ Cover' \in Nat /\ Len(Contents) \in Nat
  BY <1>2, HeldMessages DEF Cover
<1>5. ASSUME Waiting' # {} PROVE Len(Contents') <= Cover'
  <2>1. Waiting # {}
    BY <1>5
  <2>2. Len(Contents) <= Cover
    BY <2>1, BacklogCover
  <2>3. QED BY <1>3, <1>4, <2>2
<1>6. QED BY <1>5 DEF BacklogIsCovered, Cover, Active, Notifying

LEMMA BacklogNone ==
  ASSUME Waiting' = {} \/ Len(Contents') = 0
  PROVE  BacklogIsCovered'
<1>1. Cover' \in Nat
  BY FiniteCoverNext DEF FewThreads
<1>2. Waiting' # {} => Len(Contents') <= Cover'
  BY <1>1
<1>3. QED BY <1>2 DEF BacklogIsCovered, Cover, Active, Notifying

LEMMA BacklogProducer ==
  ASSUME IInv, BacklogIsCovered, NEW p \in Producers,
         PostLock(p) \/ PostReject(p) \/ \E s \in Sinks : PostCall(p, s)
  PROVE  BacklogIsCovered'
<1>1. UNCHANGED <<bufVars, wpc>>
  BY DEF PostLock, PostReject, PostCall, workerVars
<1>2. Contents' = Contents /\ Waiting' = Waiting /\ Active' = Active
  BY <1>1, BufUnchanged DEF Waiting, Active
<1>3. Notifying \subseteq Notifying'
  BY DEF PostLock, PostReject, PostCall, Notifying, IInv, TypeOK
<1>4. QED BY <1>2, <1>3, BacklogMore

LEMMA BacklogPush ==
  ASSUME IInv, BacklogIsCovered, NEW p \in Producers, PostPush(p)
  PROVE  BacklogIsCovered'
<1>1. asmsg[p] \in Message /\ Contents' = Append(Kept, asmsg[p])
  BY PushMoves
<1>2. Contents \in Seq(Message) /\ Len(Contents) \in Nat
  BY HeldMessages
<1>3. Kept \in Seq(Message) /\ Len(Kept) <= Len(Contents) /\ Len(Kept) \in Nat
  <2>1. CASE Len(Contents) = Cells - 1
    <3>1. Contents # << >>
      BY <2>1, CellsAssumption, EmptySeq
    <3>2. Kept = Tail(Contents)
      BY <2>1 DEF Kept
    <3>3. QED BY <1>2, <3>1, <3>2, FromTheFront
  <2>2. CASE Len(Contents) # Cells - 1
    BY <1>2, <2>2 DEF Kept
  <2>3. QED BY <2>1, <2>2
<1>4. Len(Contents') = Len(Kept) + 1
  BY <1>1, <1>3, AtTheEnd
<1>5. Waiting' = Waiting /\ Active' = Active
  BY DEF PostPush, workerVars, Waiting, Active
<1>6. Notifying' = Notifying \cup {p} /\ p \notin Notifying
  BY DEF PostPush, Notifying, IInv, TypeOK
<1>7. Cardinality(Notifying') = Cardinality(Notifying) + 1
  BY <1>6, FiniteCover, FS_AddElement DEF FewThreads
<1>8. Cover' = Cover + 1 /\ Cover \in Nat
  BY <1>5, <1>7, FiniteCover DEF FewThreads, Cover
<1>9. ASSUME Waiting' # {} PROVE Len(Contents') <= Cover'
  <2>1. Len(Contents) <= Cover
    BY <1>5, <1>9, BacklogCover
  <2>2. QED BY <1>2, <1>3, <1>4, <1>8, <2>1
<1>10. QED BY <1>9 DEF BacklogIsCovered, Cover, Active, Notifying

LEMMA BacklogNotify ==
  ASSUME IInv, BacklogIsCovered, NEW p \in Producers, PostNotify(p)
  PROVE  BacklogIsCovered'
<1>1. CASE Waiting = {} /\ UNCHANGED wpc
  <2>1. Waiting' = {}
    BY <1>1 DEF Waiting
  <2>2. QED BY <2>1, BacklogNone
<1>2. ASSUME NEW w \in Waiting, wpc' = [wpc EXCEPT ![w] = "lock"]
      PROVE  BacklogIsCovered'
  <2>1. Active' = Active \cup {w} /\ w \notin Active
    BY <1>2 DEF Active, Waiting, IInv, TypeOK
  <2>2. Notifying' = Notifying \ {p} /\ p \in Notifying
    BY DEF PostNotify, Notifying, IInv, TypeOK
  <2>3. /\ Cardinality(Active') = Cardinality(Active) + 1
        /\ Cardinality(Notifying') = Cardinality(Notifying) - 1
    BY <2>1, <2>2, FiniteCover, FS_AddElement, FS_RemoveElement DEF FewThreads
  <2>4. Cover' = Cover
    BY <2>3, FiniteCover DEF FewThreads, Cover
  <2>5. Contents' = Contents
    BY BufUnchanged DEF PostNotify
  <2>6. Len(Contents) <= Cover
    BY <1>2, BacklogCover
  <2>7. Len(Contents') <= Cover'
    BY <2>4, <2>5, <2>6
  <2>8. QED BY <2>7 DEF BacklogIsCovered, Cover, Active, Notifying
<1>3. QED BY <1>1, <1>2 DEF PostNotify, NotifyOne

(* A worker that stops looking has seen that nothing waits.                *)
LEMMA BacklogSeenEmpty ==
  ASSUME IInv, NEW w \in Workers,
         \/ WorkerCheck(w) /\ ~WaitIsOver
         \/ WorkerBlock(w)
         \/ WorkerExit(w)
  PROVE  BacklogIsCovered'
<1>1. Empty
  BY DEF WorkerBlock, WorkerExit, WaitIsOver, Finished, IInv, WorkersOK
<1>2. Contents = << >>
  BY <1>1, InvBuf, LengthTests DEF IInv
<1>3. Contents' = Contents
  BY BufUnchanged DEF WorkerCheck, WorkerBlock, WorkerExit
<1>4. Len(Contents') = 0
  BY <1>2, <1>3, EmptySeq
<1>5. QED BY <1>4, BacklogNone

LEMMA BacklogStillLooking ==
  ASSUME IInv, BacklogIsCovered, NEW w \in Workers,
         \/ WorkerLock(w) \/ WorkerCopy(w) \/ WorkerLog(w) \/ SpuriousWake(w)
         \/ WorkerCheck(w) /\ WaitIsOver
  PROVE  BacklogIsCovered'
<1>1. Contents' = Contents
  BY BufUnchanged
  DEF WorkerLock, WorkerCopy, WorkerLog, SpuriousWake, WorkerCheck
<1>2. ppc' = ppc
  BY DEF WorkerLock, WorkerCopy, WorkerLog, SpuriousWake, WorkerCheck, producerVars
<1>3. Waiting' \subseteq Waiting /\ Active \subseteq Active'
  BY DEF WorkerLock, WorkerCopy, WorkerLog, SpuriousWake, WorkerCheck,
         Waiting, Active, IInv, TypeOK
<1>4. Notifying' = Notifying
  BY <1>2 DEF Notifying
<1>5. QED BY <1>1, <1>3, <1>4, BacklogMore

LEMMA BacklogPop ==
  ASSUME IInv, BacklogIsCovered, NEW w \in Workers, WorkerPop(w)
  PROVE  BacklogIsCovered'
<1>1. Contents # << >> /\ Contents' = Tail(Contents) /\ Contents \in Seq(Message)
  BY PopMoves, HeldMessages
<1>2. Len(Contents') = Len(Contents) - 1 /\ Len(Contents) \in Nat
  BY <1>1, FromTheFront, HeldMessages
<1>3. Waiting' = Waiting /\ Active' = Active \ {w} /\ w \in Active
  BY DEF WorkerPop, Waiting, Active, IInv, TypeOK
<1>4. Notifying' = Notifying
  BY DEF WorkerPop, producerVars, Notifying
<1>5. Cardinality(Active') = Cardinality(Active) - 1
  BY <1>3, FiniteCover, FS_RemoveElement DEF FewThreads
<1>6. Cover' = Cover - 1 /\ Cover \in Nat
  BY <1>4, <1>5, FiniteCover DEF FewThreads, Cover
<1>7. ASSUME Waiting' # {} PROVE Len(Contents') <= Cover'
  <2>1. Len(Contents) <= Cover
    BY <1>3, <1>7, BacklogCover
  <2>2. QED BY <1>2, <1>6, <2>1
<1>8. QED BY <1>7 DEF BacklogIsCovered, Cover, Active, Notifying

LEMMA BacklogDtor ==
  ASSUME IInv, BacklogIsCovered, DtorStop \/ DtorStep \/ UNCHANGED vars
  PROVE  BacklogIsCovered'
<1>1. CASE DtorNotifyAll
  <2>1. Waiting' = {}
    BY <1>1 DEF DtorNotifyAll, NotifyAll, Waiting
  <2>2. QED BY <2>1, BacklogNone
<1>2. CASE DtorFinish
  <2>1. Contents' = << >>
    BY <1>2, InvBuf, DestroyAllEffect DEF DtorFinish, IInv
  <2>2. Len(Contents') = 0
    BY <2>1, EmptySeq
  <2>3. QED BY <2>2, BacklogNone
<1>3. CASE DtorStop \/ DtorJoin \/ UNCHANGED vars
  <2>1. UNCHANGED <<bufVars, wpc, ppc>>
    BY <1>3 DEF DtorStop, DtorJoin, vars, workerVars, producerVars
  <2>2. /\ Contents' = Contents /\ Waiting' = Waiting
        /\ Active' = Active /\ Notifying' = Notifying
    BY <2>1, BufUnchanged DEF Waiting, Active, Notifying
  <2>3. QED BY <2>2, BacklogMore
<1>4. QED BY <1>1, <1>2, <1>3 DEF DtorStep

LEMMA BacklogStep ==
  ASSUME IInv, BacklogIsCovered, [Next]_vars
  PROVE  BacklogIsCovered'
<1>1. ASSUME NEW p \in Producers, ProducerStep(p) \/ \E s \in Sinks : PostCall(p, s)
      PROVE  BacklogIsCovered'
  BY <1>1, BacklogProducer, BacklogPush, BacklogNotify DEF ProducerStep
<1>2. ASSUME NEW w \in Workers, WorkerStep(w) \/ SpuriousWake(w)
      PROVE  BacklogIsCovered'
  BY <1>2, BacklogSeenEmpty, BacklogStillLooking, BacklogPop DEF WorkerStep
<1>3. QED BY <1>1, <1>2, BacklogDtor DEF Next, Over

-----------------------------------------------------------------------------
LEMMA InitHInv ==
  ASSUME Init PROVE HInv
<1>1. IInv /\ Contents = << >>
  BY InitIInv
<1>2. /\ accepted = << >> /\ logged = << >> /\ evicted = {}
      /\ Held = [w \in Workers |-> NoMsg]
      /\ InFlight = {} /\ Waiting = {}
  BY DEF Init, Held, InFlight, Waiting
<1>3. /\ DOMAIN accepted = {} /\ Len(accepted) = 0 /\ Len(Contents) = 0
      /\ Among(accepted) = {} /\ Among(logged) = {} /\ Among(Contents) = {}
  BY <1>1, <1>2, EmptySeq DEF Among
<1>4. FreshInv
  BY <1>3 DEF Init, FreshInv, Once
<1>5. CopyInv
  BY DEF Init, CopyInv
<1>6. NewestInv
  BY <1>3 DEF NewestInv
<1>7. PlacesInv
  BY <1>2, <1>3 DEF PlacesInv, Once
<1>8. OvertakeInv
  BY <1>3 DEF OvertakeInv
<1>9. BacklogIsCovered
  BY <1>2 DEF BacklogIsCovered
<1>10. QED BY <1>1, <1>4, <1>5, <1>6, <1>7, <1>8, <1>9 DEF HInv

(* HInv is an invariant of the pool.                                       *)
THEOREM PoolHistoryInvariant == Spec => []HInv
<1>1. Init => HInv
  BY InitHInv
<1>2. HInv /\ [Next]_vars => HInv'
  BY StepIInv, FreshStep, CopyStep, NewestStep, PlacesStep, OvertakeStep,
     BacklogStep
  DEF HInv
<1>3. QED BY <1>1, <1>2, PTL DEF Spec

(* No wakeup is lost: while a worker sleeps, at least as many threads are  *)
(* on their way to the queue, or owe it a notification, as messages wait.  *)
THEOREM PoolBacklogIsCovered == Spec => []BacklogIsCovered
<1>1. HInv => BacklogIsCovered
  BY DEF HInv
<1>2. QED BY <1>1, PoolHistoryInvariant, PTL

(* The queue holds the newest of the accepted messages, in order: what it  *)
(* drops and what the workers take are always the oldest.                  *)
THEOREM PoolQueueIsNewest == Spec => []QueueIsNewest
<1>1. HInv => QueueIsNewest
  <2> SUFFICES ASSUME HInv PROVE QueueIsNewest
    OBVIOUS
  <2>1. /\ Contents \in Seq(Message) /\ Len(Contents) \in Nat
        /\ DOMAIN Contents = 1 .. Len(Contents)
        /\ accepted \in Seq(Message) /\ Len(accepted) \in Nat
        /\ Len(Contents) <= Len(accepted)
        /\ \A i \in 1 .. Len(Contents) : Contents[i] = accepted[Gone + i]
    BY HeldMessages DEF HInv, NewestInv
  <2> DEFINE e == SubSeq(accepted, Gone + 1, Len(accepted))
  <2>2. Gone + 1 \in 1 .. Len(accepted) + 1 /\ Len(accepted) - Gone = Len(Contents)
    BY <2>1 DEF Gone
  <2>3. e = [i \in 1 .. Len(Contents) |-> accepted[i + Gone]]
    BY <2>1, <2>2 DEF Gone
  <2>4. Contents = [i \in 1 .. Len(Contents) |-> Contents[i]]
    BY <2>1
  <2>5. \A i \in 1 .. Len(Contents) : i + Gone = Gone + i
    BY <2>1 DEF Gone
  <2>6. Contents = e
    BY <2>1, <2>3, <2>4, <2>5
  <2>7. QED BY <2>1, <2>6 DEF QueueIsNewest, Gone
<1>2. QED BY <1>1, PoolHistoryInvariant, PTL

(* The workers leave an empty buffer behind, and what was accepted is      *)
(* logged or was dropped by the time the destructor goes on.               *)
THEOREM PoolDrainedWhenJoined == Spec => []DrainedWhenJoined
<1>1. HInv => DrainedWhenJoined
  <2> SUFFICES ASSUME HInv, dpc \in {"joined", "gone"}
               PROVE  /\ Empty
                      /\ \A m \in Among(accepted) :
                           HasSink(m) => m \in evicted \cup Among(logged)
    BY DEF DrainedWhenJoined
  <2>1. \A w \in Workers : wpc[w] = "done"
    BY DEF HInv, IInv, DtorOK
  <2>2. 1 \in Workers
    BY PoolAssumption DEF Workers
  <2>3. Empty
    BY <2>1, <2>2 DEF HInv, IInv, WorkersOK, Finished
  <2>4. Contents = << >>
    BY <2>3, InvBuf, LengthTests DEF HInv, IInv
  <2>5. Among(Contents) = {}
    BY <2>4, EmptySeq DEF Among
  <2>6. InFlight = {}
    BY <2>1 DEF InFlight
  <2>7. QED BY <2>3, <2>5, <2>6 DEF HInv, PlacesInv
<1>2. QED BY <1>1, PoolHistoryInvariant, PTL

(* The places where a message is.                                          *)
Fates(m) ==
  {f \in {"waits", "dropped", "held", "logged"} :
     \/ f = "waits" /\ m \in Among(Contents)
     \/ f = "dropped" /\ m \in evicted
     \/ f = "held" /\ m \in InFlight
     \/ f = "logged" /\ m \in Among(logged)}

(* Every accepted message with a sink is in exactly one place, is held by  *)
(* one worker at most, and is given to its sink at most once.              *)
THEOREM PoolOneFate == Spec => []OneFate
<1>1. HInv => OneFate
  <2> SUFFICES ASSUME HInv PROVE OneFate
    OBVIOUS
  <2>1. ASSUME NEW m \in Among(accepted), HasSink(m)
        PROVE  Cardinality(Fates(m)) = 1
    <3>1. /\ Among(Contents) \cap InFlight = {}
          /\ evicted \cap (Among(Contents) \cup InFlight) = {}
          /\ Among(logged) \cap (Among(Contents) \cup InFlight \cup evicted) = {}
          /\ m \in Among(Contents) \cup InFlight \cup evicted \cup Among(logged)
      BY <2>1 DEF HInv, PlacesInv
    <3>2. \E f : Fates(m) = {f}
      <4>1. CASE m \in Among(Contents)
        <5>1. Fates(m) = {"waits"}
          BY <3>1, <4>1 DEF Fates
        <5>2. QED BY <5>1
      <4>2. CASE m \in evicted
        <5>1. Fates(m) = {"dropped"}
          BY <3>1, <4>2 DEF Fates
        <5>2. QED BY <5>1
      <4>3. CASE m \in InFlight
        <5>1. Fates(m) = {"held"}
          BY <3>1, <4>3 DEF Fates
        <5>2. QED BY <5>1
      <4>4. CASE m \in Among(logged)
        <5>1. Fates(m) = {"logged"}
          BY <3>1, <4>4 DEF Fates
        <5>2. QED BY <5>1
      <4>5. QED BY <3>1, <4>1, <4>2, <4>3, <4>4
    <3>3. QED BY <3>2, FS_Singleton
  <2>2. ASSUME NEW m \in InFlight
        PROVE  Cardinality({w \in Workers : msg[w] = m}) = 1
    <3>1. PICK v \in Workers : wpc[v] = "log" /\ msg[v] = m
      BY DEF InFlight
    <3>2. m # NoMsg /\ Held[v] = m /\ m \notin Among(Contents)
      BY <3>1, MarkerAssumption DEF HInv, IInv, WorkersOK, Held, PlacesInv
    <3>3. ASSUME NEW w \in Workers, msg[w] = m PROVE w = v
      <4>1. CASE wpc[w] = "log"
        <5>1. Held[w] = m
          BY <3>3, <4>1 DEF Held
        <5>2. QED BY <3>2, <5>1 DEF HInv, PlacesInv
      <4>2. CASE wpc[w] = "pop"
        <5>1. ~Empty /\ m = Front
          BY <3>3, <4>2 DEF HInv, IInv, WorkersOK
        <5>2. Contents # << >> /\ m = Head(Contents) /\ Contents \in Seq(Message)
          BY <5>1, InvBuf, FrontValue, LengthTests DEF HInv, IInv
        <5>3. m \in Among(Contents)
          BY <5>2, FromTheFront
        <5>4. QED BY <3>2, <5>3
      <4>3. CASE wpc[w] \notin {"pop", "log"}
        BY <3>2, <3>3, <4>3 DEF HInv, CopyInv
      <4>4. QED BY <4>1, <4>2, <4>3
    <3>4. {w \in Workers : msg[w] = m} = {v}
      BY <3>1, <3>3
    <3>5. QED BY <3>4, FS_Singleton
  <2>3. Cardinality(Among(logged)) = Len(logged)
    <3>1. logged \in Seq(Message) /\ Once(logged)
      BY DEF HInv, IInv, TypeOK, PlacesInv
    <3>2. Len(logged) \in Nat /\ DOMAIN logged = 1 .. Len(logged)
      BY <3>1, LenProperties
    <3> DEFINE F == [i \in 1 .. Len(logged) |-> logged[i]]
    <3>3. /\ F \in [1 .. Len(logged) -> Among(logged)]
          /\ \A a, b \in 1 .. Len(logged) : F[a] = F[b] => a = b
          /\ \A t \in Among(logged) : \E i \in 1 .. Len(logged) : F[i] = t
      BY <3>1, <3>2 DEF Among, Once
    <3>4. ExistsBijection(1 .. Len(logged), Among(logged))
      <4> HIDE DEF F
      <4>1. F \in Bijection(1 .. Len(logged), Among(logged))
        BY <3>3, Fun_IsBij
      <4>2. QED BY <4>1 DEF ExistsBijection
    <3>5. /\ IsFiniteSet(1 .. Len(logged))
          /\ Cardinality(1 .. Len(logged)) = Len(logged)
      <4> DEFINE n == Len(logged)
      <4>1. n \in Nat /\ n \in Int /\ 1 \in Int
        BY <3>2
      <4> HIDE DEF n
      <4>2. /\ IsFiniteSet(1 .. n)
            /\ Cardinality(1 .. n) = IF 1 > n THEN 0 ELSE n - 1 + 1
        BY <4>1, FS_Interval
      <4>3. IsFiniteSet(1 .. n) /\ Cardinality(1 .. n) = n
        BY <4>1, <4>2
      <4>4. QED BY <4>3 DEF n
    <3>6. QED BY <3>4, <3>5, FS_Bijection
  <2>4. QED BY <2>1, <2>2, <2>3 DEF OneFate, Fates
<1>2. QED BY <1>1, PoolHistoryInvariant, PTL

(* Those accepted before the j-th that are still on their way.             *)
Passed(j) ==
  {i \in 1 .. j - 1 : /\ HasSink(accepted[i])
                      /\ accepted[i] \notin evicted \cup Among(logged)}

(* A message that has been logged has passed at most one that each of the  *)
(* other workers holds.                                                    *)
LEMMA PassedFew ==
  ASSUME HInv, NEW j \in DOMAIN accepted, accepted[j] \in Among(logged)
  PROVE  Cardinality(Passed(j)) <= Cardinality(Workers) - 1
<1>1. /\ Len(Contents) \in Nat /\ DOMAIN Contents = 1 .. Len(Contents)
      /\ Len(accepted) \in Nat /\ DOMAIN accepted = 1 .. Len(accepted)
      /\ InFlight = {Held[w] : w \in Workers} \ {NoMsg}
  BY HeldMessages DEF HInv
<1>2. PICK v \in Workers : \A i \in 1 .. j - 1 : Held[v] # accepted[i]
  BY DEF HInv, OvertakeInv
<1>3. j <= Gone /\ Gone \in Nat /\ Gone <= Len(accepted)
  BY <1>1, LoggedIsGone DEF HInv, NewestInv, Gone
<1>4. ASSUME NEW i \in Passed(j)
      PROVE  /\ i \in DOMAIN accepted
             /\ \E w \in Workers \ {v} : Held[w] = accepted[i]
  <2>1. i \in 1 .. j - 1 /\ i \in DOMAIN accepted /\ i <= Gone
    BY <1>1, <1>3 DEF Passed
  <2>2. accepted[i] \in Among(Contents) \cup InFlight
    <3>1. accepted[i] \in Among(accepted)
      BY <2>1 DEF Among
    <3>2. HasSink(accepted[i]) /\ accepted[i] \notin evicted \cup Among(logged)
      BY DEF Passed
    <3>3. QED BY <3>1, <3>2 DEF HInv, PlacesInv
  <2>3. accepted[i] \notin Among(Contents)
    <3>1. ASSUME NEW k \in 1 .. Len(Contents), Contents[k] = accepted[i] PROVE FALSE
      <4>1. Gone + k \in DOMAIN accepted /\ Gone + k # i
        BY <1>1, <1>3, <2>1 DEF Gone
      <4>2. accepted[Gone + k] = accepted[i]
        BY <3>1 DEF HInv, NewestInv
      <4>3. QED BY <2>1, <4>1, <4>2 DEF HInv, FreshInv, Once
    <3>2. QED BY <1>1, <3>1 DEF Among
  <2>4. PICK w \in Workers : Held[w] = accepted[i]
    BY <1>1, <2>2, <2>3
  <2>5. w # v
    BY <1>2, <2>1, <2>4
  <2>6. QED BY <2>1, <2>4, <2>5
<1> DEFINE F == [i \in Passed(j) |->
                   CHOOSE w \in Workers \ {v} : Held[w] = accepted[i]]
<1>5. \A i \in Passed(j) : F[i] \in Workers \ {v} /\ Held[F[i]] = accepted[i]
  BY <1>4
<1>6. /\ F \in [Passed(j) -> Workers \ {v}]
      /\ \A a, b \in Passed(j) : F[a] = F[b] => a = b
  <2>1. F \in [Passed(j) -> Workers \ {v}]
    BY <1>5
  <2> HIDE DEF F
  <2>2. ASSUME NEW a \in Passed(j), NEW b \in Passed(j), F[a] = F[b]
        PROVE  a = b
    <3>1. accepted[a] = accepted[b]
      BY <1>5, <2>2
    <3>2. a \in DOMAIN accepted /\ b \in DOMAIN accepted
      BY <1>4
    <3>3. QED BY <3>1, <3>2 DEF HInv, FreshInv, Once
  <2>3. QED BY <2>1, <2>2
<1> HIDE DEF F
<1>7. F \in Injection(Passed(j), Workers \ {v})
  BY <1>6, Fun_IsInj
<1>8. IsFiniteSet(Workers)
  BY PoolAssumption, FS_Interval DEF Workers
<1>9. /\ IsFiniteSet(Workers \ {v})
      /\ Cardinality(Workers \ {v}) = Cardinality(Workers) - 1
  BY <1>8, FS_RemoveElement
<1>10. QED BY <1>7, <1>9, FS_Injection

LEMMA PassedFewNext ==
  HInv' => \A j \in DOMAIN accepted' : accepted'[j] \in Among(logged') =>
             Cardinality(Passed(j)') <= Cardinality(Workers) - 1
<1> DEFINE Claim == \A j \in DOMAIN accepted : accepted[j] \in Among(logged) =>
                      Cardinality(Passed(j)) <= Cardinality(Workers) - 1
<1>1. HInv => Claim
  BY PassedFew
<1>2. HInv' => Claim'
  BY <1>1, PTL
<1>3. QED BY <1>2

(* A later post, drop or call of a sink takes from what an earlier call    *)
(* has overtaken, and adds nothing.                                        *)
LEMMA OvertakenShrinks ==
  ASSUME HInv, NEW k \in Nat, NEW j \in DOMAIN accepted,
         evicted \subseteq evicted',
         \A i \in 1 .. Len(accepted) : accepted'[i] = accepted[i],
         \A h \in 1 .. k : logged'[h] = logged[h]
  PROVE  /\ Cardinality(Overtaken(k, j)') <= Cardinality(Overtaken(k, j))
         /\ Cardinality(Overtaken(k, j)') \in Nat
         /\ Cardinality(Overtaken(k, j)) \in Nat
<1>1. j \in Nat /\ j - 1 \in Int /\ 1 \in Int /\ j <= Len(accepted)
      /\ Len(accepted) \in Nat
  BY HeldMessages DEF HInv
<1>2. Overtaken(k, j)' \subseteq Overtaken(k, j)
  BY <1>1 DEF Overtaken, HasSink
<1>3. IsFiniteSet(1 .. j - 1)
  BY <1>1, FS_Interval
<1>4. Overtaken(k, j) \in SUBSET (1 .. j - 1)
  BY DEF Overtaken
<1>5. IsFiniteSet(Overtaken(k, j))
  BY <1>3, <1>4, FS_Subset
<1>6. IsFiniteSet(Overtaken(k, j)')
      /\ Cardinality(Overtaken(k, j)') <= Cardinality(Overtaken(k, j))
  BY <1>2, <1>5, FS_Subset
<1>7. QED BY <1>5, <1>6, FS_CardinalityType

(* At the call of its sink a message overtakes at most one message per     *)
(* further worker.                                                         *)
THEOREM PoolOvertakesFew == Spec => []OvertakesFew
<1>1. Init => OvertakesFew
  BY DEF Init, OvertakesFew
<1>2. ASSUME HInv, HInv', OvertakesFew, [Next]_vars
      PROVE  OvertakesFew'
  <2>1. /\ logged \in Seq(Message) /\ Len(logged) \in Nat
        /\ DOMAIN logged = 1 .. Len(logged)
        /\ accepted \in Seq(Message) /\ Len(accepted) \in Nat
        /\ DOMAIN accepted = 1 .. Len(accepted)
    BY <1>2, LenProperties DEF HInv, IInv, TypeOK
  <2>2. IsFiniteSet(Workers) /\ Cardinality(Workers) \in Nat
    <3>1. IsFiniteSet(Workers)
      BY PoolAssumption, FS_Interval DEF Workers
    <3>2. QED BY <3>1, FS_CardinalityType
  <2> DEFINE Few(k, j) == Cardinality(Overtaken(k, j)') <= Cardinality(Workers) - 1
  <2>3. ASSUME NEW k \in 1 .. Len(logged), NEW j \in 1 .. Len(accepted),
               accepted[j] = logged[k], evicted \subseteq evicted',
               \A i \in 1 .. Len(accepted) : accepted'[i] = accepted[i],
               \A h \in 1 .. Len(logged) : logged'[h] = logged[h]
        PROVE  Few(k, j)
    <3>1. k \in DOMAIN logged /\ j \in DOMAIN accepted /\ k \in Nat
          /\ \A h \in 1 .. k : h \in 1 .. Len(logged)
      BY <2>1
    <3>2. Cardinality(Overtaken(k, j)) <= Cardinality(Workers) - 1
      BY <1>2, <2>3, <3>1 DEF OvertakesFew
    <3>3. QED BY <1>2, <2>2, <2>3, <3>1, <3>2, OvertakenShrinks
  <2>4. ASSUME NEW p \in Producers, PostPush(p) PROVE OvertakesFew'
    <3> DEFINE m == asmsg[p]
    <3>1. /\ m \in Message /\ m \notin Among(accepted) /\ logged' = logged
          /\ accepted' = Append(accepted, m) /\ evicted \subseteq evicted'
      BY <1>2, <2>4, PushMoves, FreshPost DEF HInv
    <3> HIDE DEF m
    <3>2. /\ DOMAIN accepted' = 1 .. Len(accepted) + 1
          /\ \A i \in 1 .. Len(accepted) : accepted'[i] = accepted[i]
          /\ accepted'[Len(accepted) + 1] = m
      BY <2>1, <3>1, AtTheEnd, LenProperties
    <3>3. \A k \in DOMAIN logged : logged[k] # m
      BY <1>2, <3>1 DEF HInv, PlacesInv, Among
    <3>4. ASSUME NEW k \in DOMAIN logged', NEW j \in DOMAIN accepted',
                 accepted'[j] = logged'[k]
          PROVE  Few(k, j)
      <4>1. k \in 1 .. Len(logged) /\ j \in 1 .. Len(accepted)
        BY <2>1, <3>1, <3>2, <3>3, <3>4
      <4>2. QED BY <2>3, <3>1, <3>2, <3>4, <4>1
    <3>5. QED BY <3>4 DEF OvertakesFew
  <2>5. ASSUME UNCHANGED <<logged, evicted, accepted>> PROVE OvertakesFew'
    <3>1. ASSUME NEW k \in 1 .. Len(logged), NEW j \in 1 .. Len(accepted),
                 accepted[j] = logged[k]
          PROVE  Few(k, j)
      BY <2>3, <2>5, <3>1
    <3>2. QED BY <2>1, <2>5, <3>1 DEF OvertakesFew
  <2>6. ASSUME NEW w \in Workers, WorkerLog(w), HasSink(Held[w])
        PROVE  OvertakesFew'
    <3> DEFINE m == Held[w]
    <3>1. /\ m \in Message /\ logged' = Append(logged, m)
          /\ UNCHANGED <<evicted, accepted>>
      BY <1>2, <2>6, LogMoves DEF HInv
    <3> HIDE DEF m
    <3>2. /\ DOMAIN logged' = 1 .. Len(logged) + 1
          /\ \A h \in 1 .. Len(logged) : logged'[h] = logged[h]
      BY <2>1, <3>1, AtTheEnd, LenProperties
    <3>3. ASSUME NEW k \in DOMAIN logged', NEW j \in DOMAIN accepted',
                 accepted'[j] = logged'[k]
          PROVE  Few(k, j)
      <4>1. CASE k \in 1 .. Len(logged)
        BY <2>1, <2>3, <3>1, <3>2, <3>3, <4>1
      <4>2. CASE k = Len(logged) + 1
        <5>1. \A i \in 1 .. j - 1 :
                (accepted'[i] \in Among(logged')) <=>
                \E h \in 1 .. k : logged'[h] = accepted'[i]
          BY <3>2, <4>2 DEF Among
        <5>2. Overtaken(k, j)' = Passed(j)'
          BY <5>1 DEF Overtaken, Passed, HasSink
        <5>3. accepted'[j] \in Among(logged')
          BY <3>3 DEF Among
        <5>4. Cardinality(Passed(j)') <= Cardinality(Workers) - 1
          BY <1>2, <3>3, <5>3, PassedFewNext
        <5>5. QED BY <5>2, <5>4
      <4>3. QED BY <2>1, <3>2, <3>3, <4>1, <4>2
    <3>4. QED BY <3>3 DEF OvertakesFew
  <2>7. ASSUME NEW w \in Workers, WorkerLog(w), ~HasSink(Held[w])
        PROVE  OvertakesFew'
    BY <1>2, <2>5, <2>7, LogMoves DEF HInv
  <2>8. ASSUME NEW w \in Workers, WorkerPop(w) PROVE OvertakesFew'
    BY <1>2, <2>5, <2>8, PopMoves DEF HInv
  <2>9. CASE UNCHANGED Visible
    BY <2>5, <2>9 DEF Visible
  <2>10. QED BY <1>2, <2>4, <2>6, <2>7, <2>8, <2>9, StepKinds DEF HInv
<1>3. QED BY <1>1, <1>2, PoolHistoryInvariant, PTL DEF Spec
=============================================================================
