----------------------------- MODULE SPSCProofs -----------------------------
(***************************************************************************)
(* Proofs about SPSCRing, for every size of the ring and every set of      *)
(* values: no cell is ever used by both threads, an index seen too late    *)
(* only makes a thread more careful, nothing leaks, and the ring is a      *)
(* first-in first-out queue.                                               *)
(*                                                                         *)
(* The argument is about Stored, the storage as the two published indices  *)
(* describe it: an object that the consumer has already moved out of the   *)
(* oldest cell counts until head_ passes it, one that the producer has     *)
(* constructed does not count until tail_ does.  Stored is a live ring at  *)
(* every moment of both calls, and changes only in the step that stores    *)
(* an index.                                                               *)
(***************************************************************************)
EXTENDS SPSCRing, MemBufTheorems

Stored ==
  [c \in Slot |-> IF c = head /\ cpc = "publish" THEN out
                  ELSE IF c = tail /\ ppc = "publish" THEN Raw
                  ELSE cells[c]]

(* What the producer knows: head_ is never behind what was loaded from it. *)
ProducerInv ==
  /\ Span(head, tail) <= Span(headSeen, tail)
  /\ ppc \in {"construct", "publish"} => Succ(tail) # headSeen
  /\ ppc \in {"load", "construct", "publish"} => value \in Value
  /\ ppc = "publish" => cells[tail] = value

(* What the consumer knows: tail_ is never behind what was loaded from it. *)
ConsumerInv ==
  /\ Span(head, tailSeen) <= Span(head, tail)
  /\ cpc \in {"copy", "move", "destroy", "publish"} => head # tailSeen
  /\ cpc \in {"destroy", "publish"} => out \in Value
  /\ cpc = "destroy" => cells[head] = out
  /\ cpc = "publish" => cells[head] = Raw

StorageInv ==
  /\ ppc # "gone" => Live(head, tail, Stored)
  /\ ppc = "gone" => \A c \in Slot : cells[c] = Raw
  /\ ppc = "gone" <=> cpc = "gone"

IInv == TypeOK /\ ProducerInv /\ ConsumerInv /\ StorageInv

-----------------------------------------------------------------------------
(* Storing an index moves it away from, or towards, the other by one cell. *)
LEMMA SpanAfterStore ==
  ASSUME NEW h \in Slot, NEW t \in Slot
  PROVE  /\ Succ(t) # h => Span(h, Succ(t)) = Span(h, t) + 1
         /\ h # t => Span(Succ(h), t) = Span(h, t) - 1
BY SuccValue, CellsAssumption DEF Slot, Span

(* A load of head_ returns an index that is not ahead of it.               *)
LEMMA LateHead ==
  ASSUME NEW seen \in Slot, NEW h \in Slot, NEW t \in Slot,
         Span(h, t) <= Span(seen, t),
         NEW i \in Loads(seen, h)
  PROVE  i \in Slot /\ Span(h, t) <= Span(i, t)
<1>1. i \in Slot
  BY CellInSlot DEF Loads, Window
<1>2. i = h \/ IF seen <= h THEN seen <= i /\ i < h ELSE seen <= i \/ i < h
  BY <1>1, WindowCells DEF Loads
<1>3. QED
  BY <1>1, <1>2, CellsAssumption DEF Slot, Span

(* A load of tail_ returns an index that is not ahead of it.               *)
LEMMA LateTail ==
  ASSUME NEW seen \in Slot, NEW h \in Slot, NEW t \in Slot,
         Span(h, seen) <= Span(h, t),
         NEW i \in Loads(seen, t)
  PROVE  i \in Slot /\ Span(h, i) <= Span(h, t)
<1>1. i \in Slot
  BY CellInSlot DEF Loads, Window
<1>2. i = t \/ IF seen <= t THEN seen <= i /\ i < t ELSE seen <= i \/ i < t
  BY <1>1, WindowCells DEF Loads
<1>3. QED
  BY <1>1, <1>2, CellsAssumption DEF Slot, Span

-----------------------------------------------------------------------------
(* What the invariant says of the two published indices and of Stored.     *)
LEMMA PublishedState ==
  ASSUME IInv
  PROVE  /\ head \in Slot /\ tail \in Slot
         /\ headSeen \in Slot /\ tailSeen \in Slot
         /\ cells \in [Slot -> Value \cup {Raw}]
         /\ cpc \in {"copy", "move", "destroy", "publish"} => head # tail
         /\ ppc \in {"construct", "publish"} => Succ(tail) # head
         /\ ppc # "gone" => Ring(Value, head, tail, Stored)
         /\ head \in Window(head, tail) <=> head # tail
         /\ tail \notin Window(head, tail)
<1>1. /\ head \in Slot /\ tail \in Slot /\ headSeen \in Slot /\ tailSeen \in Slot
      /\ cells \in [Slot -> Value \cup {Raw}]
  BY DEF IInv, TypeOK
<1>2. cpc \in {"copy", "move", "destroy", "publish"} => head # tail
  BY <1>1, SpanBounds, CellsAssumption DEF IInv, ConsumerInv
<1>3. ppc \in {"construct", "publish"} => Succ(tail) # head
  BY <1>1, SpanBounds, CellsAssumption DEF IInv, ProducerInv
<1>4. Stored \in [Slot -> Value \cup {Raw}]
  BY <1>1 DEF IInv, ConsumerInv, Stored
<1>5. ppc # "gone" => Ring(Value, head, tail, Stored)
  BY <1>1, <1>4 DEF IInv, StorageInv, Ring
<1>6. (head \in Window(head, tail) <=> head # tail) /\ tail \notin Window(head, tail)
  BY <1>1, WindowCells, CellsAssumption DEF Slot
<1>7. QED
  BY <1>1, <1>2, <1>3, <1>5, <1>6

LEMMA InitEstablishes == Init => IInv
<1> SUFFICES ASSUME Init PROVE IInv
  OBVIOUS
<1>1. 0 \in Slot
  BY CellsAssumption DEF Slot
<1>2. TypeOK
  BY <1>1 DEF Init, TypeOK
<1>3. Span(0, 0) = 0 /\ \A c \in Slot : c \notin Window(0, 0)
  BY <1>1, SpanBounds, WindowCells DEF Slot
<1>4. ProducerInv /\ ConsumerInv
  BY <1>3 DEF Init, ProducerInv, ConsumerInv
<1>5. \A c \in Slot : Stored[c] = Raw
  BY DEF Init, Stored
<1>6. StorageInv
  BY <1>3, <1>5 DEF Init, StorageInv, Live
<1>7. QED BY <1>2, <1>4, <1>6 DEF IInv

-----------------------------------------------------------------------------
(* The steps of the two calls.  Every step but the two stores of an index  *)
(* leaves Stored as it is.                                                 *)
LEMMA PushCallPreserves ==
  ASSUME IInv, NEW v \in Value, PushCall(v)
  PROVE  IInv' /\ Stored' = Stored
<1> USE DEF PushCall, consumerVars
<1>1. Stored' = Stored
  BY DEF Stored
<1>2. TypeOK' /\ ProducerInv' /\ ConsumerInv'
  BY DEF IInv, TypeOK, ProducerInv, ConsumerInv
<1>3. StorageInv'
  BY <1>1 DEF IInv, StorageInv, Live
<1>4. QED BY <1>1, <1>2, <1>3 DEF IInv

LEMMA PushLoadPreserves ==
  ASSUME IInv, PushLoad
  PROVE  IInv' /\ Stored' = Stored
<1> USE DEF PushLoad, consumerVars
<1>1. Stored' = Stored
  BY DEF Stored
<1>2. headSeen' \in Slot /\ Span(head, tail) <= Span(headSeen', tail)
  BY PublishedState, LateHead DEF IInv, ProducerInv
<1>3. TypeOK'
  BY <1>2 DEF IInv, TypeOK
<1>4. ProducerInv' /\ ConsumerInv'
  BY <1>2 DEF IInv, ProducerInv, ConsumerInv, IsFull
<1>5. StorageInv'
  BY <1>1 DEF IInv, StorageInv, Live
<1>6. QED BY <1>1, <1>3, <1>4, <1>5 DEF IInv

(* The object is constructed in a cell that no index shows yet.            *)
LEMMA PushConstructPreserves ==
  ASSUME IInv, PushConstruct
  PROVE  IInv' /\ Stored' = Stored
<1> USE DEF PushConstruct, consumerVars
<1>1. cells[tail] = Raw /\ Stored[tail] = Raw
  BY PublishedState DEF Ring, Live, Stored
<1>2. /\ cells' \in [Slot -> Value \cup {Raw}]
      /\ \A c \in Slot : cells'[c] = IF c = tail THEN value ELSE cells[c]
  BY PublishedState DEF IInv, ProducerInv, Filled
<1>3. Stored' = Stored
  BY <1>1, <1>2, PublishedState DEF Stored
<1>4. TypeOK'
  BY <1>2 DEF IInv, TypeOK
<1>5. ProducerInv'
  BY <1>2, PublishedState DEF IInv, ProducerInv
<1>6. ConsumerInv'
  BY <1>2, PublishedState DEF IInv, ConsumerInv
<1>7. StorageInv'
  BY <1>3 DEF IInv, StorageInv, Live
<1>8. QED BY <1>3, <1>4, <1>5, <1>6, <1>7 DEF IInv

(* Storing tail_ shows the object: it is the newest element.               *)
LEMMA PushPublishPreserves ==
  ASSUME IInv, PushPublish
  PROVE  /\ IInv'
         /\ Elements(head, tail, Stored)' = Append(Elements(head, tail, Stored), value)
         /\ Span(head, tail) < Cells - 1
<1> USE DEF PushPublish, consumerVars
<1>1. /\ value \in Value /\ value # Raw /\ cells[tail] = value
      /\ Succ(tail) # head /\ Succ(tail) # tail /\ Succ(tail) \in Slot
  <2>1. value \in Value /\ cells[tail] = value /\ Succ(tail) # head
    BY PublishedState DEF IInv, ProducerInv
  <2>2. Succ(tail) # tail /\ Succ(tail) \in Slot
    BY PublishedState, SuccValue, CellsAssumption DEF Slot
  <2>3. QED BY <2>1, <2>2, SPSCAssumption
<1>2. Stored' = Filled(Stored, tail, value)
  BY <1>1, PublishedState DEF Stored, Filled
<1>3. /\ Ring(Value, head, Succ(tail), Stored')
      /\ Elements(head, Succ(tail), Stored') = Append(Elements(head, tail, Stored), value)
  BY <1>1, <1>2, PublishedState, StoreNewest
<1>4. /\ Span(head, tail') = Span(head, tail) + 1
      /\ Span(headSeen, tail') = Span(headSeen, tail) + 1
      /\ Span(head, tail) \in 0 .. Cells - 1 /\ Span(head, tail) # Cells - 1
      /\ Span(headSeen, tail) \in 0 .. Cells - 1
      /\ Span(head, tailSeen) \in 0 .. Cells - 1
  BY <1>1, PublishedState, SpanAfterStore, SpanBounds DEF IInv, ProducerInv
<1>5. TypeOK'
  BY <1>1 DEF IInv, TypeOK
<1>6. ProducerInv' /\ ConsumerInv'
  BY <1>4, CellsAssumption DEF IInv, ProducerInv, ConsumerInv
<1>7. StorageInv'
  BY <1>3 DEF IInv, StorageInv, Ring
<1>8. Elements(head, tail, Stored)' = Elements(head, Succ(tail), Stored')
  BY DEF Elements
<1>9. QED
  BY <1>3, <1>4, <1>5, <1>6, <1>7, <1>8, CellsAssumption DEF IInv

LEMMA ConsumerLoadPreserves ==
  ASSUME IInv, PopLoad \/ PeekLoad
  PROVE  IInv' /\ Stored' = Stored
<1>1. PICK then \in {"move", "copy"} : ConsumerLoad(then)
  BY DEF PopLoad, PeekLoad
<1> USE <1>1 DEF ConsumerLoad, producerVars
<1>2. Stored' = Stored
  BY DEF Stored
<1>3. tailSeen' \in Slot /\ Span(head, tailSeen') <= Span(head, tail)
  BY PublishedState, LateTail DEF IInv, ConsumerInv
<1>4. TypeOK'
  BY <1>3 DEF IInv, TypeOK
<1>5. ProducerInv' /\ ConsumerInv'
  BY <1>3 DEF IInv, ProducerInv, ConsumerInv, IsEmpty
<1>6. StorageInv'
  BY <1>2 DEF IInv, StorageInv, Live
<1>7. QED BY <1>2, <1>4, <1>5, <1>6 DEF IInv

(* The consumer finds an object in the oldest cell.                        *)
LEMMA OldestCell ==
  ASSUME IInv, cpc \in {"copy", "move", "destroy"}
  PROVE  cells[head] \in Value /\ cells[head] # Raw
<1>1. head # tail /\ Stored[head] = cells[head] /\ ppc # "gone"
  BY PublishedState DEF IInv, StorageInv, Stored
<1>2. cells[head] # Raw
  BY <1>1, PublishedState DEF Ring, Live
<1>3. QED BY <1>2, PublishedState

LEMMA ReadPreserves ==
  ASSUME IInv, PeekCopy \/ PopMove
  PROVE  IInv' /\ Stored' = Stored
<1> USE DEF PeekCopy, PopMove, producerVars
<1>1. Stored' = Stored
  BY DEF Stored
<1>2. TypeOK'
  BY OldestCell DEF IInv, TypeOK
<1>3. ProducerInv' /\ ConsumerInv'
  BY OldestCell DEF IInv, ProducerInv, ConsumerInv
<1>4. StorageInv'
  BY <1>1 DEF IInv, StorageInv, Live
<1>5. QED BY <1>1, <1>2, <1>3, <1>4 DEF IInv

(* The object destroyed is the one that was moved out.                     *)
LEMMA PopDestroyPreserves ==
  ASSUME IInv, PopDestroy
  PROVE  IInv' /\ Stored' = Stored
<1> USE DEF PopDestroy, producerVars
<1>1. /\ cells' \in [Slot -> Value \cup {Raw}]
      /\ \A c \in Slot : cells'[c] = IF c = head THEN Raw ELSE cells[c]
  BY PublishedState DEF Cleared
<1>2. Stored' = Stored
  BY <1>1, PublishedState DEF Stored, IInv, ConsumerInv
<1>3. TypeOK'
  BY <1>1 DEF IInv, TypeOK
<1>4. ProducerInv'
  BY <1>1, PublishedState DEF IInv, ProducerInv
<1>5. ConsumerInv'
  BY <1>1, PublishedState DEF IInv, ConsumerInv
<1>6. StorageInv'
  BY <1>2 DEF IInv, StorageInv, Live
<1>7. QED BY <1>2, <1>3, <1>4, <1>5, <1>6 DEF IInv

(* Storing head_ gives the cell back: the oldest element is gone.          *)
LEMMA PopPublishPreserves ==
  ASSUME IInv, PopPublish
  PROVE  /\ IInv'
         /\ Elements(head, tail, Stored)' = Tail(Elements(head, tail, Stored))
         /\ Elements(head, tail, Stored) # << >>
<1> USE DEF PopPublish, producerVars
<1>1. /\ head # tail /\ head # tailSeen /\ cells[head] = Raw
      /\ Succ(head) # head /\ Succ(head) \in Slot
  BY PublishedState, SuccValue, CellsAssumption DEF IInv, ConsumerInv, Slot
<1>2. Stored' = Cleared(Stored, head)
  BY <1>1, PublishedState DEF Stored, Cleared
<1>3. ppc # "gone"
  BY DEF IInv, StorageInv
<1>4. /\ Ring(Value, Succ(head), tail, Stored')
      /\ Elements(Succ(head), tail, Stored') = Tail(Elements(head, tail, Stored))
      /\ Elements(head, tail, Stored) # << >>
  BY <1>1, <1>2, <1>3, PublishedState, DropOldest
<1>5. /\ Span(head', tail) = Span(head, tail) - 1
      /\ Span(head', tailSeen) = Span(head, tailSeen) - 1
      /\ Span(head, tail) \in 0 .. Cells - 1
      /\ Span(headSeen, tail) \in 0 .. Cells - 1
      /\ Span(head, tailSeen) \in 0 .. Cells - 1
  BY <1>1, PublishedState, SpanAfterStore, SpanBounds
<1>6. TypeOK'
  BY <1>1 DEF IInv, TypeOK
<1>7. ProducerInv' /\ ConsumerInv'
  BY <1>5, CellsAssumption DEF IInv, ProducerInv, ConsumerInv
<1>8. StorageInv'
  BY <1>3, <1>4 DEF IInv, StorageInv, Ring
<1>9. Elements(head, tail, Stored)' = Elements(Succ(head), tail, Stored')
  BY DEF Elements
<1>10. QED
  BY <1>4, <1>6, <1>7, <1>8, <1>9 DEF IInv

LEMMA DestroyPreserves ==
  ASSUME IInv, Destroy
  PROVE  IInv'
<1> USE DEF Destroy
<1>1. \A c \in Slot : cells[c] # Raw <=> c \in Window(head, tail)
  BY PublishedState DEF Ring, Live, Stored
<1>2. cells' = [c \in Slot |-> Raw]
  BY <1>1
<1>3. TypeOK' /\ ProducerInv' /\ ConsumerInv'
  BY <1>2 DEF IInv, TypeOK, ProducerInv, ConsumerInv
<1>4. StorageInv'
  BY <1>2 DEF StorageInv
<1>5. QED BY <1>3, <1>4 DEF IInv

LEMMA StepPreserves == IInv /\ [Next]_vars => IInv'
<1> SUFFICES ASSUME IInv, [Next]_vars PROVE IInv'
  OBVIOUS
<1>1. CASE Producer
  BY <1>1, PushCallPreserves, PushLoadPreserves, PushConstructPreserves,
     PushPublishPreserves DEF Producer
<1>2. CASE Consumer
  BY <1>2, ConsumerLoadPreserves, ReadPreserves, PopDestroyPreserves,
     PopPublishPreserves DEF Consumer
<1>3. CASE Destroy
  BY <1>3, DestroyPreserves
<1>4. CASE UNCHANGED vars
  <2>1. Stored' = Stored
    BY <1>4 DEF vars, producerVars, consumerVars, Stored
  <2>2. QED
    BY <1>4, <2>1 DEF vars, producerVars, consumerVars, IInv, TypeOK,
       ProducerInv, ConsumerInv, StorageInv, Live
<1>5. QED BY <1>1, <1>2, <1>3, <1>4 DEF Next, Over

LEMMA Invariance == Spec => []IInv
<1>1. QED BY InitEstablishes, StepPreserves, PTL DEF Spec

-----------------------------------------------------------------------------
(* The types of SPSCRing's variables, whatever the two threads do.         *)
THEOREM SPSCTypes == Spec => []TypeOK
<1>1. IInv => TypeOK
  BY DEF IInv
<1>2. QED BY <1>1, Invariance, PTL

LEMMA InvImpliesApart == IInv => CellsAreApart
<1> SUFFICES ASSUME IInv PROVE CellsAreApart
  OBVIOUS
<1>1. cpc \in {"copy", "move", "destroy"} => cells[head] # Raw
  BY OldestCell
<1>2. ASSUME ppc = "construct" PROVE cells[tail] = Raw
  <2>1. head # tail \/ cpc # "publish"
    BY PublishedState
  <2>2. Stored[tail] = Raw
    BY <1>2, PublishedState DEF Ring, Live
  <2>3. QED BY <1>2, <2>1, <2>2, PublishedState DEF Stored
<1>3. QED BY <1>1, <1>2, PublishedState DEF CellsAreApart

(* The two threads never touch one cell at a time, the producer only       *)
(* constructs into raw memory and the consumer only reads and destroys     *)
(* objects: try_push, try_pop and peek are free of data races on the       *)
(* storage although neither thread ever waits for the other.               *)
THEOREM SPSCCellsAreApart == Spec => []CellsAreApart
<1>1. QED BY InvImpliesApart, Invariance, PTL

(* size() never promises the consumer more elements, nor the producer more *)
(* room, than there is, however late the index it loads.                   *)
THEOREM SPSCSizeIsSafe == Spec => []SizeIsSafe
<1>1. ASSUME IInv PROVE SizeIsSafe
  <2>1. \A t \in Loads(tailSeen, tail) : Span(head, t) <= Span(head, tail)
    BY <1>1, PublishedState, LateTail DEF IInv, ConsumerInv
  <2>2. \A h \in Loads(headSeen, head) : Span(h, tail) >= Span(head, tail)
    <3> TAKE h \in Loads(headSeen, head)
    <3>1. h \in Slot /\ Span(head, tail) <= Span(h, tail)
      BY <1>1, PublishedState, LateHead DEF IInv, ProducerInv
    <3>2. Span(head, tail) \in 0 .. Cells - 1 /\ Span(h, tail) \in 0 .. Cells - 1
      BY <1>1, <3>1, PublishedState, SpanBounds
    <3>3. QED BY <3>1, <3>2, CellsAssumption
  <2>3. QED BY <2>1, <2>2 DEF SizeIsSafe
<1>2. QED BY <1>1, Invariance, PTL

(* Outside a call an object lives in exactly the cells between the two     *)
(* indices, and the destructor leaves none: nothing is lost, nothing is    *)
(* destroyed twice and nothing leaks.                                      *)
THEOREM SPSCNothingLeaks == Spec => []NothingLeaks
<1>1. ASSUME IInv PROVE NothingLeaks
  <2>1. ASSUME ppc \in {"idle", "load", "construct"}, cpc \notin {"publish", "gone"}
        PROVE  Live(head, tail, cells)
    BY <1>1, <2>1, PublishedState DEF Ring, Live, Stored
  <2>2. QED BY <1>1, <2>1 DEF IInv, StorageInv, NothingLeaks
<1>2. QED BY <1>1, Invariance, PTL

-----------------------------------------------------------------------------
(* The refinement of BoundedFifo                                           *)

(* What the abstract queue holds are the elements of the live ring.        *)
ContentsOK ==
  Contents = IF ppc = "gone" THEN << >> ELSE Elements(head, tail, Stored)

LEMMA ContentsAreElements == IInv => ContentsOK
<1> SUFFICES ASSUME IInv, ppc # "gone"
             PROVE  Contents = Elements(head, tail, Stored)
  BY DEF Contents, ContentsOK
<1>1. ASSUME NEW i \in 1 .. Span(head, tail)
      PROVE  (IF i = 1 /\ cpc = "publish" THEN out ELSE cells[Cell(head, i)])
               = Stored[Cell(head, i)]
  <2>1. Cell(head, i) \in Slot /\ Cell(head, i) # tail
    BY PublishedState, CellInSlot
  <2>2. Cell(head, i) = head <=> i = 1
    BY PublishedState, CellsAssumption DEF Slot, Span, Cell
  <2>3. QED BY <2>1, <2>2 DEF Stored
<1>2. QED BY <1>1 DEF Contents, Elements

(* The same of the next state.                                             *)
LEMMA NextContents == IInv' => ContentsOK'
<1>1. QED BY ContentsAreElements, PTL

(* At every moment the contents are a sequence of as many values as there  *)
(* are cells between the two indices.                                      *)
LEMMA ContentsType ==
  ASSUME IInv, ppc # "gone"
  PROVE  Contents \in Seq(Value) /\ Len(Contents) = Span(head, tail)
BY ContentsAreElements, PublishedState, ElementsType DEF ContentsOK

LEMMA InitMaps == Init => Fifo!Init
<1> SUFFICES ASSUME Init PROVE Fifo!Init
  OBVIOUS
<1>1. ppc # "gone" /\ Span(head, tail) = 0
  BY SpanBounds, CellsAssumption DEF Init, Slot
<1>2. Contents = << >>
  BY <1>1, InitEstablishes, ContentsType, EmptySeq
<1>3. QED BY <1>1, <1>2 DEF Fifo!Init

(* The step that stores tail_ is Put, the one that stores head_ is Get,    *)
(* the destructor is Destroy, and no other step is seen.                   *)
LEMMA StepMaps ==
  ASSUME IInv, IInv', [Next]_vars
  PROVE  [Fifo!Next]_(Fifo!vars)
<1>1. CASE UNCHANGED <<head, tail>> /\ Stored' = Stored /\ ppc # "gone" /\ ppc' # "gone"
  <2>1. Elements(head, tail, Stored)' = Elements(head, tail, Stored)
    BY <1>1 DEF Elements
  <2>2. Contents' = Contents
    BY <1>1, <2>1, ContentsAreElements, NextContents DEF ContentsOK
  <2>3. QED BY <1>1, <2>2 DEF Fifo!vars
<1>2. CASE UNCHANGED vars
  <2>1. Stored' = Stored /\ Contents' = Contents
    BY <1>2 DEF vars, producerVars, consumerVars, Stored, Contents
  <2>2. QED BY <1>2, <2>1 DEF vars, producerVars, Fifo!vars
<1>3. ASSUME NEW v \in Value, PushCall(v) PROVE [Fifo!Next]_(Fifo!vars)
  <2>1. UNCHANGED <<head, tail>> /\ Stored' = Stored /\ ppc # "gone" /\ ppc' # "gone"
    BY <1>3, PushCallPreserves DEF PushCall, consumerVars
  <2>2. QED BY <1>1, <2>1
<1>4. CASE PushLoad \/ PushConstruct
  <2>1. UNCHANGED <<head, tail>> /\ Stored' = Stored /\ ppc # "gone" /\ ppc' # "gone"
    BY <1>4, PushLoadPreserves, PushConstructPreserves
       DEF PushLoad, PushConstruct, consumerVars
  <2>2. QED BY <1>1, <2>1
<1>5. CASE PopLoad \/ PeekLoad \/ PeekCopy \/ PopMove \/ PopDestroy
  <2>1. UNCHANGED <<head, tail>> /\ Stored' = Stored /\ ppc # "gone" /\ ppc' # "gone"
    BY <1>5, ConsumerLoadPreserves, ReadPreserves, PopDestroyPreserves
       DEF PopLoad, PeekLoad, ConsumerLoad, PeekCopy, PopMove, PopDestroy,
           producerVars, IInv, StorageInv
  <2>2. QED BY <1>1, <2>1
<1>6. CASE PushPublish
  <2>1. value \in Value /\ ppc = "publish" /\ ppc' = "idle"
    BY <1>6 DEF PushPublish, IInv, ProducerInv
  <2>2. Contents' = Append(Contents, value)
    BY <1>6, <2>1, PushPublishPreserves, ContentsAreElements, NextContents DEF ContentsOK
  <2>3. Len(Contents) < Cells - 1
    BY <1>6, <2>1, PushPublishPreserves, ContentsType
  <2>4. Fifo!Put(value)
    BY <2>1, <2>2, <2>3 DEF Fifo!Put
  <2>5. QED BY <2>1, <2>4 DEF Fifo!Next
<1>7. CASE PopPublish
  <2>1. ppc # "gone" /\ ppc' = ppc
    BY <1>7 DEF PopPublish, producerVars, IInv, StorageInv
  <2>2. Contents' = Tail(Contents) /\ Contents # << >>
    BY <1>7, <2>1, PopPublishPreserves, ContentsAreElements, NextContents DEF ContentsOK
  <2>3. Fifo!Get
    BY <2>1, <2>2 DEF Fifo!Get
  <2>4. QED BY <2>3 DEF Fifo!Next
<1>8. CASE Destroy
  <2>1. Fifo!Destroy
    BY <1>8 DEF Destroy, Fifo!Destroy, Contents
  <2>2. QED BY <2>1 DEF Fifo!Next
<1>9. QED
  BY <1>1, <1>2, <1>3, <1>4, <1>5, <1>6, <1>7, <1>8
     DEF Next, Producer, Consumer, Over

(* The ring is a bounded first-in first-out queue: what is popped is what  *)
(* was pushed, in that order and once, although the two calls interleave   *)
(* at every step and each sees the other's index late.                     *)
THEOREM SPSCRefines == Spec => ImplementsBoundedFifo
<1>1. Init => Fifo!Init
  BY InitMaps
<1>2. IInv /\ IInv' /\ [Next]_vars => [Fifo!Next]_(Fifo!vars)
  BY StepMaps
<1>3. QED
  BY <1>1, <1>2, Invariance, PTL
  DEF Spec, ImplementsBoundedFifo, Fifo!Spec
=============================================================================
