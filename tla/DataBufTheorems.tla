-------------------------- MODULE DataBufTheorems --------------------------
(***************************************************************************)
(* What the operations of DataBuf do to the sequence of its elements, for  *)
(* every number of cells.  Both MemBufProofs and ThreadPoolProofs rest on  *)
(* these lemmas.                                                           *)
(***************************************************************************)
EXTENDS DataBuf, MemBufTheorems

(* A well-formed buffer of values of V, none of which looks like raw       *)
(* memory.                                                                 *)
BufOK(V) == Raw \notin V /\ Ring(V, head, tail, storage)

(* pop(): the oldest element goes.                                         *)
LEMMA DropHeadEffect ==
  ASSUME NEW V, BufOK(V), ~Empty, DropHead
  PROVE  BufOK(V)' /\ Contents' = Tail(Contents) /\ Contents # << >>
<1>1. Ring(V, head, tail, storage) /\ head # tail
  BY DEF BufOK, Empty
<1>2. /\ head' = Succ(head) /\ tail' = tail
      /\ storage' = Cleared(storage, head)
  BY DEF DropHead
<1>3. QED
  BY <1>1, <1>2, DropOldest DEF BufOK, Contents

(* push() into a ring with room: the value is the newest element.          *)
LEMMA StoreEffect ==
  ASSUME NEW V, BufOK(V), ~Full, NEW d \in V, Store(d)
  PROVE  BufOK(V)' /\ Contents' = Append(Contents, d)
<1>1. Ring(V, head, tail, storage) /\ Succ(tail) # head /\ d # Raw
  BY DEF BufOK, Full
<1>2. /\ tail' = Succ(tail) /\ head' = head
      /\ storage' = Filled(storage, tail, d)
  BY DEF Store
<1>3. QED
  BY <1>1, <1>2, StoreNewest DEF BufOK, Contents

(* push() into a full ring: the oldest element makes room for the newest.  *)
LEMMA OverwriteEffect ==
  ASSUME NEW V, BufOK(V), Full, NEW d \in V, Push(d)
  PROVE  BufOK(V)' /\ Contents' = Append(Tail(Contents), d) /\ Contents # << >>
<1>1. /\ Ring(V, head, tail, storage) /\ head # tail
      /\ Succ(head) # head /\ Succ(tail) = head
      /\ d # Raw
  BY CellsAssumption, SuccValue DEF BufOK, Ring, Full, Slot
<1>2. /\ Ring(V, Succ(head), tail, Cleared(storage, head))
      /\ Elements(Succ(head), tail, Cleared(storage, head))
           = Tail(Elements(head, tail, storage))
      /\ Elements(head, tail, storage) # << >>
  <2>1. Ring(V, head, tail, storage) /\ head # tail
    BY <1>1
  <2>2. Ring(V, Succ(head), tail, Cleared(storage, head))
    BY <2>1, DropOldest
  <2>3. Elements(Succ(head), tail, Cleared(storage, head))
          = Tail(Elements(head, tail, storage))
    BY <2>1, <2>2, DropOldest
  <2>4. Elements(head, tail, storage) # << >>
    BY <2>1, <2>2, DropOldest
  <2>5. QED BY <2>2, <2>3, <2>4
<1> DEFINE mid == Cleared(storage, head)
           next == Succ(head)
<1>3. /\ head' = next /\ tail' = Succ(tail)
      /\ storage' = Filled(mid, tail, d)
  BY DEF Push
<1>4. /\ Succ(tail) # next
      /\ Ring(V, next, tail, mid)
      /\ Elements(next, tail, mid) = Tail(Contents)
      /\ Contents # << >>
  BY <1>1, <1>2 DEF Contents
<1> HIDE DEF mid, next
<1>5. /\ Ring(V, next, Succ(tail), Filled(mid, tail, d))
      /\ Elements(next, Succ(tail), Filled(mid, tail, d))
           = Append(Elements(next, tail, mid), d)
  BY <1>1, <1>4, StoreNewest
<1>6. QED
  BY <1>3, <1>4, <1>5 DEF BufOK, Contents

(* How many elements there are is what the code's index tests say.         *)
LEMMA LengthTests ==
  ASSUME NEW V, BufOK(V)
  PROVE  /\ Contents \in Seq(V)
         /\ Len(Contents) \in 0 .. Cells - 1
         /\ Empty <=> Contents = << >>
         /\ Full <=> Len(Contents) = Cells - 1
<1>1. /\ head \in Slot /\ tail \in Slot
      /\ Ring(V, head, tail, storage)
  BY DEF BufOK, Ring
<1>2. Contents \in Seq(V) /\ Len(Contents) = Span(head, tail)
  BY <1>1, ElementsType DEF Contents
<1>3. Contents = << >> <=> Len(Contents) = 0
  BY <1>2, EmptySeq
<1>4. QED
  BY <1>1, <1>2, <1>3, SpanBounds DEF Empty, Full

(* push(), in both cases, is the abstract push.                            *)
LEMMA PushEffect ==
  ASSUME NEW V, BufOK(V), NEW d \in V, Push(d)
  PROVE  /\ BufOK(V)'
         /\ Contents' = Append(IF Len(Contents) = Cells - 1
                               THEN Tail(Contents) ELSE Contents, d)
<1>1. CASE Full
  BY <1>1, OverwriteEffect, LengthTests
<1>2. CASE ~Full
  BY <1>2, StoreEffect, LengthTests DEF Push
<1>3. QED BY <1>1, <1>2

(* ~DataBuf() leaves no object behind and an empty ring.                   *)
LEMMA DestroyAllEffect ==
  ASSUME NEW V, BufOK(V), DestroyAll
  PROVE  /\ BufOK(V)'
         /\ Contents' = << >>
         /\ \A c \in Slot : storage'[c] = Raw
<1>1. /\ head \in Slot /\ tail \in Slot
      /\ storage \in [Slot -> V \cup {Raw}]
      /\ Live(head, tail, storage)
  BY DEF BufOK, Ring
<1>2. /\ head' = tail /\ tail' = tail
      /\ storage' = [c \in Slot |-> IF c \in Window(head, tail) THEN Raw
                                                              ELSE storage[c]]
  BY DEF DestroyAll
<1>3. \A c \in Slot : storage'[c] = Raw
  BY <1>1, <1>2 DEF Live
<1>4. \A c \in Slot : c \notin Window(tail, tail)
  BY <1>1, WindowCells, CellsAssumption DEF Slot
<1>5. BufOK(V)'
  <2>1. storage' \in [Slot -> V \cup {Raw}]
    BY <1>1, <1>2
  <2>2. Live(tail, tail, storage')
    BY <1>3, <1>4 DEF Live
  <2>3. QED BY <1>1, <1>2, <2>1, <2>2 DEF BufOK, Ring
<1>6. Contents' = << >>
  <2>1. Span(tail, tail) = 0
    BY <1>1, SpanBounds
  <2>2. /\ Elements(tail, tail, storage') \in Seq(V)
        /\ Len(Elements(tail, tail, storage')) = 0
    BY <1>2, <1>5, <2>1, ElementsType DEF BufOK
  <2>3. Elements(tail, tail, storage') = << >>
    BY <2>2, EmptySeq
  <2>4. QED BY <1>2, <2>3 DEF Contents
<1>7. QED BY <1>3, <1>5, <1>6

(* Construction: an empty buffer.                                          *)
LEMMA BufInitEffect ==
  ASSUME NEW V, Raw \notin V, BufInit
  PROVE  BufOK(V) /\ Contents = << >>
<1>1. 0 \in Slot
  BY CellsAssumption DEF Slot
<1>2. \A c \in Slot : c \notin Window(0, 0)
  BY <1>1, WindowCells, CellsAssumption DEF Slot
<1>3. Live(0, 0, storage)
  BY <1>2 DEF BufInit, Live
<1>4. BufOK(V)
  BY <1>1, <1>3 DEF BufInit, BufOK, Ring
<1>5. QED
  BY <1>4, LengthTests DEF BufInit, Empty

(* front() of a buffer that is not empty is its oldest element.            *)
LEMMA FrontValue ==
  ASSUME NEW V, BufOK(V)
  PROVE  /\ ~Empty => Front \in V /\ Front = Head(Contents)
         /\ Full => ~Empty
<1>1. Ring(V, head, tail, storage)
  BY DEF BufOK
<1>2. ASSUME ~Empty PROVE Front \in V /\ Front = Head(Contents)
  <2>1. Ring(V, head, tail, storage) /\ head # tail
    BY <1>1, <1>2 DEF Empty
  <2>2. Ring(V, Succ(head), tail, Cleared(storage, head))
    BY <2>1, DropOldest
  <2>3. storage[head] = Head(Contents) /\ Contents # << >>
    BY <2>1, <2>2, DropOldest DEF Contents
  <2>4. Head(Contents) \in V
    BY <2>3, LengthTests
  <2>5. QED BY <1>2, <2>3, <2>4 DEF Front
<1>3. Full => ~Empty
  BY <1>1, SuccValue, CellsAssumption DEF Ring, Full, Empty, Slot
<1>4. QED BY <1>2, <1>3
=============================================================================
