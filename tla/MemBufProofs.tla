---------------------------- MODULE MemBufProofs ----------------------------
(***************************************************************************)
(* The two containers of include/membuf.h as objects.  DataBufObject, for  *)
(* every number of cells and every set of values: the live cells are       *)
(* exact, and the ring implements DropOldestQueue.  InlineBufferObject,    *)
(* for every capacity, alphabet and set of strings: the buffer implements  *)
(* TextBuffer.                                                             *)
(***************************************************************************)
EXTENDS DataBufObject, InlineBufferObject, DataBufTheorems

-----------------------------------------------------------------------------
(* DataBufObject                                                           *)

(* A well-formed ring, and nothing in it once it was destroyed.            *)
IInv ==
  /\ BufOK(Value)
  /\ alive \in BOOLEAN
  /\ ~alive => Contents = << >> /\ \A c \in Slot : storage[c] = Raw

LEMMA InitIInv ==
  ASSUME Init PROVE IInv /\ Contents = << >>
<1>1. BufOK(Value) /\ Contents = << >>
  BY ValueAssumption, BufInitEffect DEF Init
<1>2. QED BY <1>1 DEF Init, IInv

(* Every step of the object is a step of the queue, or none.               *)
LEMMA StepIInv ==
  ASSUME IInv, [Next]_vars
  PROVE  IInv' /\ [Queue!Next]_(Queue!vars)
<1>0. BufOK(Value) /\ alive \in BOOLEAN
  BY DEF IInv
<1>1. CASE PopStep /\ ~Empty
  <2>1. BufOK(Value)' /\ Contents' = Tail(Contents) /\ Contents # << >>
    BY <1>0, <1>1, DropHeadEffect DEF PopStep, Pop
  <2>2. alive /\ alive' = alive
    BY <1>1 DEF PopStep
  <2>3. Queue!Pop
    BY <2>1, <2>2 DEF Queue!Pop
  <2>4. IInv'
    BY <1>0, <2>1, <2>2 DEF IInv
  <2>5. QED BY <2>3, <2>4 DEF Queue!Next
<1>2. CASE DestroyStep
  <2>1. BufOK(Value)' /\ Contents' = << >> /\ \A c \in Slot : storage'[c] = Raw
    BY <1>0, <1>2, DestroyAllEffect DEF DestroyStep
  <2>2. Queue!Destroy
    BY <1>2, <2>1 DEF DestroyStep, Queue!Destroy
  <2>3. IInv'
    BY <1>2, <2>1 DEF IInv, DestroyStep
  <2>4. QED BY <2>2, <2>3 DEF Queue!Next
<1>3. ASSUME NEW d \in Value, PushStep(d)
      PROVE  IInv' /\ [Queue!Next]_(Queue!vars)
  <2>1. /\ BufOK(Value)'
        /\ Contents' = Append(IF Len(Contents) = Cells - 1
                              THEN Tail(Contents) ELSE Contents, d)
    BY <1>0, <1>3, PushEffect DEF PushStep
  <2>2. Queue!Push(d)
    BY <1>3, <2>1 DEF PushStep, Queue!Push
  <2>3. IInv'
    BY <1>0, <1>3, <2>1 DEF IInv, PushStep
  <2>4. QED BY <2>2, <2>3 DEF Queue!Next
<1>4. CASE UNCHANGED vars \/ (PopStep /\ Empty)
  <2>1. UNCHANGED <<head, tail, storage, alive>>
    BY <1>4 DEF vars, PopStep, Pop, bufVars
  <2>2. QED
    BY <2>1 DEF IInv, BufOK, Contents, Queue!vars
<1>5. QED
  BY <1>1, <1>2, <1>3, <1>4 DEF Next

(* The indices stay inside the storage, which holds values or raw memory.  *)
THEOREM ObjectTypeOK == Spec => []TypeOK
<1>1. Init => IInv
  BY InitIInv
<1>2. IInv /\ [Next]_vars => IInv'
  BY StepIInv
<1>3. IInv => TypeOK
  BY DEF IInv, BufOK, Ring, TypeOK, BufTypeOK
<1>4. QED BY <1>1, <1>2, <1>3, PTL DEF Spec

(* No element is destroyed twice, overwritten while alive, or leaked.      *)
THEOREM ObjectCellsExact == Spec => []CellsExact
<1>1. Init => IInv
  BY InitIInv
<1>2. IInv /\ [Next]_vars => IInv'
  BY StepIInv
<1>3. IInv => CellsExact
  BY DEF IInv, BufOK, Ring, CellsExact, LiveCells
<1>4. QED BY <1>1, <1>2, <1>3, PTL DEF Spec

(* DataBuf implements the drop-oldest queue of one element fewer than it   *)
(* has cells.                                                              *)
THEOREM ObjectRefines == Spec => ImplementsDropOldestQueue
<1>1. Init => IInv /\ Queue!Init
  BY InitIInv DEF Queue!Init, Init
<1>2. IInv /\ [Next]_vars => IInv' /\ [Queue!Next]_(Queue!vars)
  BY StepIInv
<1>3. QED
  BY <1>1, <1>2, PTL DEF Spec, ImplementsDropOldestQueue, Queue!Spec

-----------------------------------------------------------------------------
(* InlineBufferObject                                                      *)

(* Every call of append keeps the buffer well-formed and is a Put.         *)
LEMMA AppendStep ==
  ASSUME InlineTypeOK, NEW data \in Data, AppendCall(data)
  PROVE  InlineTypeOK' /\ Text!Put(data)
<1>1. data \in Seq(Char) /\ BufferOK(buf)
  BY ObjectAssumption DEF InlineTypeOK
<1>2. buf' = BufAppend(buf, data) /\ erased' = -1
  BY DEF AppendCall
<1>3. BufferOK(BufAppend(buf, data))
      /\ View(BufAppend(buf, data)) = View(buf) \o data
  BY <1>1, AppendEffect
<1>4. InlineTypeOK'  BY <1>2, <1>3 DEF InlineTypeOK
<1>5. View(buf)' = View(buf) \o data  BY <1>2, <1>3
<1> QED  BY <1>4, <1>5 DEF Text!Put

(* Every call of erase is a Cut, or changes nothing of the text.           *)
LEMMA EraseStep ==
  ASSUME InlineTypeOK, NEW k \in 0 .. MaxLength, EraseCall(k)
  PROVE  InlineTypeOK' /\ (Text!Cut(k) \/ View(buf)' = View(buf))
<1>1. BufferOK(buf) /\ buf.size \in Nat /\ k \in 0 .. buf.size
  BY DEF InlineTypeOK, BufferOK, EraseCall
<1>2. buf' = BufErase(buf, k) /\ erased' = k
  BY DEF EraseCall
<1>3. /\ BufferOK(BufErase(buf, k))
      /\ View(BufErase(buf, k)) = IF k < InlineCapacity
                                  THEN SubSeq(View(buf), 1, k) ELSE View(buf)
  BY <1>1, EraseEffect
<1>4. InlineTypeOK'  BY <1>1, <1>2, <1>3 DEF InlineTypeOK
<1>5. Len(View(buf)) = buf.size  BY <1>1, ViewElements
<1>6. View(buf)' = View(BufErase(buf, k))  BY <1>2
<1>7. CASE k < InlineCapacity
  BY <1>1, <1>3, <1>4, <1>5, <1>6, <1>7 DEF Text!Cut
<1>8. CASE ~(k < InlineCapacity)
  BY <1>3, <1>4, <1>6, <1>8
<1> QED  BY <1>7, <1>8

(* Every step keeps the buffer well-formed and is a step of TextBuffer or  *)
(* changes nothing of the text.                                            *)
LEMMA InlineStep ==
  ASSUME InlineTypeOK, [InlineNext]_inlineVars
  PROVE  InlineTypeOK' /\ [Text!Next]_(View(buf))
<1>1. ASSUME NEW data \in Data, AppendCall(data)
      PROVE  InlineTypeOK' /\ [Text!Next]_(View(buf))
  BY <1>1, AppendStep DEF Text!Next
<1>2. ASSUME NEW data \in Data, Xsputn(data)
      PROVE  InlineTypeOK' /\ [Text!Next]_(View(buf))
  BY <1>1, <1>2 DEF Xsputn
<1>3. ASSUME NEW c \in {EOF} \cup {d[1] : d \in {x \in Data : Len(x) = 1}},
             Overflow(c)
      PROVE  InlineTypeOK' /\ [Text!Next]_(View(buf))
  <2>1. CASE c = EOF
    BY <1>3, <2>1 DEF Overflow, InlineTypeOK
  <2>2. CASE c # EOF
    <3>1. PICK d \in Data : Len(d) = 1 /\ c = d[1]
      BY <1>3, <2>2
    <3>2. d \in Seq(Char)  BY ObjectAssumption
    <3>3. << c >> = d
      BY <3>1, <3>2, SameElements
    <3>4. AppendCall(d)
      BY <1>3, <2>2, <3>3 DEF Overflow
    <3> QED  BY <1>1, <3>4
  <2> QED  BY <2>1, <2>2
<1>4. ASSUME NEW k \in 0 .. MaxLength, EraseCall(k)
      PROVE  InlineTypeOK' /\ [Text!Next]_(View(buf))
  <2>1. InlineTypeOK' /\ (Text!Cut(k) \/ View(buf)' = View(buf))
    BY <1>4, EraseStep
  <2>2. Text!Cut(k) => k \in 0 .. InlineCapacity - 1
    BY InlineBufferAssumption DEF Text!Cut
  <2> QED  BY <2>1, <2>2 DEF Text!Next
<1>5. CASE UNCHANGED inlineVars
  BY <1>5 DEF inlineVars, InlineTypeOK
<1> QED  BY <1>1, <1>2, <1>3, <1>4, <1>5 DEF InlineNext

(* The text is in the array and fits it, or is the vector: the buffer is   *)
(* always in one of its two shapes, and size() counts what view() shows.   *)
THEOREM InlineTypes == InlineSpec => []InlineTypeOK
<1>1. InlineInit => InlineTypeOK  BY EmptyEffect DEF InlineInit, InlineTypeOK
<1>2. InlineTypeOK /\ [InlineNext]_inlineVars => InlineTypeOK'  BY InlineStep
<1> QED  BY <1>1, <1>2, PTL DEF InlineSpec

(* The text is what was appended and not cut off, wherever it lives.       *)
THEOREM InlineRefines == InlineSpec => ImplementsTextBuffer
<1>1. InlineInit => Text!Init  BY EmptyEffect DEF InlineInit, Text!Init
<1>2. InlineTypeOK /\ [InlineNext]_inlineVars => [Text!Next]_(View(buf))
  BY InlineStep
<1> QED
  BY <1>1, <1>2, InlineTypes, PTL
     DEF InlineSpec, ImplementsTextBuffer, Text!Spec
=============================================================================
