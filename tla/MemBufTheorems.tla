-------------------------- MODULE MemBufTheorems ---------------------------
(***************************************************************************)
(* Facts about the two containers of include/membuf.h that other modules   *)
(* use: RingCells, for every number of cells, cited by the proofs about    *)
(* the ring buffers, and InlineBuffer, for every capacity and alphabet,    *)
(* cited by those about text.                                              *)
(***************************************************************************)
EXTENDS RingCells, InlineBuffer, SequenceTheorems, TLAPS

-----------------------------------------------------------------------------
(* RingCells.  The modulus is removed once (SuccValue); after that a ring  *)
(* is linear arithmetic on its two indices.                                *)

(* (i + 1) modulo the number of cells, without the modulus.                *)
LEMMA SuccValue ==
  ASSUME NEW i \in Slot
  PROVE  /\ Succ(i) = IF i = Cells - 1 THEN 0 ELSE i + 1
         /\ Succ(i) \in Slot
<1>1. CASE i = Cells - 1
  <2>1. Cells % Cells = 0
    BY CellsAssumption, SMT
  <2>2. QED BY <1>1, <2>1, CellsAssumption DEF Succ, Slot
<1>2. CASE i # Cells - 1
  <2>1. (i + 1) % Cells = i + 1
    BY <1>2, CellsAssumption, SMT DEF Slot
  <2>2. QED BY <1>2, <2>1, CellsAssumption DEF Succ, Slot
<1>3. QED BY <1>1, <1>2

(* Bounds of the number of elements, and what the code's tests for empty   *)
(* (head = tail) and full (the successor of tail is head) say about it.    *)
LEMMA SpanBounds ==
  ASSUME NEW h \in Slot, NEW t \in Slot
  PROVE  /\ Span(h, t) \in 0 .. Cells - 1
         /\ h = t <=> Span(h, t) = 0
         /\ Succ(t) = h <=> Span(h, t) = Cells - 1
BY SuccValue, CellsAssumption DEF Slot, Span

(* The cells in use, by their position relative to the two indices.        *)
LEMMA WindowCells ==
  ASSUME NEW h \in Slot, NEW t \in Slot, NEW c \in Slot
  PROVE  c \in Window(h, t) <=> IF h <= t THEN h <= c /\ c < t
                                          ELSE h <= c \/ c < t
<1> DEFINE position == IF h <= c THEN c - h + 1 ELSE c - h + 1 + Cells
<1>1. ASSUME IF h <= t THEN h <= c /\ c < t ELSE h <= c \/ c < t
      PROVE  c \in Window(h, t)
  <2>1. position \in 1 .. Span(h, t) /\ Cell(h, position) = c
    BY <1>1, CellsAssumption DEF Slot, Span, Cell
  <2>2. QED BY <2>1 DEF Window
<1>2. ASSUME c \in Window(h, t)
      PROVE  IF h <= t THEN h <= c /\ c < t ELSE h <= c \/ c < t
  <2>1. PICK i \in 1 .. Span(h, t) : c = Cell(h, i)
    BY <1>2 DEF Window
  <2>2. QED
    BY <2>1, CellsAssumption DEF Slot, Span, Cell
<1>3. QED BY <1>1, <1>2

(* Every position of the window is a cell.                                 *)
LEMMA CellInSlot ==
  ASSUME NEW h \in Slot, NEW t \in Slot, NEW i \in 1 .. Span(h, t)
  PROVE  Cell(h, i) \in Slot /\ Cell(h, i) \in Window(h, t)
BY CellsAssumption DEF Slot, Span, Cell, Window

(* A well-formed ring: its indices are cells, its storage holds values of  *)
(* V, and exactly the cells in use hold one.                               *)
Ring(V, h, t, s) ==
  /\ h \in Slot
  /\ t \in Slot
  /\ s \in [Slot -> V \cup {Raw}]
  /\ Live(h, t, s)

(* The elements of a live ring are a sequence of its values.               *)
LEMMA ElementsType ==
  ASSUME NEW V, NEW h, NEW t, NEW s, Ring(V, h, t, s)
  PROVE  Elements(h, t, s) \in Seq(V) /\ Len(Elements(h, t, s)) = Span(h, t)
<1> USE DEF Ring
<1>1. Span(h, t) \in Nat
  BY SpanBounds, CellsAssumption
<1>2. \A i \in 1 .. Span(h, t) : s[Cell(h, i)] \in V
  BY CellInSlot DEF Live
<1>3. Elements(h, t, s) \in [1 .. Span(h, t) -> V]
  BY <1>2 DEF Elements
<1>4. QED
  BY <1>1, <1>3 DEF Elements

(* Destroying the oldest element keeps the ring live; what remains is the  *)
(* tail of the sequence of elements.                                       *)
LEMMA DropOldest ==
  ASSUME NEW V, NEW h, NEW t, NEW s, Ring(V, h, t, s), h # t
  PROVE  /\ Ring(V, Succ(h), t, Cleared(s, h))
         /\ Elements(Succ(h), t, Cleared(s, h)) = Tail(Elements(h, t, s))
         /\ Elements(h, t, s) # << >>
         /\ s[h] = Head(Elements(h, t, s))
<1> DEFINE h2 == Succ(h)
           s2 == Cleared(s, h)
<1>0. /\ h \in Slot /\ t \in Slot /\ Live(h, t, s)
      /\ s \in [Slot -> V \cup {Raw}]
      /\ s2 \in [Slot -> V \cup {Raw}]
      /\ \A c \in Slot : s2[c] = IF c = h THEN Raw ELSE s[c]
  BY DEF Ring, Cleared
<1> HIDE DEF s2
<1>1. h2 = (IF h = Cells - 1 THEN 0 ELSE h + 1) /\ h2 \in Slot
  BY <1>0, SuccValue
<1>2. Span(h2, t) = Span(h, t) - 1
  BY <1>0, <1>1, CellsAssumption DEF Slot, Span
<1>3. ASSUME NEW c \in Slot
      PROVE  c \in Window(h2, t) <=> c \in Window(h, t) /\ c # h
  BY <1>0, <1>1, WindowCells, CellsAssumption DEF Slot
<1>4. Ring(V, h2, t, s2)
  <2>1. Live(h2, t, s2)
    BY <1>0, <1>3 DEF Live
  <2>2. QED BY <1>0, <1>1, <2>1 DEF Ring
<1>5. /\ Elements(h, t, s) \in Seq(V)
      /\ Elements(h, t, s) # << >>
      /\ Len(Elements(h, t, s)) = Span(h, t)
      /\ \A i \in 1 .. Span(h, t) : Elements(h, t, s)[i] = s[Cell(h, i)]
  <2>1. Span(h, t) \in 1 .. Cells - 1
    BY <1>0, SpanBounds, CellsAssumption
  <2>2. Elements(h, t, s) \in Seq(V) /\ Len(Elements(h, t, s)) = Span(h, t)
    BY ElementsType
  <2>3. QED BY <2>1, <2>2, EmptySeq DEF Elements
<1>6. /\ Tail(Elements(h, t, s)) \in Seq(V)
      /\ Len(Tail(Elements(h, t, s))) = Span(h2, t)
      /\ \A i \in 1 .. Span(h2, t) :
           Tail(Elements(h, t, s))[i] = s[Cell(h, i + 1)]
  <2>1. /\ Tail(Elements(h, t, s)) \in Seq(V)
        /\ Len(Tail(Elements(h, t, s))) = Span(h, t) - 1
        /\ \A i \in 1 .. Span(h, t) - 1 :
             Tail(Elements(h, t, s))[i] = Elements(h, t, s)[i + 1]
    BY <1>5, HeadTailProperties
  <2>2. \A i \in 1 .. Span(h, t) - 1 : i + 1 \in 1 .. Span(h, t)
    BY <1>0, SpanBounds, CellsAssumption
  <2>3. QED BY <1>2, <1>5, <2>1, <2>2
<1>7. /\ Elements(h2, t, s2) \in Seq(V)
      /\ Len(Elements(h2, t, s2)) = Span(h2, t)
      /\ \A i \in 1 .. Span(h2, t) :
           Elements(h2, t, s2)[i] = s2[Cell(h2, i)]
  <2>1. Elements(h2, t, s2) \in Seq(V) /\ Len(Elements(h2, t, s2)) = Span(h2, t)
    BY <1>4, ElementsType
  <2>2. QED BY <2>1 DEF Elements
<1>8. \A i \in 1 .. Span(h2, t) : s2[Cell(h2, i)] = s[Cell(h, i + 1)]
  <2> TAKE i \in 1 .. Span(h2, t)
  <2>1. Cell(h2, i) = Cell(h, i + 1) /\ Cell(h2, i) # h
    BY <1>0, <1>1, CellsAssumption DEF Slot, Span, Cell
  <2>2. Cell(h2, i) \in Slot
    BY <1>0, <1>1, CellInSlot
  <2>3. QED BY <1>0, <2>1, <2>2
<1>9. Elements(h2, t, s2) = Tail(Elements(h, t, s))
  <2>1. \A i \in 1 .. Span(h2, t) :
          Elements(h2, t, s2)[i] = Tail(Elements(h, t, s))[i]
    BY <1>6, <1>7, <1>8
  <2>2. QED BY <1>6, <1>7, <2>1, SeqEqual
<1>10. s[h] = Head(Elements(h, t, s))
  <2>1. 1 \in 1 .. Span(h, t) /\ Cell(h, 1) = h
    BY <1>0, CellsAssumption DEF Slot, Span, Cell
  <2>2. QED BY <1>5, <2>1
<1>11. QED
  BY <1>4, <1>5, <1>9, <1>10 DEF s2

(* Constructing a value in the tail cell of a ring with room keeps the     *)
(* ring live; the value is appended to the sequence of elements.           *)
LEMMA StoreNewest ==
  ASSUME NEW V, NEW h, NEW t, NEW s, Ring(V, h, t, s), Succ(t) # h,
         NEW v \in V, v # Raw
  PROVE  /\ Ring(V, h, Succ(t), Filled(s, t, v))
         /\ Elements(h, Succ(t), Filled(s, t, v)) = Append(Elements(h, t, s), v)
<1> DEFINE t2 == Succ(t)
           s2 == Filled(s, t, v)
<1>0. /\ h \in Slot /\ t \in Slot /\ Live(h, t, s)
      /\ s \in [Slot -> V \cup {Raw}]
      /\ s2 \in [Slot -> V \cup {Raw}]
      /\ \A c \in Slot : s2[c] = IF c = t THEN v ELSE s[c]
  BY DEF Ring, Filled
<1> HIDE DEF s2
<1>1. t2 = (IF t = Cells - 1 THEN 0 ELSE t + 1) /\ t2 \in Slot
  BY <1>0, SuccValue
<1>2. Span(h, t2) = Span(h, t) + 1
  BY <1>0, <1>1, CellsAssumption DEF Slot, Span
<1>3. ASSUME NEW c \in Slot
      PROVE  c \in Window(h, t2) <=> c \in Window(h, t) \/ c = t
  BY <1>0, <1>1, WindowCells, CellsAssumption DEF Slot
<1>4. Ring(V, h, t2, s2)
  <2>1. Live(h, t2, s2)
    BY <1>0, <1>3 DEF Live
  <2>2. QED BY <1>0, <1>1, <2>1 DEF Ring
<1>5. /\ Elements(h, t, s) \in Seq(V)
      /\ Len(Elements(h, t, s)) = Span(h, t)
      /\ \A i \in 1 .. Span(h, t) : Elements(h, t, s)[i] = s[Cell(h, i)]
  <2>1. Elements(h, t, s) \in Seq(V) /\ Len(Elements(h, t, s)) = Span(h, t)
    BY ElementsType
  <2>2. QED BY <2>1 DEF Elements
<1>6. /\ Append(Elements(h, t, s), v) \in Seq(V)
      /\ Len(Append(Elements(h, t, s), v)) = Span(h, t2)
      /\ \A i \in 1 .. Span(h, t) :
           Append(Elements(h, t, s), v)[i] = s[Cell(h, i)]
      /\ Append(Elements(h, t, s), v)[Span(h, t2)] = v
  BY <1>2, <1>5, AppendProperties
<1>7. /\ Elements(h, t2, s2) \in Seq(V)
      /\ Len(Elements(h, t2, s2)) = Span(h, t2)
      /\ \A i \in 1 .. Span(h, t2) :
           Elements(h, t2, s2)[i] = s2[Cell(h, i)]
  <2>1. Elements(h, t2, s2) \in Seq(V) /\ Len(Elements(h, t2, s2)) = Span(h, t2)
    BY <1>4, ElementsType
  <2>2. QED BY <2>1 DEF Elements
<1>8. \A i \in 1 .. Span(h, t) : s2[Cell(h, i)] = s[Cell(h, i)]
  <2> TAKE i \in 1 .. Span(h, t)
  <2>1. Cell(h, i) # t
    BY <1>0, CellsAssumption DEF Slot, Span, Cell
  <2>2. QED BY <1>0, <2>1, CellInSlot
<1>9. s2[Cell(h, Span(h, t2))] = v
  <2>1. Cell(h, Span(h, t2)) = t
    BY <1>0, <1>2, CellsAssumption DEF Slot, Span, Cell
  <2>2. QED BY <1>0, <2>1
<1>10. \A i \in 1 .. Span(h, t2) :
         Elements(h, t2, s2)[i] = Append(Elements(h, t, s), v)[i]
  <2>1. \A i \in 1 .. Span(h, t2) : i \in 1 .. Span(h, t) \/ i = Span(h, t2)
    BY <1>0, <1>2, SpanBounds, CellsAssumption
  <2>2. QED BY <1>6, <1>7, <1>8, <1>9, <2>1
<1>11. Elements(h, t2, s2) = Append(Elements(h, t, s), v)
  BY <1>6, <1>7, <1>10, SeqEqual
<1>12. QED
  BY <1>4, <1>11 DEF s2

-----------------------------------------------------------------------------
(* InlineBuffer: what append and erase do to the text.                     *)

(* Sequences are equal when they have one length and the same elements.    *)
LEMMA SameElements ==
  ASSUME NEW S, NEW s \in Seq(S), NEW t \in Seq(S),
         Len(s) = Len(t), \A i \in 1 .. Len(s) : s[i] = t[i]
  PROVE  s = t
  OBVIOUS

(* What is at a place of a concatenation.                                  *)
LEMMA JoinedElements ==
  ASSUME NEW S, NEW s \in Seq(S), NEW t \in Seq(S)
  PROVE  /\ s \o t \in Seq(S) /\ Len(s \o t) = Len(s) + Len(t)
         /\ \A i \in 1 .. Len(s) + Len(t) :
              (s \o t)[i] = IF i <= Len(s) THEN s[i] ELSE t[i - Len(s)]
  OBVIOUS

(* view() is a text of size() characters.                                  *)
LEMMA ViewElements ==
  ASSUME NEW b, BufferOK(b)
  PROVE  /\ View(b) \in Seq(Char)
         /\ Len(View(b)) = b.size
         /\ \A i \in 1 .. b.size :
              View(b)[i] = IF b.overflow = << >> THEN b.inline[i]
                                                 ELSE b.overflow[i]
<1> USE InlineBufferAssumption
<1>1. CASE b.overflow = << >>
  <2>1. b.inline \in Seq(Char) /\ Len(b.inline) = InlineCapacity
    BY DEF BufferOK
  <2>2. b.size \in Nat /\ b.size <= InlineCapacity
    BY <1>1 DEF BufferOK
  <2> QED  BY <1>1, <2>1, <2>2 DEF View
<1>2. CASE b.overflow # << >>
  <2>1. b.overflow \in Seq(Char) /\ b.size = Len(b.overflow)
    BY <1>2 DEF BufferOK
  <2> QED  BY <1>2, <2>1 DEF View
<1> QED  BY <1>1, <1>2

(* append(data) puts data behind the text, wherever the text lives.        *)
LEMMA AppendEffect ==
  ASSUME NEW b, BufferOK(b), NEW data \in Seq(Char)
  PROVE  /\ BufferOK(BufAppend(b, data))
         /\ View(BufAppend(b, data)) = View(b) \o data
<1> DEFINE c == BufAppend(b, data)
<1> USE InlineBufferAssumption
<1>v. /\ View(b) \in Seq(Char) /\ Len(View(b)) = b.size
      /\ \A i \in 1 .. b.size :
           View(b)[i] = IF b.overflow = << >> THEN b.inline[i]
                                              ELSE b.overflow[i]
  BY ViewElements
<1>1. CASE data = << >>
  <2>1. c = b  BY <1>1 DEF BufAppend
  <2>2. View(b) \o data = View(b)  BY <1>v, <1>1
  <2> QED  BY <2>1, <2>2
<1>2. CASE data # << >> /\ Fits(b, data)
  <2> DEFINE inl == Copied(b.inline, b.size, data)
  <2>0. /\ b.inline \in [1 .. InlineCapacity -> Char]
        /\ b.overflow = << >> /\ b.size \in Nat
        /\ b.size + Len(data) <= InlineCapacity /\ Len(data) \in Nat
    BY <1>2 DEF BufferOK, Fits
  <2>1. inl \in [1 .. InlineCapacity -> Char]
    BY <2>0 DEF Copied
  <2>2. c = [b EXCEPT !.inline = inl, !.size = b.size + Len(data)]
    BY <1>2 DEF BufAppend
  <2>3. c.inline = inl /\ c.overflow = << >> /\ c.size = b.size + Len(data)
    BY <2>0, <2>2 DEF BufferOK
  <2>4. BufferOK(c)
    <3>1. c \in [inline : [1 .. InlineCapacity -> Char], overflow : Seq(Char),
                 size : Nat]
      <4>1. b.size + Len(data) \in Nat  BY <2>0
      <4> HIDE DEF inl, c
      <4> QED  BY <2>1, <2>2, <4>1 DEF BufferOK
    <3> QED  BY <3>1, <2>0, <2>3 DEF BufferOK
  <2>5. /\ View(c) \in Seq(Char) /\ Len(View(c)) = c.size
        /\ \A i \in 1 .. c.size : View(c)[i] = inl[i]
    BY <2>3, <2>4, ViewElements
  <2>6. ASSUME NEW i \in 1 .. c.size  PROVE inl[i] = (View(b) \o data)[i]
    <3>1. inl[i] = IF b.size < i /\ i <= b.size + Len(data)
                   THEN data[i - b.size] ELSE b.inline[i]
      BY <2>0, <2>3 DEF Copied
    <3>2. (View(b) \o data)[i] = IF i <= b.size THEN View(b)[i]
                                                ELSE data[i - b.size]
      BY <1>v, <2>0, <2>3, JoinedElements
    <3>3. i <= b.size => View(b)[i] = b.inline[i]
      BY <1>v, <2>0
    <3> HIDE DEF inl
    <3> QED  BY <2>0, <2>3, <3>1, <3>2, <3>3
  <2>7. View(b) \o data \in Seq(Char) /\ Len(View(b) \o data) = c.size
    BY <1>v, <2>3
  <2>8. View(c) = View(b) \o data
    BY <2>5, <2>6, <2>7, SameElements
  <2> QED  BY <2>4, <2>8
<1>3. CASE data # << >> /\ ~Fits(b, data)
  <2>1. Spilled(b) = View(b)
    <3>1. CASE b.overflow = << >>  BY <3>1 DEF Spilled, View
    <3>2. CASE b.overflow # << >>
      <4>1. b.overflow \in Seq(Char) /\ b.size = Len(b.overflow)
        BY <3>2 DEF BufferOK
      <4>2. View(b) = b.overflow
        BY <1>v, <3>2, <4>1, SameElements
      <4> QED  BY <3>2, <4>2 DEF Spilled
    <3> QED  BY <3>1, <3>2
  <2> DEFINE all == View(b) \o data
  <2>2. c = [b EXCEPT !.overflow = all, !.size = Len(View(b)) + Len(data)]
    BY <1>3, <2>1 DEF BufAppend
  <2>3. all \in Seq(Char) /\ all # << >> /\ Len(all) = Len(View(b)) + Len(data)
    <3>1. Len(data) \in Nat /\ Len(data) # 0 /\ Len(View(b)) \in Nat
      BY <1>v, <1>3
    <3>2. all \in Seq(Char) /\ Len(all) = Len(View(b)) + Len(data)
      BY <1>v, JoinedElements
    <3>3. Len(all) # 0  BY <3>1, <3>2
    <3> HIDE DEF all
    <3> QED  BY <3>2, <3>3
  <2>4. c.overflow = all /\ c.size = Len(all)
    BY <2>2, <2>3 DEF BufferOK
  <2>5. BufferOK(c)
    <3>1. c \in [inline : [1 .. InlineCapacity -> Char], overflow : Seq(Char),
                 size : Nat]
      <4>1. Len(View(b)) + Len(data) \in Nat  BY <1>v
      <4> HIDE DEF all, c
      <4> QED  BY <2>2, <2>3, <4>1 DEF BufferOK
    <3> QED  BY <3>1, <2>3, <2>4 DEF BufferOK
  <2> HIDE DEF all, c
  <2>6. /\ View(c) \in Seq(Char) /\ Len(View(c)) = c.size
        /\ \A i \in 1 .. c.size : View(c)[i] = all[i]
    <3>1. c.overflow # << >>  BY <2>3, <2>4
    <3> QED  BY <2>4, <2>5, <3>1, ViewElements
  <2>7. View(c) = all  BY <2>3, <2>4, <2>6, SameElements
  <2> USE DEF all, c
  <2> QED  BY <2>5, <2>7
<1> QED  BY <1>1, <1>2, <1>3

(* erase(k) keeps the first k characters, if k is inside the array.        *)
LEMMA EraseEffect ==
  ASSUME NEW b, BufferOK(b), NEW k \in 0 .. b.size
  PROVE  /\ BufferOK(BufErase(b, k))
         /\ View(BufErase(b, k)) = IF k < InlineCapacity
                                   THEN SubSeq(View(b), 1, k) ELSE View(b)
<1> DEFINE c == BufErase(b, k)
<1> USE InlineBufferAssumption
<1>v. /\ View(b) \in Seq(Char) /\ Len(View(b)) = b.size
      /\ \A i \in 1 .. b.size :
           View(b)[i] = IF b.overflow = << >> THEN b.inline[i]
                                              ELSE b.overflow[i]
  BY ViewElements
<1>k. k \in Nat /\ k <= b.size /\ b.size \in Nat
  BY DEF BufferOK
<1>s. /\ SubSeq(View(b), 1, k) \in Seq(Char)
      /\ Len(SubSeq(View(b), 1, k)) = k
      /\ \A i \in 1 .. k : SubSeq(View(b), 1, k)[i] = View(b)[i]
  BY <1>v, <1>k
<1>1. CASE k >= InlineCapacity
  BY <1>1, <1>k DEF BufErase
<1>2. CASE k < InlineCapacity /\ b.overflow = << >>
  <2> DEFINE inl == [b.inline EXCEPT ![k + 1] = NUL]
  <2>0. b.inline \in [1 .. InlineCapacity -> Char]  BY DEF BufferOK
  <2>1. c = [b EXCEPT !.inline = inl, !.size = k]
    BY <1>2, <1>k DEF BufErase
  <2>2. inl \in [1 .. InlineCapacity -> Char]  BY <2>0
  <2>3. c.inline = inl /\ c.overflow = << >> /\ c.size = k
    BY <1>2, <2>1 DEF BufferOK
  <2>4. BufferOK(c)
    <3>1. c \in [inline : [1 .. InlineCapacity -> Char], overflow : Seq(Char),
                 size : Nat]
      BY <1>k, <2>1, <2>2 DEF BufferOK
    <3> QED  BY <3>1, <1>2, <1>k, <2>3 DEF BufferOK
  <2>5. /\ View(c) \in Seq(Char) /\ Len(View(c)) = k
        /\ \A i \in 1 .. k : View(c)[i] = inl[i]
    <3>1. /\ View(c) \in Seq(Char) /\ Len(View(c)) = c.size
          /\ \A i \in 1 .. c.size :
               View(c)[i] = IF c.overflow = << >> THEN c.inline[i]
                                                  ELSE c.overflow[i]
      BY <2>4, ViewElements
    <3> HIDE DEF c, inl
    <3>2. QED BY <2>3, <3>1
  <2>6. ASSUME NEW i \in 1 .. k PROVE inl[i] = View(b)[i]
    <3>1. i \in 1 .. b.size /\ i \in 1 .. InlineCapacity /\ i # k + 1
      BY <1>k, <1>2
    <3>2. View(b)[i] = b.inline[i]
      BY <1>v, <1>2, <3>1
    <3>3. inl[i] = b.inline[i]
      BY <2>0, <3>1
    <3>4. QED BY <3>2, <3>3
  <2>7. View(c) = SubSeq(View(b), 1, k)
    BY <1>s, <2>5, <2>6, SameElements
  <2> QED  BY <1>2, <2>4, <2>7
<1>3. CASE k < InlineCapacity /\ b.overflow # << >>
  <2> DEFINE ovf == Resized(b.overflow, k)
  <2>0. b.overflow \in Seq(Char) /\ b.size = Len(b.overflow)
    BY <1>3 DEF BufferOK
  <2>1. c = [b EXCEPT !.overflow = ovf, !.size = k]
    BY <1>3, <1>k DEF BufErase
  <2>2. /\ ovf \in Seq(Char) /\ Len(ovf) = k
        /\ \A i \in 1 .. k : ovf[i] = View(b)[i]
    BY <1>v, <1>k, <1>3, <2>0 DEF Resized
  <2>3. c.overflow = ovf /\ c.size = k
    BY <2>1 DEF BufferOK
  <2>4. BufferOK(c)
    <3>1. c \in [inline : [1 .. InlineCapacity -> Char], overflow : Seq(Char),
                 size : Nat]
      BY <1>k, <2>1, <2>2 DEF BufferOK
    <3>2. ovf = << >> => k <= InlineCapacity
      BY <1>3, <1>k
    <3> QED  BY <3>1, <3>2, <2>2, <2>3 DEF BufferOK
  <2>5. /\ View(c) \in Seq(Char) /\ Len(View(c)) = k
        /\ \A i \in 1 .. k : ovf # << >> => View(c)[i] = ovf[i]
    BY <2>3, <2>4, ViewElements
  <2>6. \A i \in 1 .. k : ovf # << >>
    BY <2>2
  <2>7. View(c) = SubSeq(View(b), 1, k)
    BY <1>s, <2>2, <2>5, <2>6, SameElements
  <2> QED  BY <1>3, <2>4, <2>7
<1> QED  BY <1>1, <1>2, <1>3, <1>k

(* The new buffer is well-formed and empty.                                *)
LEMMA EmptyEffect == BufferOK(EmptyBuffer) /\ View(EmptyBuffer) = << >>
<1> USE InlineBufferAssumption
<1>1. BufferOK(EmptyBuffer)
  BY DEF BufferOK, EmptyBuffer
<1>2. Len(View(EmptyBuffer)) = 0 /\ View(EmptyBuffer) \in Seq(Char)
  BY <1>1, ViewElements DEF EmptyBuffer
<1> QED  BY <1>1, <1>2

(* What is at a place of s \o t from the end of s on, and before it.       *)
LEMMA Behind ==
  ASSUME NEW s \in Seq(Char), NEW t \in Seq(Char)
  PROVE  /\ s \o t \in Seq(Char) /\ Len(s \o t) = Len(s) + Len(t)
         /\ SubSeq(s \o t, Len(s) + 1, Len(s \o t)) = t
         /\ \A i \in 1 .. Len(s) : (s \o t)[i] = s[i]
<1> DEFINE u == s \o t
           n == Len(s)
           m == Len(t)
           v == SubSeq(u, n + 1, n + m)
<1>1. /\ u \in Seq(Char) /\ Len(u) = n + m /\ n \in Nat /\ m \in Nat
      /\ \A i \in 1 .. n + m : u[i] = IF i <= n THEN s[i] ELSE t[i - n]
  BY JoinedElements
<1> HIDE DEF u, n, m
<1>2. /\ v \in Seq(Char) /\ Len(v) = m
      /\ \A i \in 1 .. m : v[i] = u[n + i]
  BY <1>1
<1>3. \A i \in 1 .. m : v[i] = t[i]
  BY <1>1, <1>2
<1> HIDE DEF v
<1>4. v = t
  BY <1>2, <1>3, SameElements DEF m
<1>5. \A i \in 1 .. n : u[i] = s[i]
  BY <1>1
<1>6. QED BY <1>1, <1>4, <1>5 DEF u, n, m, v

(* c begins with what b holds.                                             *)
Extends(c, b) ==
  /\ BufferOK(b) /\ BufferOK(c) /\ b.size <= c.size
  /\ \A i \in 1 .. b.size : View(c)[i] = View(b)[i]

(* What c has behind that.                                                 *)
Added(c, b) == SubSeq(View(c), b.size + 1, c.size)

(* append(t) keeps what there is and adds t.                               *)
LEMMA AppendAdds ==
  ASSUME NEW b, BufferOK(b), NEW t \in Seq(Char)
  PROVE  /\ Extends(BufAppend(b, t), b)
         /\ BufAppend(b, t).size = b.size + Len(t)
         /\ Added(BufAppend(b, t), b) = t
         /\ View(BufAppend(b, t)) = View(b) \o t
<1> DEFINE c == BufAppend(b, t)
           s == View(b)
<1>1. BufferOK(c) /\ View(c) = s \o t
  BY AppendEffect
<1>2. s \in Seq(Char) /\ Len(s) = b.size /\ Len(View(c)) = c.size /\ b.size \in Nat
  BY <1>1, ViewElements DEF BufferOK
<1> HIDE DEF c, s
<1>3. /\ Len(s \o t) = Len(s) + Len(t) /\ SubSeq(s \o t, Len(s) + 1, Len(s \o t)) = t
      /\ \A i \in 1 .. Len(s) : (s \o t)[i] = s[i]
  <2>1. s \in Seq(Char)
    BY <1>2
  <2>2. QED BY <2>1, Behind
<1>4. c.size = b.size + Len(t) /\ b.size <= c.size
  <2> DEFINE n == Len(t)
             z == c.size
             a == b.size
  <2>1. z = a + n /\ n \in Nat /\ a \in Nat
    <3>1. n \in Nat
      OBVIOUS
    <3>2. QED BY <1>1, <1>2, <1>3, <3>1
  <2> HIDE DEF n, z, a
  <2>2. z = a + n /\ a <= z
    BY <2>1
  <2>3. QED BY <2>2 DEF n, z, a
<1>5. SubSeq(View(c), b.size + 1, c.size) = t
  BY <1>1, <1>2, <1>3
<1>6. \A i \in 1 .. b.size : View(c)[i] = s[i]
  BY <1>1, <1>2, <1>3
<1>7. QED BY <1>1, <1>4, <1>5, <1>6 DEF c, s, Extends, Added

(* What one text is in a part of another, that begins with it.             *)
LEMMA SameParts ==
  ASSUME NEW c, NEW b, Extends(c, b), NEW i \in Nat, NEW j \in Nat,
         i >= 1, j <= b.size
  PROVE  SubSeq(View(c), i, j) = SubSeq(View(b), i, j)
<1> DEFINE s == View(b)
           u == View(c)
           n == b.size
           m == c.size
           p == SubSeq(s, i, j)
           q == SubSeq(u, i, j)
<1>1. /\ s \in Seq(Char) /\ u \in Seq(Char) /\ Len(s) = n /\ Len(u) = m
      /\ n \in Nat /\ m \in Nat /\ n <= m /\ j <= n
      /\ \A k \in 1 .. n : u[k] = s[k]
  BY ViewElements DEF Extends, BufferOK
<1> HIDE DEF s, u, n, m
<1>2. CASE i <= j
  <2>1. /\ p \in Seq(Char) /\ q \in Seq(Char) /\ Len(p) = j - i + 1 /\ Len(q) = j - i + 1
        /\ \A k \in 1 .. j - i + 1 : p[k] = s[i + k - 1] /\ q[k] = u[i + k - 1]
    BY <1>1, <1>2
  <2>2. \A k \in 1 .. j - i + 1 : p[k] = q[k]
    BY <1>1, <1>2, <2>1
  <2> HIDE DEF p, q
  <2>3. p = q
    BY <2>1, <2>2, SameElements
  <2>4. QED BY <2>3 DEF p, q, s, u
<1>3. CASE ~ (i <= j)
  <2>1. p = << >> /\ q = << >>
    BY <1>1, <1>3
  <2>2. QED BY <2>1 DEF p, q, s, u
<1>4. QED BY <1>2, <1>3

(* What grows twice still begins with what there was at first.             *)
LEMMA ExtendsTwice ==
  ASSUME NEW b, NEW c, NEW d, Extends(c, b), Extends(d, c)
  PROVE  Extends(d, b)
<1>1. b.size \in Nat /\ c.size \in Nat /\ d.size \in Nat
  BY DEF Extends, BufferOK
<1>2. b.size <= c.size /\ c.size <= d.size
  BY DEF Extends
<1>3. b.size <= d.size
  BY <1>1, <1>2
<1>4. \A i \in 1 .. b.size : i \in 1 .. c.size
  BY <1>1, <1>2
<1>5. QED BY <1>3, <1>4 DEF Extends

(* erase(k), when k is not before what b holds and either inside the text  *)
(* or beyond the end of it, keeps b.                                       *)
LEMMA EraseAfter ==
  ASSUME NEW b, NEW c, Extends(c, b), NEW k \in Nat, b.size <= k
  PROVE  /\ Extends(BufErase(c, k), b)
         /\ BufErase(c, k).size = IF k < InlineCapacity THEN k ELSE c.size
         /\ k >= InlineCapacity => BufErase(c, k) = c
         /\ k <= c.size /\ k < InlineCapacity =>
              Added(BufErase(c, k), b) = SubSeq(View(c), b.size + 1, k)
<1> DEFINE d == BufErase(c, k)
<1> USE InlineBufferAssumption
<1>1. BufferOK(b) /\ BufferOK(c) /\ b.size <= c.size /\ b.size \in Nat /\ c.size \in Nat
  BY DEF Extends, BufferOK
<1>2. CASE k >= InlineCapacity
  BY <1>1, <1>2 DEF BufErase
<1>3. CASE k < InlineCapacity
  <2>1. d.size = k
    BY <1>1, <1>3 DEF BufErase, BufferOK
  <2>2. BufferOK(d)
    <3>1. CASE c.overflow = << >>
      <4> DEFINE inl == [c.inline EXCEPT ![k + 1] = NUL]
      <4>1. c.inline \in [1 .. InlineCapacity -> Char]
        BY <1>1 DEF BufferOK
      <4>2. d = [c EXCEPT !.inline = inl, !.size = k]
        BY <1>3, <3>1 DEF BufErase
      <4>3. inl \in [1 .. InlineCapacity -> Char]
        BY <4>1
      <4> HIDE DEF inl, d
      <4>4. d.overflow = << >> /\ d \in [inline : [1 .. InlineCapacity -> Char],
                                         overflow : Seq(Char), size : Nat]
        BY <1>1, <3>1, <4>2, <4>3 DEF BufferOK
      <4>5. QED BY <1>3, <2>1, <4>4 DEF BufferOK
    <3>2. CASE c.overflow # << >>
      <4> DEFINE ovf == Resized(c.overflow, k)
      <4>1. c.overflow \in Seq(Char)
        BY <1>1 DEF BufferOK
      <4>2. d = [c EXCEPT !.overflow = ovf, !.size = k]
        BY <1>3, <3>2 DEF BufErase
      <4>3. ovf \in Seq(Char) /\ Len(ovf) = k
        BY <4>1 DEF Resized
      <4> HIDE DEF ovf, d
      <4>4. d.overflow = ovf /\ d \in [inline : [1 .. InlineCapacity -> Char],
                                       overflow : Seq(Char), size : Nat]
        BY <1>1, <4>2, <4>3 DEF BufferOK
      <4>5. QED BY <1>3, <2>1, <4>3, <4>4 DEF BufferOK
    <3>3. QED BY <3>1, <3>2
  <2>3. ASSUME NEW i \in 1 .. k, i <= c.size PROVE View(d)[i] = View(c)[i]
    <3>1. i \in 1 .. d.size /\ i \in 1 .. c.size
      BY <1>1, <2>1, <2>3
    <3>2. CASE c.overflow = << >>
      <4> DEFINE inl == [c.inline EXCEPT ![k + 1] = NUL]
      <4>1. c.inline \in [1 .. InlineCapacity -> Char]
        BY <1>1 DEF BufferOK
      <4>2. d = [c EXCEPT !.inline = inl, !.size = k]
        BY <1>3, <3>2 DEF BufErase
      <4>3. inl[i] = c.inline[i]
        BY <4>1, <3>1, <1>3
      <4> HIDE DEF inl
      <4>4. d.overflow = << >> /\ d.inline = inl
        BY <1>1, <3>2, <4>2 DEF BufferOK
      <4> HIDE DEF d
      <4>5. View(d)[i] = d.inline[i] /\ View(c)[i] = c.inline[i]
        BY <1>1, <2>2, <3>1, <3>2, <4>4, ViewElements
      <4>6. QED BY <4>3, <4>4, <4>5
    <3>3. CASE c.overflow # << >>
      <4> DEFINE ovf == Resized(c.overflow, k)
      <4>1. c.overflow \in Seq(Char) /\ c.size = Len(c.overflow)
        BY <1>1, <3>3 DEF BufferOK
      <4>2. d = [c EXCEPT !.overflow = ovf, !.size = k]
        BY <1>3, <3>3 DEF BufErase
      <4>3. ovf[i] = c.overflow[i] /\ Len(ovf) = k /\ ovf \in Seq(Char)
        BY <4>1, <2>3 DEF Resized
      <4>4. ovf # << >>
        BY <4>3
      <4> HIDE DEF ovf
      <4>5. d.overflow = ovf
        BY <1>1, <4>2 DEF BufferOK
      <4> HIDE DEF d
      <4>6. View(d)[i] = d.overflow[i] /\ View(c)[i] = c.overflow[i]
        BY <1>1, <2>2, <3>1, <3>3, <4>4, <4>5, ViewElements
      <4>7. QED BY <4>3, <4>5, <4>6
    <3>4. QED BY <3>2, <3>3
  <2> HIDE DEF d
  <2>4. Extends(d, b)
    <3>1. \A i \in 1 .. b.size : i \in 1 .. k /\ i <= c.size
      BY <1>1
    <3>2. \A i \in 1 .. b.size : View(d)[i] = View(b)[i]
      BY <2>3, <3>1 DEF Extends
    <3>3. QED BY <1>1, <2>1, <2>2, <3>2 DEF Extends
  <2>5. ASSUME k <= c.size PROVE Added(d, b) = SubSeq(View(c), b.size + 1, k)
    <3>1. Extends(c, d)
      BY <1>1, <2>1, <2>2, <2>3, <2>5 DEF Extends
    <3>2. SubSeq(View(c), b.size + 1, k) = SubSeq(View(d), b.size + 1, k)
      <4>1. /\ b.size + 1 \in Nat /\ b.size + 1 >= 1 /\ k <= d.size
        BY <1>1, <2>1
      <4> DEFINE a == b.size + 1
      <4> HIDE DEF a
      <4>2. a \in Nat /\ a >= 1
        BY <4>1 DEF a
      <4>3. SubSeq(View(c), a, k) = SubSeq(View(d), a, k)
        BY <3>1, <4>1, <4>2, SameParts
      <4>4. QED BY <4>3 DEF a
    <3>3. QED BY <2>1, <3>2 DEF Added
  <2>6. QED BY <1>3, <2>1, <2>4, <2>5 DEF d
<1>4. QED BY <1>2, <1>3
=============================================================================
