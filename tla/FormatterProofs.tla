-------------------------- MODULE FormatterProofs --------------------------
(***************************************************************************)
(* Proofs of what PatternFormatter promises, for every set of patterns     *)
(* that can be read in one way only, every message, and all sizes: the     *)
(* formatters are those the pattern means (CompiledAsMeant), a clone       *)
(* formats as its original does (CloneIsAlike), fields are as wide as the  *)
(* pattern asks for (FieldWidths) and show the message (LineShowsMessage). *)
(*                                                                         *)
(* The first two rest on CompilerInv: the compilation of a pattern is      *)
(* always between two items of each list the pattern can be written from,  *)
(* or inside the text of one.  The other two rest on LineInv: the line is  *)
(* the color and the fields, and appending or cutting changes nothing      *)
(* before the field that is formatted.                                     *)
(*                                                                         *)
(* What folds and recursive functions yield is proved from the least       *)
(* counterexample (Least), which needs no theorem about an operator.       *)
(***************************************************************************)
EXTENDS PatternFormatter, MemBufTheorems, WellFoundedInduction,
        FiniteSetTheorems

-----------------------------------------------------------------------------
(* Induction, and the functions defined by it.                             *)

(* A set of natural numbers that is not empty has a least element: what    *)
(* the proofs by induction below rest on.                                  *)
LEMMA Least ==
  ASSUME NEW T \in SUBSET Nat, T # {}
  PROVE  \E m \in T : \A k \in T : m <= k
<1> DEFINE R == {ss \in Nat \X Nat : ss[1] < ss[2]}
<1>1. IsWellFoundedOn(R, Nat)
  BY NatLessThanWellFounded DEF OpToRel
<1> HIDE DEF R
<1>2. PICK m \in T : \A k \in T : <<k, m>> \notin R
  BY <1>1, WFMin, Zenon
<1>3. ASSUME NEW k \in T PROVE m <= k
  <2>1. k \in Nat /\ m \in Nat /\ <<k, m>> \notin R
    BY <1>2
  <2>2. ~ (k < m)
    BY <2>1 DEF R
  <2>3. QED BY <2>1, <2>2
<1>4. QED BY <1>3

(* Induction, on the set of numbers that are as they should be.            *)
LEMMA SetInduction ==
  ASSUME NEW S, 0 \in S, \A n \in Nat : n \in S => n + 1 \in S
  PROVE  Nat \subseteq S
<1>1. SUFFICES ASSUME NEW n \in Nat, n \notin S PROVE FALSE
  OBVIOUS
<1>2. PICK m \in Nat \ S : \A k \in Nat \ S : m <= k
  BY <1>1, Least
<1>3. m # 0 /\ m - 1 \in Nat /\ m - 1 \in S
  BY <1>2
<1>4. QED BY <1>2, <1>3

(* The greatest of a set of numbers from 1 to n that has one beyond m.     *)
LEMMA MaxOf ==
  ASSUME NEW n \in Nat, NEW s \in SUBSET (1 .. n), s # {}
  PROVE  /\ Max(s) \in s
         /\ n \in s => Max(s) = n
<1> DEFINE S == {m \in Nat : \A r \in SUBSET (1 .. m) :
                   r # {} => \E x \in r : \A y \in r : x >= y}
<1>1. 0 \in S
  <2>1. 1 .. 0 = {}
    OBVIOUS
  <2>2. QED BY <2>1, Zenon
<1>2. ASSUME NEW m \in Nat, m \in S PROVE m + 1 \in S
  <2>1. ASSUME NEW r \in SUBSET (1 .. m + 1), r # {}
        PROVE  \E x \in r : \A y \in r : x >= y
    <3>1. CASE m + 1 \in r
      BY <3>1
    <3>2. CASE m + 1 \notin r
      <4>1. r \in SUBSET (1 .. m)
        BY <3>2
      <4>2. QED BY <4>1, <1>2, <2>1
    <3>3. QED BY <3>1, <3>2
  <2>2. QED BY <2>1
<1>3. n \in S
  <2> HIDE DEF S
  <2>1. QED BY <1>1, <1>2, SetInduction
<1>4. \E x \in s : \A y \in s : x >= y
  BY <1>3
<1>5. Max(s) \in s /\ \A y \in s : Max(s) >= y
  BY <1>4 DEF Max
<1>6. ASSUME n \in s PROVE Max(s) = n
  <2>1. Max(s) \in 1 .. n /\ Max(s) >= n
    BY <1>5, <1>6
  <2>2. QED BY <2>1
<1>7. QED BY <1>5, <1>6

(* A fold over the numbers from 1 to n: step gives the value behind a      *)
(* number from the one before it.                                          *)
IsFold(f, n, V, base, step) ==
  /\ f \in [SUBSET (1 .. n) -> V]
  /\ \A s \in SUBSET (1 .. n) :
       f[s] = IF s = {} THEN base ELSE step[<<f[s \ {Max(s)}], Max(s)>>]

(* There is such a function, for every base and step: what a fold over a   *)
(* sequence needs in order to be unfolded.                                 *)
LEMMA FoldExists ==
  ASSUME NEW n \in Nat, NEW V, NEW base \in V, NEW step \in [V \X (1 .. n) -> V]
  PROVE  \E f : IsFold(f, n, V, base, step)
<1> DEFINE Fold(f, m) ==
             /\ f \in [SUBSET (1 .. m) -> V]
             /\ \A s \in SUBSET (1 .. m) :
                  f[s] = IF s = {} THEN base
                                   ELSE step[<<f[s \ {Max(s)}], Max(s)>>]
           S == {m \in Nat : m <= n => \E f : Fold(f, m)}
<1>1. 0 \in S
  <2>1. Fold([s \in SUBSET (1 .. 0) |-> base], 0)
    OBVIOUS
  <2> HIDE DEF Fold
  <2>2. QED BY <2>1
<1>2. ASSUME NEW m \in Nat, m \in S PROVE m + 1 \in S
  <2>1. SUFFICES ASSUME m + 1 <= n PROVE \E f : Fold(f, m + 1)
    <3> HIDE DEF Fold
    <3>1. QED OBVIOUS
  <2>2. PICK f : Fold(f, m)
    <3> HIDE DEF Fold
    <3>1. m <= n
      BY <2>1
    <3>2. QED BY <1>2, <3>1
  <2> DEFINE g == [s \in SUBSET (1 .. m + 1) |->
                     IF m + 1 \in s THEN step[<<f[s \ {m + 1}], m + 1>>]
                                    ELSE f[s]]
  <2>3. \A s \in SUBSET (1 .. m + 1) :
          /\ s \ {m + 1} \in SUBSET (1 .. m)
          /\ m + 1 \notin s => s \in SUBSET (1 .. m)
    OBVIOUS
  <2>4. g \in [SUBSET (1 .. m + 1) -> V]
    <3>1. \A s \in SUBSET (1 .. m + 1) : s \ {m + 1} \in SUBSET (1 .. m)
      BY <2>3
    <3>2. \A s \in SUBSET (1 .. m) : f[s] \in V
      BY <2>2
    <3>3. m + 1 \in 1 .. n
      BY <2>1
    <3>4. \A v \in V : step[<<v, m + 1>>] \in V
      BY <3>3
    <3>5. QED BY <3>1, <3>2, <3>4, <2>3
  <2>5. ASSUME NEW s \in SUBSET (1 .. m + 1)
        PROVE  g[s] = IF s = {} THEN base
                                ELSE step[<<g[s \ {Max(s)}], Max(s)>>]
    <3>1. CASE m + 1 \in s
      <4>1. Max(s) = m + 1
        BY <3>1, MaxOf
      <4>2. g[s \ {m + 1}] = f[s \ {m + 1}]
        BY <2>3
      <4>3. QED BY <3>1, <4>1, <4>2
    <3>2. CASE m + 1 \notin s
      <4>1. s \in SUBSET (1 .. m)
        BY <3>2, <2>3
      <4>2. g[s] = f[s] /\ g[s \ {Max(s)}] = f[s \ {Max(s)}]
        <5> DEFINE r == s \ {Max(s)}
        <5>1. r \in SUBSET (1 .. m + 1) /\ m + 1 \notin r
          BY <3>2
        <5> HIDE DEF r
        <5>2. g[r] = f[r]
          BY <5>1
        <5>3. g[s] = f[s]
          BY <3>2
        <5>4. QED BY <5>2, <5>3 DEF r
      <4>3. f[s] = IF s = {} THEN base ELSE step[<<f[s \ {Max(s)}], Max(s)>>]
        BY <4>1, <2>2
      <4>4. QED BY <4>2, <4>3
    <3>3. QED BY <3>1, <3>2
  <2> HIDE DEF g
  <2>6. Fold(g, m + 1)
    BY <2>4, <2>5
  <2>7. QED BY <2>6
<1>3. n \in S
  <2> HIDE DEF S
  <2>1. QED BY <1>1, <1>2, SetInduction
<1>4. PICK f : Fold(f, n)
  <2> HIDE DEF Fold
  <2>1. QED BY <1>3
<1>5. QED BY <1>4 DEF IsFold

(* Induction from all the smaller numbers.                                 *)
LEMMA StrongInduction ==
  ASSUME NEW S, \A n \in Nat : (\A m \in Nat : m < n => m \in S) => n \in S
  PROVE  Nat \subseteq S
<1>1. SUFFICES ASSUME NEW n \in Nat, n \notin S PROVE FALSE
  OBVIOUS
<1>2. PICK m \in Nat \ S : \A k \in Nat \ S : m <= k
  BY <1>1, Least
<1>3. \A k \in Nat : k < m => k \in S
  BY <1>2
<1>4. QED BY <1>2, <1>3

(* f is defined up to m by what n \div d, that is less, is mapped to.      *)
Descends(f, D, V, d, base, step) ==
  /\ f \in [D -> V]
  /\ \A n \in D : f[n] = IF n < d THEN base[n] ELSE step[<<f[n \div d], n>>]

(* There is such a function, for every base and step: what a recursion on  *)
(* n \div d needs in order to be unfolded.                                 *)
LEMMA DescentExists ==
  ASSUME NEW V, NEW d \in Nat, NEW base \in [Nat -> V], NEW step \in [V \X Nat -> V],
         \A n \in Nat : n >= d => n \div d \in Nat /\ n \div d < n
  PROVE  \E f : Descends(f, Nat, V, d, base, step)
<1> DEFINE Up(f, m) == Descends(f, 0 .. m, V, d, base, step)
           S == {m \in Nat : \E f : Up(f, m)}
<1>a. \A n \in Nat, v \in V : base[n] \in V /\ step[<<v, n>>] \in V
  OBVIOUS
<1>1. Nat \subseteq S
  <2>1. 0 \in S
    <3> DEFINE f == [n \in 0 .. 0 |-> IF n < d THEN base[n] ELSE step[<<base[0], n>>]]
    <3>1. \A n \in 0 .. 0 : n = 0 /\ n < d
      <4>1. 0 < d
        <5>1. ~ (0 >= d)
          <6>1. ASSUME 0 >= d PROVE FALSE
            <7>1. 0 \div d < 0 /\ 0 \div d \in Nat
              BY <6>1
            <7>2. QED BY <7>1
          <6>2. QED BY <6>1
        <5>2. QED BY <5>1
      <4>2. QED BY <4>1
    <3>2. Up(f, 0)
      BY <3>1, <1>a DEF Descends
    <3> HIDE DEF f
    <3>3. QED BY <3>2
  <2>2. ASSUME NEW m \in Nat, m \in S PROVE m + 1 \in S
    <3>1. PICK f : Up(f, m)
      BY <2>2
    <3> DEFINE g == [n \in 0 .. m + 1 |->
                       IF n <= m THEN f[n]
                       ELSE IF n < d THEN base[n] ELSE step[<<f[n \div d], n>>]]
    <3>2. /\ \A n \in 0 .. m : f[n] \in V
          /\ \A n \in 0 .. m : f[n] = IF n < d THEN base[n]
                                      ELSE step[<<f[n \div d], n>>]
      BY <3>1 DEF Descends
    <3>3. \A n \in 0 .. m + 1 : /\ n \in Nat
                                /\ n >= d => n \div d \in 0 .. m /\ n \div d \in 0 .. m + 1
                                /\ ~ (n <= m) => n = m + 1
                                /\ n <= m => n \in 0 .. m
      <4>1. ASSUME NEW n \in 0 .. m + 1, n >= d
            PROVE  n \div d \in 0 .. m /\ n \div d \in 0 .. m + 1
        <5>1. n \in Nat /\ n <= m + 1
          OBVIOUS
        <5>2. n \div d \in Nat /\ n \div d < n
          BY <4>1, <5>1
        <5> DEFINE q == n \div d
        <5>3. q \in Nat /\ q < n
          BY <5>2
        <5> HIDE DEF q
        <5>4. q \in 0 .. m /\ q \in 0 .. m + 1
          BY <5>1, <5>3
        <5>5. QED BY <5>4 DEF q
      <4>2. QED BY <4>1
    <3>4. \A n \in 0 .. m + 1 : n >= d => g[n \div d] = f[n \div d]
      <4>1. \A k \in 0 .. m : k \in 0 .. m + 1 /\ k <= m
        OBVIOUS
      <4>2. \A k \in 0 .. m : g[k] = f[k]
        BY <4>1
      <4> HIDE DEF g
      <4>3. QED BY <3>3, <4>2
    <3>5. \A n \in 0 .. m + 1 :
            g[n] = IF n < d THEN base[n] ELSE step[<<f[n \div d], n>>]
      BY <3>2, <3>3
    <3>6. \A n \in 0 .. m + 1 : ~ (n < d) => n >= d
      BY <3>3
    <3>7. ASSUME NEW n \in 0 .. m + 1 PROVE g[n] \in V
      <4>1. CASE n < d
        BY <4>1, <3>3, <3>5, <1>a
      <4>2. CASE ~ (n < d)
        <5>1. f[n \div d] \in V
          BY <4>2, <3>2, <3>3, <3>6
        <5>2. QED BY <4>2, <5>1, <3>3, <3>5, <1>a
      <4>3. QED BY <4>1, <4>2
    <3>8. g \in [0 .. m + 1 -> V]
      BY <3>7
    <3>9. \A n \in 0 .. m + 1 :
            g[n] = IF n < d THEN base[n] ELSE step[<<g[n \div d], n>>]
      BY <3>4, <3>5, <3>6
    <3> HIDE DEF g
    <3>10. Up(g, m + 1)
      BY <3>8, <3>9 DEF Descends
    <3>11. QED BY <3>10
  <2> HIDE DEF S
  <2>3. QED BY <2>1, <2>2, SetInduction
<1>2. ASSUME NEW f, NEW g, NEW m \in Nat, NEW l \in Nat, Up(f, m), Up(g, l)
      PROVE  \A n \in Nat : n <= m /\ n <= l => f[n] = g[n]
  <2> DEFINE E == {n \in Nat : n <= m /\ n <= l => f[n] = g[n]}
  <2>1. ASSUME NEW n \in Nat, \A k \in Nat : k < n => k \in E, n <= m, n <= l
        PROVE  f[n] = g[n]
    <3>1. n \in 0 .. m /\ n \in 0 .. l
      BY <2>1
    <3>2. /\ f[n] = IF n < d THEN base[n] ELSE step[<<f[n \div d], n>>]
          /\ g[n] = IF n < d THEN base[n] ELSE step[<<g[n \div d], n>>]
      BY <1>2, <3>1 DEF Descends
    <3>3. CASE n >= d
      <4>1. n \div d \in Nat /\ n \div d < n
        BY <3>3
      <4>2. f[n \div d] = g[n \div d]
        BY <4>1, <2>1
      <4>3. QED BY <3>2, <4>2
    <3>4. CASE ~ (n >= d)
      BY <3>2, <3>4
    <3>5. QED BY <3>3, <3>4
  <2>2. \A n \in Nat : (\A k \in Nat : k < n => k \in E) => n \in E
    BY <2>1
  <2>3. Nat \subseteq E
    <3> HIDE DEF E
    <3>1. QED BY <2>2, StrongInduction
  <2>4. QED BY <2>3
<1> DEFINE A(n) == CHOOSE f : Up(f, n)
           F == [n \in Nat |-> A(n)[n]]
<1>3. ASSUME NEW n \in Nat PROVE Up(A(n), n)
  <2>1. \E f : Up(f, n)
    BY <1>1
  <2> HIDE DEF Up
  <2>2. QED BY <2>1
<1>4. ASSUME NEW n \in Nat
      PROVE  /\ F[n] \in V
             /\ F[n] = IF n < d THEN base[n] ELSE step[<<F[n \div d], n>>]
  <2>1. F[n] = A(n)[n] /\ n \in 0 .. n
    OBVIOUS
  <2> HIDE DEF A
  <2>2. /\ A(n)[n] \in V
        /\ A(n)[n] = IF n < d THEN base[n] ELSE step[<<A(n)[n \div d], n>>]
    BY <1>3, <2>1 DEF Descends
  <2>3. CASE n >= d
    <3> DEFINE k == n \div d
    <3>1. k \in Nat /\ k <= n
      BY <2>3
    <3> HIDE DEF k, F
    <3>2. A(k)[k] = A(n)[k]
      <4>1. Up(A(k), k) /\ Up(A(n), n)
        BY <1>3, <3>1
      <4>2. k <= k
        BY <3>1
      <4> HIDE DEF Up
      <4>3. QED BY <4>1, <4>2, <3>1, <1>2
    <3>3. F[k] = A(k)[k]
      BY <3>1 DEF F
    <3>4. F[k] = A(n)[k]
      BY <3>2, <3>3
    <3>5. QED BY <2>1, <2>2, <3>4 DEF k
  <2>4. CASE ~ (n >= d)
    BY <2>1, <2>2, <2>4
  <2>5. QED BY <2>3, <2>4
<1>5. F \in [Nat -> V]
  <2>1. \A n \in Nat : F[n] \in V
    BY <1>4
  <2>2. F = [n \in Nat |-> F[n]]
    OBVIOUS
  <2> HIDE DEF F
  <2>3. QED BY <2>1, <2>2
<1> HIDE DEF F
<1>6. Descends(F, Nat, V, d, base, step)
  BY <1>4, <1>5 DEF Descends
<1>7. QED BY <1>6

-----------------------------------------------------------------------------
(* The folds of the model: numbers and patterns.                           *)

(* The sets a fold over a sequence goes through.                           *)
LEMMA InitialSegments ==
  /\ 1 .. 0 = {}
  /\ \A k \in Nat : /\ 1 .. k + 1 # {} /\ Max(1 .. k + 1) = k + 1
                     /\ (1 .. k + 1) \ {k + 1} = 1 .. k
<1>1. ASSUME NEW k \in Nat
      PROVE  1 .. k + 1 # {} /\ (1 .. k + 1) \ {k + 1} = 1 .. k
  OBVIOUS
<1>2. ASSUME NEW k \in Nat PROVE Max(1 .. k + 1) = k + 1
  <2>1. k + 1 \in 1 .. k + 1 /\ k + 1 \in Nat
    OBVIOUS
  <2>2. QED BY <2>1, MaxOf
<1>3. 1 .. 0 = {}
  OBVIOUS
<1>4. QED BY <1>1, <1>2, <1>3

(* What a fold yields for a beginning of the sequence has its type, if     *)
(* each step keeps the type.                                               *)
LEMMA PrefixValues ==
  ASSUME NEW n \in Nat, NEW V, NEW F, F[1 .. 0] \in V,
         \A k \in 0 .. n - 1 : F[1 .. k] \in V => F[1 .. k + 1] \in V
  PROVE  \A k \in 0 .. n : F[1 .. k] \in V
<1> DEFINE S == {k \in Nat : k <= n => F[1 .. k] \in V}
<1>1. 0 \in S
  OBVIOUS
<1>2. \A k \in Nat : k \in S => k + 1 \in S
  OBVIOUS
<1>3. Nat \subseteq S
  <2> HIDE DEF S
  <2>1. QED BY <1>1, <1>2, SetInduction
<1>4. QED BY <1>3

(* The number, digit by digit.                                            *)
LEMMA NumberSteps ==
  ASSUME NEW digits \in Seq(DOMAIN Digit)
  PROVE  \E v \in [0 .. Len(digits) -> Nat] :
           /\ v[0] = 0 /\ v[Len(digits)] = Number(digits)
           /\ \A k \in 0 .. Len(digits) - 1 :
                v[k + 1] = (v[k] * 10 + Digit[digits[k + 1]]) % SizeMod
<1> DEFINE n == Len(digits)
           Fold(f) == f = [s \in SUBSET DOMAIN digits |->
                             IF s = {} THEN 0
                             ELSE (f[s \ {Max(s)}] * 10 + Digit[digits[Max(s)]]) % SizeMod]
           F == CHOOSE f : Fold(f)
           step == [x \in Nat \X (1 .. n) |-> (x[1] * 10 + Digit[digits[x[2]]]) % SizeMod]
<1>1. n \in Nat /\ DOMAIN digits = 1 .. n
  OBVIOUS
<1>2. \A w \in Nat, k \in 1 .. n :
        (w * 10 + Digit[digits[k]]) % SizeMod \in Nat
  <2>1. \A k \in 1 .. n : Digit[digits[k]] \in 0 .. 9
    BY CompilerAssumption
  <2>2. \A w \in Nat, k \in 1 .. n : w * 10 + Digit[digits[k]] \in Nat
    BY <2>1
  <2>3. \A w \in Nat : w % SizeMod \in Nat
    BY CompilerAssumption
  <2>4. QED BY <2>2, <2>3
<1>3. 0 \in Nat /\ step \in [Nat \X (1 .. n) -> Nat]
  BY <1>2
<1>4. \A w \in Nat, k \in 1 .. n :
        step[<<w, k>>] = (w * 10 + Digit[digits[k]]) % SizeMod
  OBVIOUS
<1> HIDE DEF n, step
<1>5. PICK f : IsFold(f, n, Nat, 0, step)
  BY <1>1, <1>3, FoldExists
<1>6. ASSUME NEW s \in SUBSET (1 .. n), s # {}
      PROVE  f[s] = (f[s \ {Max(s)}] * 10 + Digit[digits[Max(s)]]) % SizeMod
  <2>1. f[s \ {Max(s)}] \in Nat /\ Max(s) \in 1 .. n
    BY <1>1, <1>5, <1>6, MaxOf DEF IsFold
  <2>2. f[s] = step[<<f[s \ {Max(s)}], Max(s)>>]
    BY <1>5, <1>6 DEF IsFold
  <2>3. QED BY <2>1, <2>2, <1>4
<1>7. Fold(f)
  <2>1. f = [s \in SUBSET (1 .. n) |-> f[s]]
    BY <1>5 DEF IsFold
  <2>2. f[{}] = 0
    BY <1>5 DEF IsFold
  <2>3. QED BY <2>1, <2>2, <1>1, <1>6
<1>8. Fold(F)
  <2> HIDE DEF Fold
  <2>1. QED BY <1>7
<1>9. Number(digits) = F[1 .. n]
  BY <1>1 DEF Number, FoldLeft, MapThenFoldSet
<1> HIDE DEF F
<1>10. F[1 .. 0] = 0
  BY <1>8, <1>1, InitialSegments
<1>11. ASSUME NEW k \in 0 .. n - 1
       PROVE  F[1 .. k + 1] = (F[1 .. k] * 10 + Digit[digits[k + 1]]) % SizeMod
  <2>1. 1 .. k + 1 \in SUBSET (1 .. n) /\ k \in Nat
    BY <1>1
  <2>2. /\ 1 .. k + 1 # {} /\ Max(1 .. k + 1) = k + 1
        /\ (1 .. k + 1) \ {k + 1} = 1 .. k
    BY <2>1, InitialSegments
  <2> DEFINE s == 1 .. k + 1
  <2>3. F[s] = (F[s \ {Max(s)}] * 10 + Digit[digits[Max(s)]]) % SizeMod
    <3> HIDE DEF s
    <3>1. s \in SUBSET (1 .. n) /\ s # {}
      BY <2>1, <2>2 DEF s
    <3>2. QED BY <1>8, <1>1, <3>1
  <2>4. QED BY <2>2, <2>3
<1>12. \A k \in 0 .. n - 1 : F[1 .. k] \in Nat => F[1 .. k + 1] \in Nat
  <2>1. \A k \in 0 .. n - 1 : k + 1 \in 1 .. n
    BY <1>1
  <2>2. QED BY <2>1, <1>2, <1>11
<1>13. \A k \in 0 .. n : F[1 .. k] \in Nat
  BY <1>1, <1>3, <1>10, <1>12, PrefixValues
<1> DEFINE v == [k \in 0 .. n |-> F[1 .. k]]
<1>14. /\ v \in [0 .. n -> Nat] /\ v[0] = 0 /\ v[n] = Number(digits)
       /\ \A k \in 0 .. n - 1 : v[k] = F[1 .. k] /\ v[k + 1] = F[1 .. k + 1]
  BY <1>1, <1>13, <1>10, <1>9
<1> HIDE DEF v
<1>15. \A k \in 0 .. n - 1 :
         v[k + 1] = (v[k] * 10 + Digit[digits[k + 1]]) % SizeMod
  BY <1>14, <1>11
<1>16. QED BY <1>14, <1>15 DEF n

(* The value, digit by digit.                                             *)
LEMMA ValueSteps ==
  ASSUME NEW digits \in Seq(DOMAIN Digit)
  PROVE  \E v \in [0 .. Len(digits) -> Nat] :
           /\ v[0] = 0 /\ v[Len(digits)] = Value(digits)
           /\ \A k \in 0 .. Len(digits) - 1 :
                v[k + 1] = v[k] * 10 + Digit[digits[k + 1]]
<1> DEFINE n == Len(digits)
           Fold(f) == f = [s \in SUBSET DOMAIN digits |->
                             IF s = {} THEN 0
                             ELSE f[s \ {Max(s)}] * 10 + Digit[digits[Max(s)]]]
           F == CHOOSE f : Fold(f)
           step == [x \in Nat \X (1 .. n) |-> x[1] * 10 + Digit[digits[x[2]]]]
<1>1. n \in Nat /\ DOMAIN digits = 1 .. n
  OBVIOUS
<1>2. \A w \in Nat, k \in 1 .. n :
        w * 10 + Digit[digits[k]] \in Nat
  <2>1. \A k \in 1 .. n : Digit[digits[k]] \in 0 .. 9
    BY CompilerAssumption
  <2>2. QED BY <2>1
<1>3. 0 \in Nat /\ step \in [Nat \X (1 .. n) -> Nat]
  BY <1>2
<1>4. \A w \in Nat, k \in 1 .. n :
        step[<<w, k>>] = w * 10 + Digit[digits[k]]
  OBVIOUS
<1> HIDE DEF n, step
<1>5. PICK f : IsFold(f, n, Nat, 0, step)
  BY <1>1, <1>3, FoldExists
<1>6. ASSUME NEW s \in SUBSET (1 .. n), s # {}
      PROVE  f[s] = f[s \ {Max(s)}] * 10 + Digit[digits[Max(s)]]
  <2>1. f[s \ {Max(s)}] \in Nat /\ Max(s) \in 1 .. n
    BY <1>1, <1>5, <1>6, MaxOf DEF IsFold
  <2>2. f[s] = step[<<f[s \ {Max(s)}], Max(s)>>]
    BY <1>5, <1>6 DEF IsFold
  <2>3. QED BY <2>1, <2>2, <1>4
<1>7. Fold(f)
  <2>1. f = [s \in SUBSET (1 .. n) |-> f[s]]
    BY <1>5 DEF IsFold
  <2>2. f[{}] = 0
    BY <1>5 DEF IsFold
  <2>3. QED BY <2>1, <2>2, <1>1, <1>6
<1>8. Fold(F)
  <2> HIDE DEF Fold
  <2>1. QED BY <1>7
<1>9. Value(digits) = F[1 .. n]
  BY <1>1 DEF Value, FoldLeft, MapThenFoldSet
<1> HIDE DEF F
<1>10. F[1 .. 0] = 0
  BY <1>8, <1>1, InitialSegments
<1>11. ASSUME NEW k \in 0 .. n - 1
       PROVE  F[1 .. k + 1] = F[1 .. k] * 10 + Digit[digits[k + 1]]
  <2>1. 1 .. k + 1 \in SUBSET (1 .. n) /\ k \in Nat
    BY <1>1
  <2>2. /\ 1 .. k + 1 # {} /\ Max(1 .. k + 1) = k + 1
        /\ (1 .. k + 1) \ {k + 1} = 1 .. k
    BY <2>1, InitialSegments
  <2> DEFINE s == 1 .. k + 1
  <2>3. F[s] = F[s \ {Max(s)}] * 10 + Digit[digits[Max(s)]]
    <3> HIDE DEF s
    <3>1. s \in SUBSET (1 .. n) /\ s # {}
      BY <2>1, <2>2 DEF s
    <3>2. QED BY <1>8, <1>1, <3>1
  <2>4. QED BY <2>2, <2>3
<1>12. \A k \in 0 .. n - 1 : F[1 .. k] \in Nat => F[1 .. k + 1] \in Nat
  <2>1. \A k \in 0 .. n - 1 : k + 1 \in 1 .. n
    BY <1>1
  <2>2. QED BY <2>1, <1>2, <1>11
<1>13. \A k \in 0 .. n : F[1 .. k] \in Nat
  BY <1>1, <1>3, <1>10, <1>12, PrefixValues
<1> DEFINE v == [k \in 0 .. n |-> F[1 .. k]]
<1>14. /\ v \in [0 .. n -> Nat] /\ v[0] = 0 /\ v[n] = Value(digits)
       /\ \A k \in 0 .. n - 1 : v[k] = F[1 .. k] /\ v[k + 1] = F[1 .. k + 1]
  BY <1>1, <1>13, <1>10, <1>9
<1> HIDE DEF v
<1>15. \A k \in 0 .. n - 1 :
         v[k + 1] = v[k] * 10 + Digit[digits[k + 1]]
  BY <1>14, <1>11
<1>16. QED BY <1>14, <1>15 DEF n

(* The pattern, item by item.                                             *)
LEMMA PatternSteps ==
  ASSUME NEW C, NEW T, NEW items \in Seq(T),
         \A k \in 1 .. Len(items) : Written(items[k]) \in Seq(C)
  PROVE  \E v \in [0 .. Len(items) -> Seq(C)] :
           /\ v[0] = << >> /\ v[Len(items)] = PatternOf(items)
           /\ \A k \in 0 .. Len(items) - 1 :
                v[k + 1] = v[k] \o Written(items[k + 1])
<1> DEFINE n == Len(items)
           Fold(f) == f = [s \in SUBSET DOMAIN items |->
                             IF s = {} THEN << >>
                             ELSE f[s \ {Max(s)}] \o Written(items[Max(s)])]
           F == CHOOSE f : Fold(f)
           step == [x \in Seq(C) \X (1 .. n) |-> x[1] \o Written(items[x[2]])]
<1>1. n \in Nat /\ DOMAIN items = 1 .. n
  OBVIOUS
<1>2. \A w \in Seq(C), k \in 1 .. n :
        w \o Written(items[k]) \in Seq(C)
  OBVIOUS
<1>3. << >> \in Seq(C) /\ step \in [Seq(C) \X (1 .. n) -> Seq(C)]
  BY <1>2
<1>4. \A w \in Seq(C), k \in 1 .. n :
        step[<<w, k>>] = w \o Written(items[k])
  OBVIOUS
<1> HIDE DEF n, step
<1>5. PICK f : IsFold(f, n, Seq(C), << >>, step)
  BY <1>1, <1>3, FoldExists
<1>6. ASSUME NEW s \in SUBSET (1 .. n), s # {}
      PROVE  f[s] = f[s \ {Max(s)}] \o Written(items[Max(s)])
  <2>1. f[s \ {Max(s)}] \in Seq(C) /\ Max(s) \in 1 .. n
    BY <1>1, <1>5, <1>6, MaxOf DEF IsFold
  <2>2. f[s] = step[<<f[s \ {Max(s)}], Max(s)>>]
    BY <1>5, <1>6 DEF IsFold
  <2>3. QED BY <2>1, <2>2, <1>4
<1>7. Fold(f)
  <2>1. f = [s \in SUBSET (1 .. n) |-> f[s]]
    BY <1>5 DEF IsFold
  <2>2. f[{}] = << >>
    BY <1>5 DEF IsFold
  <2>3. QED BY <2>1, <2>2, <1>1, <1>6
<1>8. Fold(F)
  <2> HIDE DEF Fold
  <2>1. QED BY <1>7
<1>9. PatternOf(items) = F[1 .. n]
  BY <1>1 DEF PatternOf, FoldLeft, MapThenFoldSet
<1> HIDE DEF F
<1>10. F[1 .. 0] = << >>
  BY <1>8, <1>1, InitialSegments
<1>11. ASSUME NEW k \in 0 .. n - 1
       PROVE  F[1 .. k + 1] = F[1 .. k] \o Written(items[k + 1])
  <2>1. 1 .. k + 1 \in SUBSET (1 .. n) /\ k \in Nat
    BY <1>1
  <2>2. /\ 1 .. k + 1 # {} /\ Max(1 .. k + 1) = k + 1
        /\ (1 .. k + 1) \ {k + 1} = 1 .. k
    BY <2>1, InitialSegments
  <2> DEFINE s == 1 .. k + 1
  <2>3. F[s] = F[s \ {Max(s)}] \o Written(items[Max(s)])
    <3> HIDE DEF s
    <3>1. s \in SUBSET (1 .. n) /\ s # {}
      BY <2>1, <2>2 DEF s
    <3>2. QED BY <1>8, <1>1, <3>1
  <2>4. QED BY <2>2, <2>3
<1>12. \A k \in 0 .. n - 1 : F[1 .. k] \in Seq(C) => F[1 .. k + 1] \in Seq(C)
  <2>1. \A k \in 0 .. n - 1 : k + 1 \in 1 .. n
    BY <1>1
  <2>2. QED BY <2>1, <1>2, <1>11
<1>13. \A k \in 0 .. n : F[1 .. k] \in Seq(C)
  BY <1>1, <1>3, <1>10, <1>12, PrefixValues
<1> DEFINE v == [k \in 0 .. n |-> F[1 .. k]]
<1>14. /\ v \in [0 .. n -> Seq(C)] /\ v[0] = << >> /\ v[n] = PatternOf(items)
       /\ \A k \in 0 .. n - 1 : v[k] = F[1 .. k] /\ v[k + 1] = F[1 .. k + 1]
  BY <1>1, <1>13, <1>10, <1>9
<1> HIDE DEF v
<1>15. \A k \in 0 .. n - 1 :
         v[k + 1] = v[k] \o Written(items[k + 1])
  BY <1>14, <1>11
<1>16. QED BY <1>14, <1>15 DEF n

(* A remainder below the modulus.                                          *)
LEMMA SmallRemainder ==
  ASSUME NEW x \in Nat, NEW m \in Nat, x < m
  PROVE  x % m = x
  OBVIOUS

(* The value of what has been read of a number only grows, so when the     *)
(* whole is below SizeMod, nothing is lost on the way.                     *)
LEMMA NumberIsValue ==
  ASSUME NEW digits \in Seq(DOMAIN Digit), Value(digits) < SizeMod
  PROVE  Value(digits) \in Nat /\ Number(digits) = Value(digits)
<1> DEFINE n == Len(digits)
<1>1. PICK v \in [0 .. n -> Nat] :
        /\ v[0] = 0 /\ v[n] = Value(digits)
        /\ \A k \in 0 .. n - 1 : v[k + 1] = v[k] * 10 + Digit[digits[k + 1]]
  BY ValueSteps
<1>2. PICK w \in [0 .. n -> Nat] :
        /\ w[0] = 0 /\ w[n] = Number(digits)
        /\ \A k \in 0 .. n - 1 :
             w[k + 1] = (w[k] * 10 + Digit[digits[k + 1]]) % SizeMod
  BY NumberSteps
<1>3. n \in Nat /\ \A k \in 1 .. n : Digit[digits[k]] \in 0 .. 9
  BY CompilerAssumption
<1> HIDE DEF n
<1>4. \A k \in 0 .. n - 1 : v[k] <= v[k + 1]
  <2>1. ASSUME NEW k \in 0 .. n - 1 PROVE v[k] <= v[k + 1]
    <3>1. k + 1 \in 1 .. n /\ k \in 0 .. n
      BY <1>3
    <3>2. Digit[digits[k + 1]] \in 0 .. 9 /\ v[k] \in Nat
      BY <1>3, <3>1, <1>1
    <3>3. v[k + 1] = v[k] * 10 + Digit[digits[k + 1]]
      BY <1>1
    <3> DEFINE x == v[k]
               y == v[k + 1]
               d == Digit[digits[k + 1]]
    <3>4. x \in Nat /\ d \in 0 .. 9 /\ y = x * 10 + d
      BY <3>2, <3>3
    <3> HIDE DEF x, y, d
    <3>5. x <= y
      BY <3>4
    <3>6. QED BY <3>5 DEF x, y
  <2>2. QED BY <2>1
<1> DEFINE S == {m \in Nat : m <= n => v[n - m] <= v[n]}
<1>5. Nat \subseteq S
  <2>1. 0 \in S
    BY <1>3, <1>1
  <2>2. ASSUME NEW m \in Nat, m \in S PROVE m + 1 \in S
    <3>1. SUFFICES ASSUME m + 1 <= n PROVE v[n - (m + 1)] <= v[n]
      OBVIOUS
    <3>2. v[n - m] <= v[n]
      BY <2>2, <3>1, <1>3
    <3> DEFINE k == n - (m + 1)
    <3>3. k \in 0 .. n - 1 /\ k + 1 = n - m /\ k \in 0 .. n /\ k + 1 \in 0 .. n
      BY <3>1, <1>3
    <3> HIDE DEF k
    <3>4. v[k] <= v[k + 1] /\ v[k] \in Nat /\ v[k + 1] \in Nat /\ v[n] \in Nat
      BY <3>3, <1>4, <1>1, <1>3
    <3>5. QED BY <3>2, <3>3, <3>4 DEF k
  <2> HIDE DEF S
  <2>3. QED BY <2>1, <2>2, SetInduction
<1>6. \A k \in 0 .. n : v[k] <= v[n]
  <2>1. ASSUME NEW k \in 0 .. n PROVE v[k] <= v[n]
    <3>1. n - k \in Nat /\ n - (n - k) = k /\ n - k <= n
      BY <1>3
    <3>2. n - k \in S
      BY <3>1, <1>5
    <3>3. QED BY <3>1, <3>2
  <2>2. QED BY <2>1
<1> DEFINE E == {k \in Nat : k <= n => w[k] = v[k]}
<1>7. Nat \subseteq E
  <2>1. 0 \in E
    BY <1>1, <1>2
  <2>2. ASSUME NEW k \in Nat, k \in E PROVE k + 1 \in E
    <3>1. SUFFICES ASSUME k + 1 <= n PROVE w[k + 1] = v[k + 1]
      OBVIOUS
    <3>2. k \in 0 .. n - 1 /\ k + 1 \in 0 .. n /\ w[k] = v[k]
      BY <3>1, <2>2, <1>3
    <3>3. w[k + 1] = v[k + 1] % SizeMod
      BY <3>2, <1>1, <1>2
    <3>4. v[k + 1] <= v[n] /\ v[n] < SizeMod /\ v[k + 1] \in Nat /\ v[n] \in Nat
      BY <3>2, <1>6, <1>1, <1>3
    <3>5. v[k + 1] % SizeMod = v[k + 1]
      <4>1. v[k + 1] < SizeMod /\ SizeMod \in Nat
        <5> DEFINE x == v[k + 1]
                   y == v[n]
        <5>1. x <= y /\ y < SizeMod /\ x \in Nat /\ y \in Nat /\ SizeMod \in Nat
          BY <3>4, CompilerAssumption
        <5> HIDE DEF x, y
        <5>2. x < SizeMod
          BY <5>1
        <5>3. QED BY <5>1, <5>2 DEF x
      <4>2. QED BY <3>4, <4>1, SmallRemainder
    <3>6. QED BY <3>3, <3>5
  <2> HIDE DEF E
  <2>3. QED BY <2>1, <2>2, SetInduction
<1>8. w[n] = v[n] /\ v[n] \in Nat
  BY <1>7, <1>1, <1>3
<1>9. QED BY <1>8, <1>1, <1>2

-----------------------------------------------------------------------------
(* handlePadspec reads what was written.                                   *)

(* The characters that name a side, and the sides.                         *)
LEMMA SidesFacts ==
  /\ DOMAIN Sides = {"<", "^", ">"}
  /\ \A c \in DOMAIN Sides : Sides[c] \in {"left", "center", "right"}
BY DEF Sides

(* The pattern has the characters s from position i on.                    *)
Reads(p, i, s) ==
  i + Len(s) <= End(p) /\ \A j \in 1 .. Len(s) : p[i + j - 1] = s[j]

(* Characters that are read one after the other.                           *)
LEMMA ReadsJoined ==
  ASSUME NEW C, NEW p \in Seq(C), NEW i \in Nat, NEW s \in Seq(C), NEW t \in Seq(C),
         Reads(p, i, s \o t)
  PROVE  Reads(p, i, s) /\ Reads(p, i + Len(s), t)
<1> DEFINE a == i + Len(s)
<1>1. /\ Len(s \o t) = Len(s) + Len(t) /\ Len(s) \in Nat /\ Len(t) \in Nat
      /\ Len(p) \in Nat
  OBVIOUS
<1>2. \A j \in 1 .. Len(s) + Len(t) :
        p[i + j - 1] = IF j <= Len(s) THEN s[j] ELSE t[j - Len(s)]
  BY <1>1, JoinedElements DEF Reads
<1>3. \A j \in 1 .. Len(s) : p[i + j - 1] = s[j]
  BY <1>1, <1>2
<1>4. ASSUME NEW j \in 1 .. Len(t) PROVE p[a + j - 1] = t[j]
  <2>1. Len(s) + j \in 1 .. Len(s) + Len(t) /\ ~ (Len(s) + j <= Len(s))
    BY <1>1
  <2>2. i + (Len(s) + j) - 1 = a + j - 1 /\ (Len(s) + j) - Len(s) = j
    BY <1>1
  <2>3. QED BY <2>1, <2>2, <1>2
<1>5. i + Len(s) <= End(p) /\ a + Len(t) <= End(p)
  BY <1>1 DEF Reads, End
<1>6. QED BY <1>3, <1>4, <1>5 DEF Reads

(* Items: a flag with what may stand before it, or a text.                 *)
FlagItem == [side : Seq(Char), digits : Seq(DOMAIN Digit), mark : Seq(Char),
             flag : Seq(Char)]

TextItem == [text : Seq(Char) \ {<< >>}]

(* The first position from a on without a digit, when the digits that      *)
(* begin there are known.                                                  *)
LEMMA DigitsEnd ==
  ASSUME NEW p \in Seq(Char), NEW a \in Nat, NEW digits \in Seq(DOMAIN Digit),
         Reads(p, a, digits),
         a + Len(digits) = End(p) \/ ~IsDigit(p[a + Len(digits)])
  PROVE  AfterDigits(p, a) = a + Len(digits)
<1> DEFINE b == a + Len(digits)
           T == {j \in a .. End(p) : j = End(p) \/ ~IsDigit(p[j])}
<1>1. b \in T /\ End(p) \in Nat /\ Len(digits) \in Nat
  BY DEF Reads, End
<1>2. ASSUME NEW j \in T PROVE b <= j
  <2>1. SUFFICES ASSUME j < b PROVE FALSE
    BY <1>1
  <2>2. j - a + 1 \in 1 .. Len(digits) /\ a + (j - a + 1) - 1 = j
    BY <1>1, <2>1
  <2>3. p[j] = digits[j - a + 1]
    BY <2>2 DEF Reads
  <2>4. IsDigit(p[j])
    BY <2>2, <2>3 DEF IsDigit
  <2>5. j < End(p)
    BY <1>1, <2>1 DEF Reads
  <2>6. QED BY <2>4, <2>5, <1>1
<1>3. T \subseteq Nat
  BY <1>1
<1> HIDE DEF T, b
<1>4. \A m \in T : (\A j \in T : m <= j) => m = b
  BY <1>1, <1>2, <1>3
<1>5. Min(T) = b
  <2>1. Min(T) \in T /\ \A j \in T : Min(T) <= j
    BY <1>1, <1>2 DEF Min
  <2>2. QED BY <2>1, <1>4
<1>6. QED BY <1>5 DEF T, b, AfterDigits

(* The width that is kept is the smaller of the two.                       *)
LEMMA CappedIsMin ==
  ASSUME NEW n \in Nat
  PROVE  Capped(n) = Min({MaxWidth, n}) /\ Capped(n) \in Nat
<1> DEFINE T == {MaxWidth, n}
<1>1. MaxWidth \in Nat
  BY CompilerAssumption
<1>2. \E x \in T : \A y \in T : x <= y
  <2>1. CASE n < MaxWidth
    BY <1>1, <2>1
  <2>2. CASE MaxWidth <= n
    BY <1>1, <2>2
  <2>3. QED BY <1>1, <2>1, <2>2
<1>3. Min(T) \in T /\ \A y \in T : Min(T) <= y
  <2> HIDE DEF T
  <2>1. QED BY <1>2 DEF Min
<1>4. QED BY <1>1, <1>3 DEF Capped

(* handlePadspec reads what an item says of its padding, no less and no    *)
(* more.                                                                   *)
LEMMA PadSpecReads ==
  ASSUME NEW p \in Seq(Char), NEW i \in Nat \ {0}, NEW side \in Seq(Char),
         NEW digits \in Seq(DOMAIN Digit), NEW mark \in Seq(Char),
         NEW flag \in Seq(Char),
         FlagOK([side |-> side, digits |-> digits, mark |-> mark, flag |-> flag]),
         Reads(p, i, side), Reads(p, i + Len(side), digits),
         Reads(p, i + Len(side) + Len(digits), mark),
         Reads(p, i + Len(side) + Len(digits) + Len(mark), flag),
         flag = << >> => i + Len(side) + Len(digits) + Len(mark) = End(p)
  PROVE  PadSpec(p, i) = [pad |-> PadMeant([side |-> side, digits |-> digits, mark |-> mark,
                                             flag |-> flag]),
                          next |-> i + Len(side) + Len(digits) + Len(mark)]
<1> DEFINE a == i + Len(side)
           b == a + Len(digits)
           c == b + Len(mark)
<1>0. /\ side = << >> \/ \E d \in DOMAIN Sides : side = <<d>>
      /\ Value(digits) < SizeMod
      /\ mark = << >> \/ (mark = <<"!">> /\ digits # << >>)
      /\ Len(flag) <= 1
      /\ \A k \in DOMAIN flag :
           /\ mark = << >> => flag[k] \notin DOMAIN Digit
           /\ digits # << >> /\ mark = << >> => flag[k] # "!"
           /\ digits = << >> /\ side = << >> => flag[k] \notin DOMAIN Sides
  BY DEF FlagOK
<1>1. /\ Len(side) \in Nat /\ Len(digits) \in Nat /\ Len(mark) \in Nat
      /\ Len(flag) \in Nat
  OBVIOUS
<1>2. /\ a \in Nat /\ b \in Nat /\ c \in Nat /\ End(p) \in Nat
      /\ a <= End(p) /\ b <= End(p) /\ c <= End(p)
      /\ i <= a /\ a <= b /\ b <= c
  <2>1. End(p) \in Nat
    BY DEF End
  <2>2. /\ i + Len(side) <= End(p)
        /\ i + Len(side) + Len(digits) <= End(p)
        /\ i + Len(side) + Len(digits) + Len(mark) <= End(p)
    BY DEF Reads
  <2>3. QED BY <1>1, <2>1, <2>2
<1>3. \/ flag = << >> /\ c = End(p)
      \/ /\ Len(flag) = 1 /\ c < End(p) /\ p[c] = flag[1]
         /\ mark = << >> => p[c] \notin DOMAIN Digit
         /\ digits # << >> /\ mark = << >> => p[c] # "!"
         /\ digits = << >> /\ side = << >> => p[c] \notin DOMAIN Sides
  <2>1. CASE flag = << >>
    BY <2>1
  <2>2. CASE flag # << >>
    <3>1. Len(flag) = 1 /\ 1 \in DOMAIN flag
      <4>1. Len(flag) # 0 /\ DOMAIN flag = 1 .. Len(flag)
        BY <2>2
      <4>2. Len(flag) = 1
        BY <4>1, <1>0, <1>1
      <4>3. QED BY <4>1, <4>2
    <3>2. p[c + 1 - 1] = flag[1] /\ c + 1 <= End(p)
      BY <3>1 DEF Reads
    <3>3. QED BY <3>1, <3>2, <1>2, <1>0
  <2>3. QED BY <2>1, <2>2
<1>4. \/ mark = << >> /\ c = b
      \/ /\ mark = <<"!">> /\ digits # << >> /\ c = b + 1
         /\ b < End(p) /\ p[b] = "!"
  <2>1. CASE mark = << >>
    BY <2>1, <1>2
  <2>2. CASE mark = <<"!">> /\ digits # << >>
    <3>1. p[b + 1 - 1] = "!" /\ b + 1 <= End(p)
      BY <2>2 DEF Reads
    <3>2. QED BY <2>2, <3>1, <1>2
  <2>3. QED BY <2>1, <2>2, <1>0
<1>5. b = End(p) \/ ~IsDigit(p[b])
  BY <1>2, <1>3, <1>4, CompilerAssumption DEF IsDigit
<1>6. AfterDigits(p, a) = b
  BY <1>1, <1>2, <1>5, DigitsEnd
<1>7. /\ HasSide(p, i) <=> side # << >>
      /\ HasSide(p, i) => side[1] = p[i]
      /\ AfterSide(p, i) = a
  <2>1. CASE side = << >>
    <3>1. a = i
      BY <2>1, <1>2
    <3>2. ~ HasSide(p, i)
      <4>1. CASE digits = << >>
        <5>1. b = a /\ c = b
          BY <4>1, <1>2, <1>4
        <5>2. QED BY <2>1, <3>1, <4>1, <5>1, <1>3, <1>4 DEF HasSide
      <4>2. CASE digits # << >>
        <5>1. 1 \in 1 .. Len(digits) /\ digits[1] \in DOMAIN Digit
          BY <1>1, <4>2
        <5>2. p[a + 1 - 1] = digits[1]
          BY <5>1 DEF Reads
        <5>3. p[i] \in DOMAIN Digit
          BY <5>1, <5>2, <3>1, <1>2
        <5>4. QED BY <5>3, CompilerAssumption DEF HasSide
      <4>3. QED BY <4>1, <4>2
    <3>3. QED BY <2>1, <3>1, <3>2 DEF AfterSide
  <2>2. CASE side # << >>
    <3>1. PICK d \in DOMAIN Sides : side = <<d>>
      BY <2>2, <1>0
    <3>2. Len(side) = 1 /\ side[1] = d
      BY <3>1
    <3>3. p[i + 1 - 1] = d /\ i + 1 <= End(p)
      BY <3>2 DEF Reads
    <3>4. i + 1 - 1 = i /\ End(p) \in Nat
      BY DEF End
    <3>5. p[i] = d /\ i < End(p)
      BY <3>3, <3>4
    <3>6. HasSide(p, i)
      BY <3>5 DEF HasSide
    <3>7. a = i + 1
      BY <3>2
    <3>8. QED BY <2>2, <3>1, <3>5, <3>6, <3>7 DEF AfterSide
  <2>3. QED BY <2>1, <2>2
<1>8. CASE digits = << >>
  <2>1. b = a /\ c = b
    BY <1>8, <1>2, <1>4
  <2>2. QED BY <1>8, <2>1, <1>6, <1>7 DEF PadSpec, PadMeant
<1>9. CASE digits # << >>
  <2>1. b # a
    BY <1>9, <1>1, <1>2
  <2>2. SubSeq(p, a, b - 1) = digits
    <3> DEFINE r == SubSeq(p, a, b - 1)
    <3>0. digits \in Seq(Char)
      BY <1>1, CharacterAssumption
    <3>1. r \in Seq(Char) /\ Len(r) = Len(digits)
          /\ \A j \in 1 .. Len(r) : r[j] = p[a + j - 1]
      <4>1. a >= 1 /\ b - 1 <= Len(p) /\ b - a = Len(digits)
        BY <1>1, <1>2 DEF End
      <4>2. QED BY <4>1, <1>1, <1>2
    <3>2. \A j \in 1 .. Len(r) : r[j] = digits[j]
      BY <3>1 DEF Reads
    <3>3. QED BY <3>0, <3>1, <3>2, SameElements
  <2>3. /\ Number(SubSeq(p, a, b - 1)) = Value(digits)
        /\ Value(digits) \in Nat
    BY <2>2, <1>1, <1>0, NumberIsValue
  <2>4. Capped(Value(digits)) = Min({MaxWidth, Value(digits)})
    BY <2>3, CappedIsMin
  <2>5. (b < End(p) /\ p[b] = "!") <=> mark # << >>
    BY <1>2, <1>3, <1>4, <1>9
  <2>6. AfterMark(p, b) = c
    BY <2>5, <1>4 DEF AfterMark
  <2>7. QED
    BY <1>9, <2>1, <2>3, <2>4, <2>5, <2>6, <1>6, <1>7 DEF PadSpec, PadMeant
<1>10. QED BY <1>8, <1>9

-----------------------------------------------------------------------------
(* The pattern of a list of items, and what it means.                      *)

(* What padders and formatters are.                                        *)
Pad == [enabled : BOOLEAN, width : Nat, side : {"left", "center", "right"},
        truncate : BOOLEAN]

Formatter == [text : Seq(Char)] \cup [flag : Char, custom : BOOLEAN, pad : Pad]

(* What an item of a well-formed list is.                                  *)
LEMMA ItemFacts ==
  ASSUME NEW items, WellFormed(items, Char), NEW k \in 1 .. Len(items)
  PROVE  /\ items \in Seq(TextItem \cup FlagItem)
         /\ \/ /\ items[k] \in TextItem /\ IsText(items[k]) /\ TextOK(items[k])
               /\ ~LacksFlag(items[k])
            \/ /\ items[k] \in FlagItem /\ ~IsText(items[k]) /\ FlagOK(items[k])
         /\ k < Len(items) => /\ ~LacksFlag(items[k])
                              /\ IsText(items[k]) => ~IsText(items[k + 1])
<1>1. items \in Seq(TextItem \cup FlagItem)
  BY DEF WellFormed, TextItem, FlagItem
<1>2. items[k] \in TextItem \cup FlagItem /\ k \in DOMAIN items
  BY <1>1
<1>3. CASE items[k] \in TextItem
  <2>1. IsText(items[k])
    BY <1>3 DEF TextItem, IsText
  <2>2. QED BY <1>1, <1>2, <1>3, <2>1 DEF WellFormed, LacksFlag
<1>4. CASE items[k] \in FlagItem
  <2>1. ~IsText(items[k])
    BY <1>4 DEF FlagItem, IsText
  <2>2. QED BY <1>1, <1>2, <1>4, <2>1 DEF WellFormed
<1>5. QED BY <1>2, <1>3, <1>4

(* An item means a padding.                                                *)
LEMMA PadMeantType ==
  ASSUME NEW x \in FlagItem, FlagOK(x)
  PROVE  PadMeant(x) \in Pad
<1>1. CASE x.digits = << >>
  BY <1>1 DEF PadMeant, NoPad, Pad
<1>2. CASE x.digits # << >>
  <2>1. Value(x.digits) \in Nat
    BY NumberIsValue DEF FlagItem, FlagOK
  <2>2. Min({MaxWidth, Value(x.digits)}) \in Nat
    BY <2>1, CappedIsMin
  <2>3. (IF x.side = << >> THEN "center" ELSE Sides[x.side[1]])
          \in {"left", "center", "right"}
    <3>1. CASE x.side # << >>
      <4>1. PICK c \in DOMAIN Sides : x.side = <<c>>
        BY <3>1 DEF FlagOK
      <4>2. x.side[1] = c
        BY <4>1
      <4>3. QED BY <3>1, <4>2, SidesFacts
    <3>2. QED BY <3>1
  <2>4. QED BY <1>2, <2>2, <2>3 DEF PadMeant, Pad
<1>3. QED BY <1>1, <1>2

(* An item with its flag, or a text, means a formatter.                    *)
LEMMA ItemMeantType ==
  ASSUME NEW items, WellFormed(items, Char), NEW k \in 1 .. Len(items),
         ~LacksFlag(items[k]), NEW customs
  PROVE  ItemMeant(items[k], customs) \in Formatter
<1>1. CASE IsText(items[k])
  <2>1. items[k] \in TextItem
    BY <1>1, ItemFacts
  <2>2. QED BY <1>1, <2>1 DEF TextItem, ItemMeant, Formatter
<1>2. CASE ~IsText(items[k])
  <2>1. items[k] \in FlagItem /\ FlagOK(items[k]) /\ items[k].flag # << >>
    BY <1>2, ItemFacts DEF LacksFlag
  <2>2. items[k].flag[1] \in Char
    BY <2>1 DEF FlagItem
  <2>3. PadMeant(items[k]) \in Pad
    BY <2>1, PadMeantType
  <2>4. QED BY <1>2, <2>2, <2>3 DEF ItemMeant, Formatter
<1>3. QED BY <1>1, <1>2

(* An item is written as at least one character; what is written of a      *)
(* flag, and nothing else, begins with a %.                                *)
LEMMA WrittenType ==
  ASSUME NEW items, WellFormed(items, Char), NEW k \in 1 .. Len(items)
  PROVE  /\ Written(items[k]) \in Seq(Char) /\ Len(Written(items[k])) >= 1
         /\ Written(items[k])[1] = "%" <=> ~IsText(items[k])
<1>1. CASE IsText(items[k])
  <2>1. items[k] \in TextItem /\ TextOK(items[k])
    BY <1>1, ItemFacts
  <2> DEFINE t == items[k].text
  <2>2. t \in Seq(Char) \ {<< >>} /\ \A i \in DOMAIN t : t[i] # "%"
    BY <2>1 DEF TextItem, TextOK
  <2>3. Written(items[k]) = t
    BY <1>1 DEF Written
  <2> HIDE DEF t
  <2>4. Len(t) >= 1 /\ 1 \in DOMAIN t
    BY <2>2
  <2>5. QED BY <1>1, <2>2, <2>3, <2>4
<1>2. CASE ~IsText(items[k])
  <2>1. items[k] \in FlagItem
    BY <1>2, ItemFacts
  <2>2. /\ items[k].side \in Seq(Char) /\ items[k].mark \in Seq(Char)
        /\ items[k].flag \in Seq(Char) /\ items[k].digits \in Seq(Char)
        /\ <<"%">> \in Seq(Char)
    BY <2>1, CharacterAssumption DEF FlagItem
  <2> DEFINE o == <<"%">>
             a == o \o items[k].side
             b == a \o items[k].digits
             c == b \o items[k].mark
             d == c \o items[k].flag
  <2>3. d \in Seq(Char) /\ Len(d) >= 1 /\ d[1] = "%"
    <3>1. o \in Seq(Char) /\ Len(o) >= 1 /\ o[1] = "%"
      BY <2>2
    <3>2. ASSUME NEW s \in Seq(Char), NEW t \in Seq(Char), Len(s) >= 1
          PROVE  s \o t \in Seq(Char) /\ Len(s \o t) >= 1 /\ (s \o t)[1] = s[1]
      BY <3>2
    <3> HIDE DEF o
    <3>3. a \in Seq(Char) /\ Len(a) >= 1 /\ a[1] = "%"
      BY <2>2, <3>1, <3>2
    <3> HIDE DEF a
    <3>4. b \in Seq(Char) /\ Len(b) >= 1 /\ b[1] = "%"
      BY <2>2, <3>3, <3>2
    <3> HIDE DEF b
    <3>5. c \in Seq(Char) /\ Len(c) >= 1 /\ c[1] = "%"
      BY <2>2, <3>4, <3>2
    <3> HIDE DEF c
    <3>6. QED
      BY <2>2, <3>5, <3>2
  <2>4. Written(items[k]) = <<"%">> \o items[k].side \o items[k].digits
                              \o items[k].mark \o items[k].flag
    BY <1>2 DEF Written
  <2>5. QED BY <1>2, <2>3, <2>4
<1>3. QED BY <1>1, <1>2

(* Where the items of a list end in its pattern.                           *)
Parts(items, s) ==
  LET p == PatternOf(items)
  IN  /\ s \in [0 .. Len(items) -> Nat]
      /\ s[0] = 0 /\ s[Len(items)] = Len(p)
      /\ \A k \in 1 .. Len(items) :
           /\ s[k] = s[k - 1] + Len(Written(items[k]))
           /\ s[k] <= Len(p)
           /\ Reads(p, s[k - 1] + 1, Written(items[k]))

PartEnds(items) == CHOOSE s : Parts(items, s)

(* A pattern consists of what its items are written as, in order.          *)
LEMMA PatternParts ==
  ASSUME NEW items, WellFormed(items, Char)
  PROVE  PatternOf(items) \in Seq(Char) /\ Parts(items, PartEnds(items))
<1> DEFINE n == Len(items)
           p == PatternOf(items)
<1>1. items \in Seq(TextItem \cup FlagItem) /\ n \in Nat
  BY DEF WellFormed, TextItem, FlagItem
<1>2. \A k \in 1 .. n : Written(items[k]) \in Seq(Char)
  BY WrittenType
<1>3. PICK v \in [0 .. n -> Seq(Char)] :
        /\ v[0] = << >> /\ v[n] = p
        /\ \A k \in 0 .. n - 1 : v[k + 1] = v[k] \o Written(items[k + 1])
  BY <1>1, <1>2, PatternSteps
<1> HIDE DEF n, p
<1>4. \A k \in 0 .. n - 1 :
        /\ Len(v[k + 1]) = Len(v[k]) + Len(Written(items[k + 1]))
        /\ \A j \in 1 .. Len(v[k]) : v[k + 1][j] = v[k][j]
        /\ \A j \in 1 .. Len(Written(items[k + 1])) :
             v[k + 1][Len(v[k]) + j] = Written(items[k + 1])[j]
  <2>2. \A k \in 0 .. n - 1 : v[k] \in Seq(Char) /\ k + 1 \in 1 .. n
    BY <1>1, <1>3
  <2>3. ASSUME NEW k \in 0 .. n - 1
        PROVE  /\ Len(v[k + 1]) = Len(v[k]) + Len(Written(items[k + 1]))
               /\ \A j \in 1 .. Len(v[k]) : v[k + 1][j] = v[k][j]
               /\ \A j \in 1 .. Len(Written(items[k + 1])) :
                    v[k + 1][Len(v[k]) + j] = Written(items[k + 1])[j]
    <3>1. v[k] \in Seq(Char) /\ Written(items[k + 1]) \in Seq(Char)
      BY <1>2, <2>2
    <3>2. v[k + 1] = v[k] \o Written(items[k + 1])
      BY <1>3
    <3> DEFINE a == v[k]
               b == Written(items[k + 1])
               c == v[k + 1]
    <3> HIDE DEF a, b, c
    <3>3. c = a \o b
      BY <3>2 DEF a, b, c
    <3>4. a \in Seq(Char) /\ b \in Seq(Char)
      BY <3>1 DEF a, b
    <3>5. /\ Len(c) = Len(a) + Len(b)
          /\ \A j \in 1 .. Len(a) : c[j] = a[j]
          /\ \A j \in 1 .. Len(b) : c[Len(a) + j] = b[j]
      BY <3>3, <3>4
    <3>6. QED BY <3>5 DEF a, b, c
  <2>4. QED BY <2>3
<1> DEFINE S == {m \in Nat : m <= n => \A k \in 0 .. m :
                   /\ Len(v[k]) <= Len(v[m])
                   /\ \A j \in 1 .. Len(v[k]) : v[m][j] = v[k][j]}
<1>5. Nat \subseteq S
  <2>1. 0 \in S
    BY <1>3, <1>1
  <2>2. ASSUME NEW m \in Nat, m \in S PROVE m + 1 \in S
    <3>1. SUFFICES ASSUME m + 1 <= n, NEW k \in 0 .. m + 1
                   PROVE  /\ Len(v[k]) <= Len(v[m + 1])
                          /\ \A j \in 1 .. Len(v[k]) : v[m + 1][j] = v[k][j]
      OBVIOUS
    <3>2. CASE k = m + 1
      <4>1. v[k] \in Seq(Char)
        BY <1>1, <1>3, <3>1, <3>2
      <4>2. QED BY <3>2, <4>1
    <3>3. CASE k # m + 1
      <4>1. k \in 0 .. m /\ m <= n /\ m \in 0 .. n - 1 /\ k \in 0 .. n /\ m \in 0 .. n
        BY <3>1, <3>3, <1>1
      <4>2. /\ Len(v[k]) <= Len(v[m])
            /\ \A j \in 1 .. Len(v[k]) : v[m][j] = v[k][j]
        BY <2>2, <4>1
      <4>3. Len(v[k]) \in Nat /\ Len(v[m]) \in Nat /\ m + 1 \in 1 .. n
        <5>1. v[k] \in Seq(Char) /\ v[m] \in Seq(Char)
          BY <1>3, <4>1
        <5>2. QED BY <5>1, <4>1, <1>1
      <4>4. Len(Written(items[m + 1])) \in Nat
        BY <4>3, <1>2
      <4>5. /\ Len(v[m + 1]) = Len(v[m]) + Len(Written(items[m + 1]))
            /\ \A j \in 1 .. Len(v[m]) : v[m + 1][j] = v[m][j]
        BY <4>1, <1>4
      <4> DEFINE x == v[k]
                 y == v[m]
                 z == v[m + 1]
                 w == Written(items[m + 1])
      <4> HIDE DEF x, y, z, w
      <4>6. /\ Len(x) \in Nat /\ Len(y) \in Nat /\ Len(w) \in Nat
            /\ Len(x) <= Len(y) /\ Len(z) = Len(y) + Len(w)
            /\ \A j \in 1 .. Len(x) : y[j] = x[j]
            /\ \A j \in 1 .. Len(y) : z[j] = y[j]
        BY <4>2, <4>3, <4>4, <4>5 DEF x, y, z, w
      <4>7. Len(x) <= Len(z) /\ \A j \in 1 .. Len(x) : z[j] = x[j]
        BY <4>6
      <4>8. QED BY <4>7 DEF x, z
    <3>4. QED BY <3>2, <3>3
  <2> HIDE DEF S
  <2>3. QED BY <2>1, <2>2, SetInduction
<1>6. \A k \in 0 .. n : /\ Len(v[k]) <= Len(p)
                        /\ \A j \in 1 .. Len(v[k]) : p[j] = v[k][j]
  BY <1>5, <1>1, <1>3
<1> DEFINE s == [k \in 0 .. n |-> Len(v[k])]
<1>7. s \in [0 .. n -> Nat] /\ s[0] = 0 /\ s[n] = Len(p) /\ p \in Seq(Char)
  BY <1>1, <1>3
<1>8. ASSUME NEW k \in 1 .. n
      PROVE  /\ s[k] = s[k - 1] + Len(Written(items[k]))
             /\ s[k] <= Len(p)
             /\ Reads(p, s[k - 1] + 1, Written(items[k]))
  <2> DEFINE w == Written(items[k])
             h == k - 1
  <2>1. h \in 0 .. n - 1 /\ h + 1 = k /\ h \in 0 .. n /\ k \in 0 .. n
    BY <1>1
  <2>2. /\ Len(v[k]) = Len(v[h]) + Len(w)
        /\ \A j \in 1 .. Len(w) : v[k][Len(v[h]) + j] = w[j]
    <3>1. h + 1 = k
      BY <2>1
    <3>2. h \in 0 .. n - 1
      BY <2>1
    <3> HIDE DEF h
    <3>3. /\ Len(v[h + 1]) = Len(v[h]) + Len(Written(items[h + 1]))
          /\ \A j \in 1 .. Len(Written(items[h + 1])) :
               v[h + 1][Len(v[h]) + j] = Written(items[h + 1])[j]
      BY <3>2, <1>4
    <3>4. QED BY <3>1, <3>3
  <2>3. s[k] = Len(v[k]) /\ s[h] = Len(v[h]) /\ Len(v[h]) \in Nat /\ Len(w) \in Nat
    BY <2>1, <1>3, <1>2
  <2>4. Len(v[k]) <= Len(p) /\ \A j \in 1 .. Len(v[k]) : p[j] = v[k][j]
    BY <2>1, <1>6
  <2> HIDE DEF w, h, s
  <2>5. ASSUME NEW j \in 1 .. Len(w) PROVE p[s[h] + 1 + j - 1] = w[j]
    <3>1. Len(v[h]) + j \in 1 .. Len(v[k]) /\ s[h] + 1 + j - 1 = Len(v[h]) + j
      BY <2>2, <2>3
    <3>2. QED BY <3>1, <2>2, <2>4
  <2>6. s[h] + 1 + Len(w) <= End(p)
    BY <2>2, <2>3, <2>4, <1>7 DEF End
  <2>7. Reads(p, s[h] + 1, w)
    BY <2>5, <2>6 DEF Reads
  <2>8. QED BY <2>2, <2>3, <2>4, <2>7 DEF w, h
<1> HIDE DEF s
<1>9. Parts(items, s)
  BY <1>7, <1>8 DEF Parts, n, p
<1>10. QED BY <1>9, <1>7 DEF PartEnds, p

(* What the first k items mean.                                            *)
MeantSoFar(items, k, customs) ==
  [i \in {h \in 1 .. k : ~LacksFlag(items[h])} |-> ItemMeant(items[i], customs)]

(* What the items mean, one after the other; the last may mean nothing.    *)
LEMMA MeantFacts ==
  ASSUME NEW items, WellFormed(items, Char), NEW customs
  PROVE  /\ MeantSoFar(items, 0, customs) = << >>
         /\ Meaning(items, customs) = MeantSoFar(items, Len(items), customs)
         /\ \A k \in 0 .. Len(items) :
              MeantSoFar(items, k, customs) \in Seq(Formatter)
         /\ \A k \in 0 .. Len(items) - 1 :
              MeantSoFar(items, k + 1, customs) =
                IF LacksFlag(items[k + 1]) THEN MeantSoFar(items, k, customs)
                ELSE Append(MeantSoFar(items, k, customs),
                            ItemMeant(items[k + 1], customs))
<1> DEFINE n == Len(items)
           whole(k) == {h \in 1 .. k : ~LacksFlag(items[h])}
           M(k) == MeantSoFar(items, k, customs)
<1>1. n \in Nat /\ DOMAIN items = 1 .. n
  BY DEF WellFormed
<1>2. \A h \in 1 .. n : h < n => ~LacksFlag(items[h])
  BY ItemFacts
<1> HIDE DEF n
<1>3. ASSUME NEW k \in 0 .. n, k < n
      PROVE  whole(k) = 1 .. k
  BY <1>1, <1>2, <1>3
<1>4. whole(n) = IF n > 0 /\ LacksFlag(items[n]) THEN 1 .. n - 1 ELSE 1 .. n
  BY <1>1, <1>2
<1>5. ASSUME NEW k \in 0 .. n
      PROVE  \E m \in 0 .. n : whole(k) = 1 .. m
  BY <1>1, <1>3, <1>4
<1>6. ASSUME NEW k \in 0 .. n PROVE M(k) \in Seq(Formatter)
  <2>1. PICK m \in 0 .. n : whole(k) = 1 .. m
    BY <1>5
  <2>2. \A i \in 1 .. m : i \in 1 .. n /\ ~LacksFlag(items[i])
    BY <2>1, <1>1
  <2>3. \A i \in 1 .. m : ItemMeant(items[i], customs) \in Formatter
    BY <2>2, ItemMeantType DEF n
  <2>4. M(k) = [i \in 1 .. m |-> ItemMeant(items[i], customs)]
    BY <2>1 DEF MeantSoFar
  <2> HIDE DEF M
  <2>5. M(k) \in [1 .. m -> Formatter] /\ m \in Nat
    BY <2>3, <2>4, <1>1
  <2>6. QED BY <2>5
<1>7. ASSUME NEW k \in 0 .. n - 1
      PROVE  M(k + 1) = IF LacksFlag(items[k + 1]) THEN M(k)
                        ELSE Append(M(k), ItemMeant(items[k + 1], customs))
  <2>1. whole(k) = 1 .. k /\ k \in Nat /\ k + 1 <= n
    BY <1>1, <1>3
  <2>2. CASE LacksFlag(items[k + 1])
    <3>1. whole(k + 1) = 1 .. k
      BY <2>1, <2>2, <1>1, <1>2
    <3>2. QED BY <2>1, <2>2, <3>1 DEF MeantSoFar
  <2>3. CASE ~LacksFlag(items[k + 1])
    <3>1. whole(k + 1) = 1 .. k + 1
      BY <2>1, <2>3, <1>1, <1>2
    <3>2. /\ M(k) = [i \in 1 .. k |-> ItemMeant(items[i], customs)]
          /\ M(k + 1) = [i \in 1 .. k + 1 |-> ItemMeant(items[i], customs)]
      BY <2>1, <3>1 DEF MeantSoFar
    <3>3. M(k) \in Seq(Formatter) /\ M(k + 1) \in Seq(Formatter)
      BY <1>6, <2>1, <1>1
    <3> DEFINE a == M(k)
               b == M(k + 1)
               c == ItemMeant(items[k + 1], customs)
    <3>4. /\ Len(a) = k /\ Len(b) = k + 1
          /\ \A i \in 1 .. k : b[i] = a[i]
          /\ b[k + 1] = c
      BY <2>1, <3>2
    <3>5. c \in Formatter
      BY <2>1, <2>3, <1>1, ItemMeantType DEF n
    <3> HIDE DEF M, a, b, c
    <3>6. a \in Seq(Formatter) /\ b \in Seq(Formatter)
      BY <3>3 DEF a, b
    <3>7. b = Append(a, c)
      BY <3>4, <3>5, <3>6, <2>1
    <3>8. QED BY <2>3, <3>7 DEF a, b, c
  <2>4. QED BY <2>2, <2>3
<1>8. M(0) = << >>
  <2>1. whole(0) = {}
    OBVIOUS
  <2>2. M(0) = [i \in {} |-> ItemMeant(items[i], customs)]
    BY <2>1 DEF MeantSoFar
  <2>3. QED BY <2>2
<1>9. Meaning(items, customs) = M(n)
  BY <1>1 DEF Meaning, MeantSoFar
<1>10. QED BY <1>6, <1>7, <1>8, <1>9 DEF n

(* How far the compilation is in the pattern of a list of items: it has    *)
(* taken k items, and j characters of a text behind them.                  *)
Scan(items, k, j) ==
  /\ k \in 0 .. Len(items) /\ j \in Nat
  /\ it = PartEnds(items)[k] + j + 1
  /\ formatters = MeantSoFar(items, k, handlers)
  /\ chars \in Seq(Char) /\ Len(chars) = j
  /\ j > 0 => /\ k < Len(items) /\ IsText(items[k + 1])
              /\ j <= Len(items[k + 1].text)
              /\ \A i \in 1 .. j : chars[i] = items[k + 1].text[i]

Scanned(items) == \E k \in 0 .. Len(items), j \in Nat : Scan(items, k, j)

(* What is in the pattern at the position of the scan.                     *)
LEMMA ScanReads ==
  ASSUME NEW items, WellFormed(items, Char), pattern = PatternOf(items),
         NEW k \in 0 .. Len(items), NEW j \in Nat, Scan(items, k, j), it < End(pattern)
  PROVE  /\ k < Len(items)
         /\ j = 0 => pattern[it] = Written(items[k + 1])[1]
         /\ 0 < j /\ j < Len(items[k + 1].text) =>
              pattern[it] = items[k + 1].text[j + 1] /\ pattern[it] # "%"
         /\ 0 < j /\ j >= Len(items[k + 1].text) =>
              /\ j = Len(items[k + 1].text)
              /\ k + 1 < Len(items) /\ ~IsText(items[k + 2])
              /\ it = PartEnds(items)[k + 1] + 1
              /\ pattern[it] = "%"
<1> DEFINE n == Len(items)
           p == PatternOf(items)
           s == PartEnds(items)
<1>1. n \in Nat /\ p \in Seq(Char) /\ Len(p) \in Nat
  BY PatternParts DEF WellFormed
<1>2. /\ s \in [0 .. n -> Nat] /\ s[n] = Len(p)
      /\ \A h \in 1 .. n : /\ s[h] = s[h - 1] + Len(Written(items[h]))
                           /\ s[h] <= Len(p)
                           /\ Reads(p, s[h - 1] + 1, Written(items[h]))
  BY PatternParts DEF Parts
<1> HIDE DEF n, p, s
<1>3. k \in 0 .. n /\ it = s[k] + j + 1 /\ it <= Len(p) /\ s[k] \in Nat
  <2>1. k \in 0 .. n /\ it = s[k] + j + 1
    BY DEF Scan, n, s
  <2>2. s[k] \in Nat
    BY <2>1, <1>2
  <2>3. it < Len(p) + 1
    BY DEF End, p
  <2>4. QED BY <2>1, <2>2, <2>3, <1>1
<1>4. ASSUME NEW h \in 1 .. n
      PROVE  /\ s[h - 1] \in Nat /\ s[h] = s[h - 1] + Len(Written(items[h]))
             /\ \A i \in 1 .. Len(Written(items[h])) :
                  p[s[h - 1] + i] = Written(items[h])[i]
  <2>1. s[h - 1] \in Nat
    BY <1>1, <1>2
  <2>2. \A i \in 1 .. Len(Written(items[h])) :
          p[s[h - 1] + 1 + i - 1] = Written(items[h])[i]
    BY <1>2 DEF Reads
  <2>3. \A i \in 1 .. Len(Written(items[h])) : s[h - 1] + 1 + i - 1 = s[h - 1] + i
    BY <2>1
  <2>4. QED BY <1>2, <2>1, <2>2, <2>3
<1>5. k < n
  <2>1. CASE k = n
    BY <2>1, <1>1, <1>2, <1>3
  <2>2. QED BY <2>1, <1>3, <1>1
<1>6. k + 1 \in 1 .. n /\ (k + 1) - 1 = k
  BY <1>1, <1>3, <1>5
<1>7. \A h \in 1 .. n : /\ Written(items[h]) \in Seq(Char)
                        /\ Len(Written(items[h])) >= 1
                        /\ Written(items[h])[1] = "%" <=> ~IsText(items[h])
  BY WrittenType DEF n
<1>8. ASSUME j = 0 PROVE pattern[it] = Written(items[k + 1])[1]
  <2>1. 1 \in 1 .. Len(Written(items[k + 1])) /\ it = s[k] + 1
    BY <1>3, <1>6, <1>7, <1>8
  <2>2. QED BY <2>1, <1>4, <1>6 DEF p
<1>9. ASSUME 0 < j
      PROVE  /\ IsText(items[k + 1]) /\ j <= Len(items[k + 1].text)
             /\ Written(items[k + 1]) = items[k + 1].text
             /\ items[k + 1].text \in Seq(Char)
             /\ \A i \in 1 .. Len(items[k + 1].text) : items[k + 1].text[i] # "%"
  <2>1. IsText(items[k + 1]) /\ j <= Len(items[k + 1].text)
    BY <1>9 DEF Scan
  <2>2. Written(items[k + 1]) = items[k + 1].text
    BY <2>1 DEF Written
  <2>3. TextOK(items[k + 1])
    BY <2>1, <1>6, ItemFacts DEF n
  <2>4. items[k + 1].text \in Seq(Char)
    BY <2>2, <1>6, <1>7
  <2>5. QED BY <2>1, <2>2, <2>3, <2>4 DEF TextOK
<1>10. ASSUME 0 < j, j < Len(items[k + 1].text)
       PROVE  pattern[it] = items[k + 1].text[j + 1] /\ pattern[it] # "%"
  <2> DEFINE t == items[k + 1].text
  <2>1. t \in Seq(Char) /\ Written(items[k + 1]) = t /\ \A i \in 1 .. Len(t) : t[i] # "%"
    BY <1>9, <1>10
  <2>2. \A i \in 1 .. Len(t) : p[s[k] + i] = t[i]
    BY <2>1, <1>4, <1>6
  <2>3. j < Len(t)
    BY <1>10
  <2> HIDE DEF t
  <2>4. j + 1 \in 1 .. Len(t) /\ it = s[k] + (j + 1)
    BY <2>1, <2>3, <1>3
  <2>5. QED BY <2>1, <2>2, <2>4 DEF p, t
<1>11. ASSUME 0 < j, j >= Len(items[k + 1].text)
       PROVE  /\ j = Len(items[k + 1].text)
              /\ k + 1 < n /\ ~IsText(items[k + 2])
              /\ it = s[k + 1] + 1 /\ pattern[it] = "%"
  <2> DEFINE t == items[k + 1].text
  <2>1. t \in Seq(Char) /\ Written(items[k + 1]) = t /\ j <= Len(t) /\ j >= Len(t)
    BY <1>9, <1>11
  <2>2. s[k + 1] = s[k] + Len(t)
    BY <2>1, <1>4, <1>6
  <2>3. IsText(items[k + 1])
    BY <1>9, <1>11
  <2> HIDE DEF t
  <2>4. j = Len(t)
    BY <2>1
  <2>5. it = s[k + 1] + 1 /\ s[k + 1] < Len(p)
    BY <2>2, <2>4, <1>3, <1>1
  <2>6. k + 1 < n
    <3>1. CASE k + 1 = n
      BY <3>1, <2>5, <1>1, <1>2
    <3>2. QED BY <3>1, <1>6, <1>1
  <2>7. ~IsText(items[k + 2])
    <3>1. (k + 1) + 1 = k + 2
      BY <1>3
    <3>2. QED BY <2>3, <2>6, <3>1, <1>6, ItemFacts DEF n
  <2>8. k + 2 \in 1 .. n /\ (k + 2) - 1 = k + 1
    BY <2>6, <1>3, <1>1
  <2>9. Written(items[k + 2])[1] = "%" /\ 1 \in 1 .. Len(Written(items[k + 2]))
    BY <2>7, <2>8, <1>7
  <2>10. p[s[k + 1] + 1] = "%"
    BY <2>8, <2>9, <1>4
  <2>11. QED BY <2>4, <2>5, <2>6, <2>7, <2>10 DEF p, t
<1>12. QED BY <1>5, <1>8, <1>10, <1>11 DEF n, s

-----------------------------------------------------------------------------
(* compilePattern                                                          *)

(* compilePattern, a character that is not a %: it is the next of a text.  *)
LEMMA CharStep ==
  ASSUME NEW items, WellFormed(items, Char), pattern = PatternOf(items),
         Scanned(items), CompileChar
  PROVE  Scanned(items)'
<1>1. PICK k \in 0 .. Len(items), j \in Nat : Scan(items, k, j)
  BY DEF Scanned
<1>2. /\ it < End(pattern) /\ pattern[it] # "%"
      /\ chars' = Append(chars, pattern[it]) /\ it' = it + 1
      /\ formatters' = formatters /\ handlers' = handlers
  BY DEF CompileChar, InLoop, objectVars
<1> DEFINE t == items[k + 1].text
<1>3. /\ k < Len(items)
      /\ j = 0 => pattern[it] = Written(items[k + 1])[1]
      /\ 0 < j => j < Len(t) /\ pattern[it] = t[j + 1]
  <2>1. /\ k < Len(items)
        /\ j = 0 => pattern[it] = Written(items[k + 1])[1]
        /\ 0 < j /\ j < Len(t) => pattern[it] = t[j + 1]
        /\ 0 < j /\ j >= Len(t) => j = Len(t) /\ pattern[it] = "%"
    BY <1>1, <1>2, ScanReads
  <2>2. 0 < j => j <= Len(t)
    BY <1>1 DEF Scan
  <2>3. Len(t) \in Nat \/ j = 0
    <3>1. CASE 0 < j
      <4>1. items[k + 1] \in TextItem
        <5>1. k + 1 \in 1 .. Len(items) /\ IsText(items[k + 1])
          BY <1>1, <3>1, <2>1 DEF Scan, WellFormed
        <5>2. QED BY <5>1, ItemFacts
      <4>2. QED BY <4>1 DEF TextItem
    <3>2. QED BY <3>1
  <2>4. 0 < j => ~ (j >= Len(t))
    BY <2>1, <1>2
  <2>5. 0 < j => j < Len(t)
    BY <2>2, <2>3, <2>4
  <2>6. QED BY <2>1, <2>5
<1>4. k + 1 \in 1 .. Len(items)
  BY <1>3 DEF WellFormed
<1>5. IsText(items[k + 1])
  <2>1. CASE j = 0
    BY <2>1, <1>2, <1>3, <1>4, WrittenType
  <2>2. CASE 0 < j
    BY <2>2, <1>1 DEF Scan
  <2>3. QED BY <2>1, <2>2
<1>6. /\ t \in Seq(Char) /\ Len(t) >= 1 /\ Written(items[k + 1]) = t
      /\ Len(t) \in Nat
  <2>1. items[k + 1] \in TextItem
    BY <1>4, <1>5, ItemFacts
  <2>2. t \in Seq(Char) \ {<< >>} /\ Written(items[k + 1]) = t
    BY <1>5, <2>1 DEF TextItem, Written
  <2> HIDE DEF t
  <2>3. QED BY <2>2
<1>7. j < Len(t) /\ pattern[it] = t[j + 1]
  BY <1>3, <1>6
<1> HIDE DEF t
<1>8. pattern[it] \in Char
  <2>1. j + 1 \in 1 .. Len(t)
    BY <1>6, <1>7
  <2>2. QED BY <2>1, <1>6, <1>7
<1>9. /\ chars \in Seq(Char) /\ Len(chars) = j
      /\ \A i \in 1 .. j : chars[i] = t[i]
      /\ it = PartEnds(items)[k] + j + 1
      /\ formatters = MeantSoFar(items, k, handlers)
  BY <1>1 DEF Scan, t
<1>10. /\ chars' \in Seq(Char) /\ Len(chars') = j + 1
       /\ \A i \in 1 .. j + 1 : chars'[i] = t[i]
  BY <1>2, <1>7, <1>8, <1>9
<1>11. PartEnds(items)[k] \in Nat
  BY <1>3, PatternParts DEF Parts, WellFormed
<1>12. Scan(items, k, j + 1)'
  <2>1. it' = PartEnds(items)[k] + (j + 1) + 1
    BY <1>2, <1>9, <1>11
  <2>2. k \in 0 .. Len(items) /\ j + 1 \in Nat /\ j + 1 <= Len(t)
    BY <1>6, <1>7
  <2>3. formatters' = MeantSoFar(items, k, handlers')
    BY <1>2, <1>9
  <2>4. QED BY <2>1, <2>2, <2>3, <1>3, <1>5, <1>10 DEF Scan, t
<1>13. QED BY <1>12 DEF Scanned

(* At a %, all before it has become formatters, and it begins the next     *)
(* item.                                                                   *)
LEMMA AtFlag ==
  ASSUME NEW items, WellFormed(items, Char), pattern = PatternOf(items),
         Scanned(items), it < End(pattern), pattern[it] = "%"
  PROVE  \E h \in 1 .. Len(items) :
           /\ ~IsText(items[h])
           /\ it = PartEnds(items)[h - 1] + 1
           /\ WithChars = MeantSoFar(items, h - 1, handlers)
<1>1. PICK k \in 0 .. Len(items), j \in Nat : Scan(items, k, j)
  BY DEF Scanned
<1>2. /\ chars \in Seq(Char) /\ Len(chars) = j
      /\ it = PartEnds(items)[k] + j + 1
      /\ formatters = MeantSoFar(items, k, handlers)
      /\ j > 0 => /\ IsText(items[k + 1])
                  /\ \A i \in 1 .. j : chars[i] = items[k + 1].text[i]
  BY <1>1 DEF Scan
<1>3. /\ k < Len(items) /\ k + 1 \in 1 .. Len(items) /\ (k + 1) - 1 = k
      /\ Len(items) \in Nat
  BY <1>1, ScanReads DEF WellFormed
<1>4. CASE j = 0
  <2>1. ~IsText(items[k + 1])
    BY <1>1, <1>3, <1>4, ScanReads, WrittenType
  <2>2. chars = << >>
    BY <1>2, <1>4
  <2>3. it = PartEnds(items)[k] + 1
    <3>1. PartEnds(items)[k] \in Nat
      BY <1>3, PatternParts DEF Parts
    <3>2. QED BY <3>1, <1>2, <1>4
  <2>4. QED BY <2>1, <2>2, <2>3, <1>2, <1>3 DEF WithChars
<1>5. CASE 0 < j
  <2> DEFINE t == items[k + 1].text
  <2>1. /\ items[k + 1] \in TextItem /\ IsText(items[k + 1])
        /\ ~LacksFlag(items[k + 1])
    BY <1>2, <1>3, <1>5, ItemFacts
  <2>2. t \in Seq(Char)
    BY <2>1 DEF TextItem
  <2>3. j >= Len(t)
    <3>1. ~ (j < Len(t))
      BY <1>1, <1>5, ScanReads
    <3>2. Len(t) \in Nat
      BY <2>2
    <3> HIDE DEF t
    <3>3. QED BY <3>1, <3>2
  <2>4. /\ j = Len(t) /\ k + 1 < Len(items) /\ ~IsText(items[k + 2])
        /\ it = PartEnds(items)[k + 1] + 1
    BY <1>1, <1>5, <2>3, ScanReads
  <2>5. chars = t
    <3>1. \A i \in 1 .. j : chars[i] = t[i]
      BY <1>2, <1>5
    <3> HIDE DEF t
    <3>2. QED BY <3>1, <1>2, <2>2, <2>4, SameElements
  <2>6. chars # << >>
    BY <1>2, <1>5
  <2>7. ItemMeant(items[k + 1], handlers) = TextFormatter(chars)
    BY <2>1, <2>5 DEF ItemMeant, TextFormatter
  <2>8. WithChars = MeantSoFar(items, k + 1, handlers)
    <3>1. k \in 0 .. Len(items) - 1
      BY <1>3
    <3>2. MeantSoFar(items, k + 1, handlers)
            = Append(MeantSoFar(items, k, handlers),
                     ItemMeant(items[k + 1], handlers))
      BY <2>1, <3>1, MeantFacts
    <3>3. QED BY <3>2, <2>6, <2>7, <1>2 DEF WithChars
  <2>9. k + 2 \in 1 .. Len(items) /\ (k + 2) - 1 = k + 1
    BY <2>4, <1>3
  <2>10. QED BY <2>4, <2>8, <2>9
<1>6. QED BY <1>4, <1>5

(* compilePattern, a % and what belongs to it: it is an item, with its     *)
(* padding, or the % of a last item that lacks its flag.                   *)
LEMMA FlagStep ==
  ASSUME NEW items, WellFormed(items, Char), pattern = PatternOf(items),
         Scanned(items), CompileFlag
  PROVE  Scanned(items)'
<1> DEFINE p == PatternOf(items)
           s == PartEnds(items)
           n == Len(items)
           spec == PadSpec(pattern, it + 1)
<1>1. /\ it < End(pattern) /\ pattern[it] = "%"
      /\ IF spec.next < End(pattern)
         THEN /\ formatters' =
                   Append(WithChars, FlagFormatter(pattern[spec.next], spec.pad))
              /\ it' = spec.next + 1
         ELSE formatters' = WithChars /\ it' = End(pattern)
      /\ chars' = << >> /\ handlers' = handlers
  BY DEF CompileFlag, InLoop, objectVars
<1>2. PICK h \in 1 .. n : /\ ~IsText(items[h])
                          /\ it = s[h - 1] + 1
                          /\ WithChars = MeantSoFar(items, h - 1, handlers)
  BY <1>1, AtFlag
<1>3. /\ n \in Nat /\ p \in Seq(Char) /\ Len(p) \in Nat
      /\ s \in [0 .. n -> Nat] /\ s[n] = Len(p)
      /\ s[h] = s[h - 1] + Len(Written(items[h]))
      /\ s[h] <= Len(p)
      /\ Reads(p, s[h - 1] + 1, Written(items[h]))
  <2>1. p \in Seq(Char) /\ Parts(items, s)
    BY PatternParts
  <2>2. n \in Nat
    BY DEF WellFormed
  <2> HIDE DEF s
  <2>3. /\ s \in [0 .. n -> Nat] /\ s[n] = Len(p)
        /\ \A k \in 1 .. n : /\ s[k] = s[k - 1] + Len(Written(items[k]))
                             /\ s[k] <= Len(p)
                             /\ Reads(p, s[k - 1] + 1, Written(items[k]))
    BY <2>1 DEF Parts
  <2> HIDE DEF p, n
  <2>4. Len(p) \in Nat
    BY <2>1
  <2>5. QED BY <2>1, <2>2, <2>3, <2>4
<1> DEFINE x == items[h]
           side == x.side
           digits == x.digits
           mark == x.mark
           flag == x.flag
           ls == Len(side)
           ld == Len(digits)
           lm == Len(mark)
           lf == Len(flag)
<1>4. x \in FlagItem /\ FlagOK(x) /\ (h < n => ~LacksFlag(x))
  BY <1>2, ItemFacts
<1>5. /\ side \in Seq(Char) /\ digits \in Seq(DOMAIN Digit) /\ mark \in Seq(Char)
      /\ flag \in Seq(Char) /\ digits \in Seq(Char) /\ <<"%">> \in Seq(Char)
  BY <1>4, CharacterAssumption DEF FlagItem
<1>f. lf <= 1
  BY <1>4 DEF FlagOK
<1>l. ls \in Nat /\ ld \in Nat /\ lm \in Nat /\ lf \in Nat
  <2> HIDE DEF side, digits, mark, flag
  <2>1. QED BY <1>5
<1>x. x = [side |-> side, digits |-> digits, mark |-> mark, flag |-> flag]
  BY <1>4 DEF FlagItem
<1>6. Written(x) = <<"%">> \o side \o digits \o mark \o flag
  BY <1>2 DEF Written
<1>7. s[h - 1] \in Nat /\ s[h] \in Nat
  BY <1>3
<1>8. LacksFlag(x) <=> flag = << >>
  BY <1>2 DEF LacksFlag
<1>9. ItemMeant(x, handlers) = [flag |-> flag[1], custom |-> flag[1] \in handlers,
                                pad |-> PadMeant(x)]
  BY <1>2 DEF ItemMeant
<1> HIDE DEF p, s, n, x, side, digits, mark, flag
<1> DEFINE i == s[h - 1] + 2
           a == i + ls
           b == a + ld
           c == b + lm
<1>10. /\ Reads(p, i, side) /\ Reads(p, a, digits) /\ Reads(p, b, mark)
       /\ Reads(p, c, flag)
       /\ s[h] + 1 = c + lf
  <2> DEFINE o == <<"%">>
             w1 == o \o side
             w2 == w1 \o digits
             w3 == w2 \o mark
             w4 == w3 \o flag
             z == s[h - 1] + 1
             n0 == Len(o)
             n1 == Len(w1)
             n2 == Len(w2)
             n3 == Len(w3)
  <2>1. Reads(p, z, w4) /\ s[h] = s[h - 1] + Len(w4)
    BY <1>3, <1>6 DEF x
  <2>2. o \in Seq(Char) /\ z \in Nat
    BY <1>5, <1>7
  <2>a. n0 = 1
    OBVIOUS
  <2> HIDE DEF o, z
  <2>3. w1 \in Seq(Char) /\ n1 = n0 + ls
    BY <1>5, <2>2
  <2> HIDE DEF w1
  <2>4. w2 \in Seq(Char) /\ n2 = n1 + ld
    <3>1. w1 \in Seq(Char)
      BY <2>3
    <3>2. QED BY <1>5, <3>1
  <2> HIDE DEF w2
  <2>5. w3 \in Seq(Char) /\ n3 = n2 + lm
    <3>1. w2 \in Seq(Char)
      BY <2>4
    <3>2. QED BY <1>5, <3>1
  <2> HIDE DEF w3
  <2>6. Len(w4) = n3 + lf
    <3>1. w3 \in Seq(Char)
      BY <2>5
    <3>2. QED BY <1>5, <3>1
  <2> HIDE DEF w4
  <2>7. Reads(p, z, w3) /\ Reads(p, z + n3, flag)
    BY <2>1, <2>2, <2>5, <1>3, <1>5, ReadsJoined DEF w4
  <2>8. Reads(p, z, w2) /\ Reads(p, z + n2, mark)
    BY <2>7, <2>2, <2>4, <1>3, <1>5, ReadsJoined DEF w3
  <2>9. Reads(p, z, w1) /\ Reads(p, z + n1, digits)
    BY <2>8, <2>2, <2>3, <1>3, <1>5, ReadsJoined DEF w2
  <2>10. Reads(p, z + n0, side)
    BY <2>9, <2>2, <1>3, <1>5, ReadsJoined DEF w1
  <2>12. /\ z + n0 = i /\ z + n1 = a /\ z + n2 = b
         /\ z + n3 = c
    <3>1. n0 = 1 /\ n1 = n0 + ls /\ n2 = n1 + ld /\ n3 = n2 + lm
      BY <2>a, <2>3, <2>4, <2>5
    <3> DEFINE r == s[h - 1]
    <3> HIDE DEF ls, ld, lm, n0, n1, n2, n3, r
    <3>2. r \in Nat /\ z = r + 1
      BY <1>7 DEF z, r
    <3>3. /\ z + n0 = r + 2 /\ z + n1 = r + 2 + ls
          /\ z + n2 = r + 2 + ls + ld /\ z + n3 = r + 2 + ls + ld + lm
      BY <3>1, <3>2, <1>l
    <3>4. QED BY <3>3 DEF r
  <2>13. s[h] + 1 = c + lf
    <3>1. n3 \in Nat
      BY <2>5
    <3> DEFINE r == s[h - 1]
               t == s[h]
               l4 == Len(w4)
    <3>2. /\ r \in Nat /\ t = r + l4 /\ l4 = n3 + lf /\ r + 1 + n3 = c
          /\ lf \in Nat
      BY <2>1, <2>6, <2>12, <1>l, <1>7 DEF z
    <3> HIDE DEF c, lf, n3, r, t, l4
    <3>3. t + 1 = c + lf
      BY <3>1, <3>2
    <3>4. QED BY <3>3 DEF t
  <2>14. QED BY <2>7, <2>8, <2>9, <2>10, <2>12, <2>13
<1>11. c \in Nat /\ it + 1 = i /\ i \in Nat \ {0}
  <2> DEFINE r == s[h - 1]
  <2>1. /\ r \in Nat /\ it = r + 1 /\ i = r + 2
        /\ c = r + 2 + ls + ld + lm
    BY <1>2, <1>7
  <2> HIDE DEF ls, ld, lm, r, i, c
  <2>2. QED BY <2>1, <1>l
<1>12. End(p) = Len(p) + 1 /\ pattern = p
  BY DEF End, p
<1>13. flag = << >> => h = n /\ c = End(p)
  <2>1. ASSUME flag = << >> PROVE h = n /\ c = End(p)
    <3>1. h = n
      BY <1>2, <1>3, <1>4, <1>8, <2>1 DEF n
    <3>2. lf = 0
      BY <2>1
    <3> HIDE DEF lf, c
    <3>3. QED BY <3>1, <3>2, <1>3, <1>10, <1>11, <1>12
  <2>2. QED BY <2>1
<1>14. spec = [pad |-> PadMeant(x), next |-> c]
  <2> DEFINE y == [side |-> side, digits |-> digits, mark |-> mark, flag |-> flag]
  <2>1. FlagOK(y) /\ PadMeant(x) = PadMeant(y)
    BY <1>4, <1>x
  <2> HIDE DEF i
  <2>2. PadSpec(p, i) = [pad |-> PadMeant(y), next |-> c]
    <3>1. /\ Reads(p, i, side) /\ Reads(p, i + Len(side), digits)
          /\ Reads(p, i + Len(side) + Len(digits), mark)
          /\ Reads(p, i + Len(side) + Len(digits) + Len(mark), flag)
      BY <1>10
    <3>2. flag = << >> => i + Len(side) + Len(digits) + Len(mark) = End(p)
      BY <1>13
    <3>3. i \in Nat \ {0} /\ p \in Seq(Char)
      BY <1>11, <1>3
    <3>4. QED BY <2>1, <1>5, <3>1, <3>2, <3>3, PadSpecReads
  <2>3. QED BY <2>1, <2>2, <1>11, <1>12
<1>15. h - 1 \in 0 .. n - 1 /\ (h - 1) + 1 = h /\ h \in 0 .. n
  BY <1>2, <1>3 DEF n
<1>16. MeantSoFar(items, h, handlers) =
         IF LacksFlag(x) THEN MeantSoFar(items, h - 1, handlers)
         ELSE Append(MeantSoFar(items, h - 1, handlers), ItemMeant(x, handlers))
  BY <1>15, MeantFacts DEF n, x
<1>17. it' = s[h] + 1 /\ formatters' = MeantSoFar(items, h, handlers)
  <2>1. CASE flag = << >>
    <3>1. ~ (spec.next < End(pattern))
      BY <2>1, <1>11, <1>12, <1>13, <1>14
    <3>2. it' = End(p) /\ formatters' = WithChars
      BY <3>1, <1>1, <1>12
    <3>3. s[h] + 1 = End(p)
      BY <2>1, <1>3, <1>12, <1>13
    <3>4. QED BY <3>2, <3>3, <2>1, <1>2, <1>8, <1>16
  <2>2. CASE flag # << >>
    <3>1. lf = 1
      <4>1. lf # 0
        BY <2>2, <1>5
      <4> HIDE DEF lf
      <4>2. QED BY <4>1, <1>f, <1>l
    <3>2. c < End(p) /\ p[c] = flag[1]
      <4>1. p[c + 1 - 1] = flag[1] /\ c + 1 <= End(p)
        BY <3>1, <1>10 DEF Reads
      <4>2. c + 1 - 1 = c /\ End(p) \in Nat
        <5> HIDE DEF c
        <5>1. QED BY <1>3, <1>11, <1>12
      <4>3. QED BY <4>1, <4>2, <1>11
    <3>3. spec.next = c /\ spec.pad = PadMeant(x)
      BY <1>14
    <3>4. /\ formatters' = Append(WithChars, FlagFormatter(p[c], PadMeant(x)))
          /\ it' = c + 1
      BY <1>1, <1>12, <3>2, <3>3
    <3>5. FlagFormatter(p[c], PadMeant(x)) = ItemMeant(x, handlers)
      BY <3>2, <1>9 DEF FlagFormatter, IsCustom
    <3>6. it' = s[h] + 1
      <4> HIDE DEF lf, c
      <4>1. QED BY <3>1, <3>4, <1>10
    <3>7. QED BY <3>4, <3>5, <3>6, <2>2, <1>2, <1>8, <1>16
  <2>3. QED BY <2>1, <2>2
<1>18. Scan(items, h, 0)'
  <2>1. it' = PartEnds(items)[h] + 0 + 1
    BY <1>17, <1>7 DEF s
  <2>2. h \in 0 .. Len(items) /\ 0 \in Nat
    BY <1>15 DEF n
  <2>3. formatters' = MeantSoFar(items, h, handlers')
    BY <1>1, <1>17
  <2>4. chars' \in Seq(Char) /\ Len(chars') = 0
    BY <1>1
  <2>5. QED BY <2>1, <2>2, <2>3, <2>4 DEF Scan
<1>19. QED BY <1>15, <1>18 DEF Scanned, n

(* compilePattern, behind the loop: all items have become formatters.      *)
LEMMA EndStep ==
  ASSUME NEW items, WellFormed(items, Char), pattern = PatternOf(items),
         Scanned(items), CompileEnd
  PROVE  formatters' = Meaning(items, handlers)
<1> DEFINE p == PatternOf(items)
           s == PartEnds(items)
           n == Len(items)
<1>1. PICK k \in 0 .. n, j \in Nat : Scan(items, k, j)
  BY DEF Scanned
<1>2. /\ it = End(p) /\ formatters' = WithChars
  BY DEF CompileEnd
<1>3. /\ n \in Nat /\ Len(p) \in Nat
      /\ s \in [0 .. n -> Nat] /\ s[n] = Len(p)
      /\ \A h \in 1 .. n : /\ s[h] = s[h - 1] + Len(Written(items[h]))
                           /\ s[h] <= Len(p)
  BY PatternParts DEF Parts, WellFormed
<1>4. /\ it = s[k] + j + 1 /\ formatters = MeantSoFar(items, k, handlers)
      /\ chars \in Seq(Char) /\ Len(chars) = j
      /\ j > 0 => /\ k < n /\ IsText(items[k + 1]) /\ j <= Len(items[k + 1].text)
                  /\ \A i \in 1 .. j : chars[i] = items[k + 1].text[i]
  BY <1>1 DEF Scan
<1>5. Meaning(items, handlers) = MeantSoFar(items, n, handlers)
  BY MeantFacts
<1>6. \A h \in 1 .. n : /\ Written(items[h]) \in Seq(Char)
                        /\ Len(Written(items[h])) >= 1
  BY WrittenType
<1>7. it = Len(p) + 1
  BY <1>2 DEF End
<1>8. CASE j = 0
  <2>1. chars = << >>
    BY <1>4, <1>8
  <2>2. k = n
    <3> HIDE DEF n, p, s
    <3>1. s[k] = Len(p)
      BY <1>3, <1>4, <1>7, <1>8
    <3>2. ASSUME k < n PROVE FALSE
      <4>1. k + 1 \in 1 .. n /\ (k + 1) - 1 = k
        BY <1>1, <1>3, <3>2
      <4>2. s[k + 1] = s[k] + Len(Written(items[k + 1])) /\ s[k + 1] <= Len(p)
            /\ Len(Written(items[k + 1])) \in Nat
            /\ Len(Written(items[k + 1])) >= 1
        BY <4>1, <1>3, <1>6
      <4>3. QED BY <4>2, <3>1, <1>3
    <3>3. QED BY <3>2, <1>1, <1>3
  <2>3. QED BY <2>1, <2>2, <1>2, <1>4, <1>5 DEF WithChars
<1>9. CASE 0 < j
  <2> DEFINE t == items[k + 1].text
  <2>1. k + 1 \in 1 .. n /\ (k + 1) - 1 = k /\ k < n /\ IsText(items[k + 1])
    <3> HIDE DEF n
    <3>1. QED BY <1>1, <1>3, <1>4, <1>9
  <2>2. Written(items[k + 1]) = t /\ t \in Seq(Char)
    BY <2>1, <1>6 DEF Written
  <2>3. j <= Len(t) /\ \A i \in 1 .. j : chars[i] = t[i]
    BY <1>4, <1>9
  <2>4. s[k + 1] = s[k] + Len(t) /\ s[k + 1] <= Len(p)
    BY <2>1, <2>2, <1>3
  <2>5. ~LacksFlag(items[k + 1])
    BY <2>1 DEF LacksFlag
  <2>6. ItemMeant(items[k + 1], handlers) = [text |-> t]
    BY <2>1 DEF ItemMeant
  <2> HIDE DEF n, p, s, t
  <2>7. s[k] \in Nat /\ Len(t) \in Nat
    BY <1>3, <2>1, <2>2
  <2>8. j = Len(t) /\ s[k + 1] = Len(p)
    BY <2>3, <2>4, <2>7, <1>4, <1>7, <1>3
  <2>9. chars = t
    BY <2>2, <2>3, <2>8, <1>4, SameElements
  <2>10. chars # << >>
    BY <1>4, <1>9
  <2>11. k + 1 = n
    <3>1. ASSUME k + 1 < n PROVE FALSE
      <4>1. k + 2 \in 1 .. n /\ (k + 2) - 1 = k + 1
        BY <1>1, <1>3, <3>1
      <4>2. s[k + 2] = s[k + 1] + Len(Written(items[k + 2])) /\ s[k + 2] <= Len(p)
            /\ Len(Written(items[k + 2])) \in Nat
            /\ Len(Written(items[k + 2])) >= 1
        BY <4>1, <1>3, <1>6
      <4>3. QED BY <4>2, <2>8, <1>3
    <3>2. QED BY <3>1, <2>1, <1>3
  <2>12. MeantSoFar(items, n, handlers)
           = Append(MeantSoFar(items, k, handlers), [text |-> t])
    <3>1. k \in 0 .. Len(items) - 1
      BY <2>1, <1>3 DEF n
    <3>2. MeantSoFar(items, k + 1, handlers)
            = Append(MeantSoFar(items, k, handlers),
                     ItemMeant(items[k + 1], handlers))
      BY <2>5, <3>1, MeantFacts
    <3>3. QED BY <3>2, <2>6, <2>11
  <2>13. QED
    BY <2>9, <2>10, <2>12, <1>2, <1>4, <1>5 DEF WithChars, TextFormatter
<1>10. QED BY <1>8, <1>9

(* A compilation that begins has read nothing of any pattern.              *)
LEMMA ScanBegins ==
  ASSUME NEW items, WellFormed(items, Char), it = 1, chars = << >>,
         formatters = << >>
  PROVE  Scanned(items)
<1>1. Len(items) \in Nat /\ PartEnds(items)[0] = 0
  BY PatternParts DEF Parts, WellFormed
<1>2. MeantSoFar(items, 0, handlers) = << >>
  BY MeantFacts
<1>3. Scan(items, 0, 0)
  BY <1>1, <1>2 DEF Scan
<1>4. QED BY <1>1, <1>3 DEF Scanned

-----------------------------------------------------------------------------
(* The object: its operations and clones.                                  *)

(* fs are the formatters that every list with pattern p means.             *)
Faithful(fs, p, customs) ==
  \A items \in ItemLists : PatternOf(items) = p => fs = Meaning(items, customs)

(* The pattern of the object has a list of items, and so has the one that  *)
(* is compiled; the compilation is on its way through each list with that  *)
(* pattern. When it is done, current formatters are what the pattern       *)
(* means, and so are those of the object this one was cloned from.         *)
CompilerInv ==
  /\ ownItems \in ItemLists /\ m_pattern = PatternOf(ownItems)
  /\ meant.items \in ItemLists
  /\ pc = "compile" =>
       /\ pattern = PatternOf(meant.items) /\ handlers = meant.customs
       /\ \A items \in ItemLists : PatternOf(items) = pattern => Scanned(items)
       /\ current => pattern = m_pattern
  /\ pc # "compile" =>
       /\ formatters \in Seq(Formatter)
       /\ CompiledAsMeant
       /\ current => Faithful(formatters, m_pattern, handlers)
  /\ origin # NoOrigin /\ origin[1].current /\ current =>
       Faithful(origin[1].formatters, m_pattern, handlers)

(* A list without items has the empty pattern, and no other list has; its  *)
(* place is taken by the pattern by default.                               *)
LEMMA NamedPattern ==
  ASSUME NEW items \in ItemLists, NEW customs
  PROVE  /\ MeantBy(items, customs).items \in ItemLists
         /\ MeantBy(items, customs).customs = customs
         /\ PatternOf(MeantBy(items, customs).items) = Named(PatternOf(items))
<1> DEFINE unnamed == <<[text |-> DefaultPattern]>>
           p == PatternOf(items)
           n == Len(items)
           s == PartEnds(items)
<1>1. /\ unnamed \in ItemLists
      /\ WellFormed(items, Char) /\ WellFormed(unnamed, Char)
  BY FormatterAssumption DEF ItemLists
<1>2. PatternOf(unnamed) = DefaultPattern
  <2> DEFINE q == PatternOf(unnamed)
             e == PartEnds(unnamed)
             w == Written(unnamed[1])
  <2>1. Len(unnamed) = 1 /\ unnamed[1] = [text |-> DefaultPattern]
    OBVIOUS
  <2>2. w = DefaultPattern
    BY <2>1 DEF Written, IsText
  <2> HIDE DEF unnamed
  <2>3. /\ q \in Seq(Char) /\ e[0] = 0 /\ e[1] = Len(q)
        /\ e[1] = e[0] + Len(w) /\ Reads(q, e[0] + 1, w)
    <3>1. q \in Seq(Char) /\ Parts(unnamed, e)
      BY <1>1, PatternParts
    <3>2. /\ e[0] = 0 /\ e[Len(unnamed)] = Len(q)
          /\ \A k \in 1 .. Len(unnamed) :
               /\ e[k] = e[k - 1] + Len(Written(unnamed[k]))
               /\ Reads(q, e[k - 1] + 1, Written(unnamed[k]))
      BY <3>1 DEF Parts
    <3>3. 1 \in 1 .. Len(unnamed) /\ 1 - 1 = 0
      BY <2>1
    <3> HIDE DEF e
    <3>4. e[1] = e[1 - 1] + Len(w) /\ Reads(q, e[1 - 1] + 1, w)
      BY <3>2, <3>3
    <3>5. QED BY <2>1, <3>1, <3>2, <3>3, <3>4
  <2>4. w \in Seq(Char)
    BY <1>1, <2>1, WrittenType
  <2> HIDE DEF q, e, w
  <2>5. Len(q) = Len(w)
    BY <2>3, <2>4
  <2>6. \A j \in 1 .. Len(q) : q[j] = w[j]
    <3>1. \A j \in 1 .. Len(w) : q[0 + 1 + j - 1] = w[j]
      BY <2>3 DEF Reads
    <3>2. \A j \in 1 .. Len(w) : 0 + 1 + j - 1 = j
      BY <2>4
    <3>3. QED BY <2>5, <3>1, <3>2
  <2>7. q = w
    BY <2>3, <2>4, <2>5, <2>6, SameElements
  <2>8. QED BY <2>2, <2>7 DEF q
<1>3. /\ p \in Seq(Char) /\ n \in Nat /\ s[0] = 0 /\ s[n] = Len(p)
      /\ s \in [0 .. n -> Nat]
      /\ \A k \in 1 .. n : s[k] = s[k - 1] + Len(Written(items[k]))
  BY <1>1, PatternParts DEF Parts, WellFormed
<1>4. p = << >> <=> items = << >>
  <2>1. CASE items = << >>
    <3>1. n = 0
      BY <2>1
    <3> HIDE DEF p, n, s
    <3>2. Len(p) = 0
      BY <1>3, <3>1
    <3>3. QED BY <1>3, <2>1, <3>2
  <2>2. CASE items # << >>
    <3>1. n > 0
      BY <1>1, <2>2 DEF WellFormed
    <3>2. n \in 1 .. n
      BY <3>1, <1>3
    <3>3. Len(Written(items[n])) >= 1 /\ Written(items[n]) \in Seq(Char)
      BY <1>1, <3>2, WrittenType
    <3> DEFINE l == Len(Written(items[n]))
    <3>4. l >= 1 /\ l \in Nat /\ s[n] = s[n - 1] + l /\ s[n - 1] \in Nat
      <4>1. s[n] = s[n - 1] + l
        BY <3>2, <1>3
      <4>2. n - 1 \in 0 .. n
        BY <3>2, <1>3
      <4>3. s[n - 1] \in Nat
        BY <4>2, <1>3
      <4> HIDE DEF p, n, s
      <4>4. l \in Nat
        BY <3>3
      <4>5. QED BY <3>3, <4>1, <4>3, <4>4
    <3> HIDE DEF p, n, s, l
    <3>5. Len(p) # 0
      BY <1>3, <3>4
    <3>6. QED BY <3>5, <2>2
  <2>3. QED BY <2>1, <2>2
<1> HIDE DEF unnamed
<1>5. QED BY <1>1, <1>2, <1>4 DEF MeantBy, Named, unnamed

(* compilePattern goes through the pattern item by item, and its           *)
(* formatters are what the pattern means when it is done.                  *)
LEMMA CompileStepKeeps ==
  ASSUME CompilerInv, CompileStep
  PROVE  CompilerInv'
<1>1. pc = "compile"
  BY DEF CompileStep, CompileChar, CompileFlag, CompileEnd, InLoop
<1>2. \A items \in ItemLists : WellFormed(items, Char)
  BY FormatterAssumption
<1>3. /\ m_pattern' = m_pattern /\ handlers' = handlers /\ pattern' = pattern
      /\ ownItems' = ownItems /\ meant' = meant /\ origin' = origin
      /\ current' = current
  BY DEF CompileStep, CompileChar, CompileFlag, CompileEnd, objectVars,
         historyVars
<1>4. \A fs, p, customs : Faithful(fs, p, customs)' <=> Faithful(fs, p, customs)
  BY DEF Faithful
<1>5. CASE CompileChar \/ CompileFlag
  <2>1. pc' = "compile"
    BY <1>1, <1>5 DEF CompileChar, CompileFlag
  <2>2. ASSUME NEW items \in ItemLists, PatternOf(items) = pattern
        PROVE  Scanned(items)'
    BY <1>1, <1>2, <1>5, <2>2, CharStep, FlagStep DEF CompilerInv
  <2>3. QED BY <1>1, <1>3, <2>1, <2>2 DEF CompilerInv, Faithful, NoOrigin
<1>6. CASE CompileEnd
  <2>1. pc' = "idle"
    BY <1>6 DEF CompileEnd
  <2>2. ASSUME NEW items \in ItemLists, PatternOf(items) = pattern
        PROVE  formatters' = Meaning(items, handlers)
    BY <1>1, <1>2, <1>6, <2>2, EndStep DEF CompilerInv
  <2>3. formatters' \in Seq(Formatter)
    <3>1. PICK items \in ItemLists : PatternOf(items) = pattern
      BY <1>1 DEF CompilerInv
    <3>2. formatters' = Meaning(items, handlers)
      BY <2>2, <3>1
    <3>3. Len(items) \in 0 .. Len(items)
      BY <1>2 DEF WellFormed
    <3>4. QED BY <1>2, <3>2, <3>3, MeantFacts
  <2>4. CompiledAsMeant'
    <3>1. /\ meant.items \in ItemLists /\ pattern = PatternOf(meant.items)
          /\ handlers = meant.customs
      BY <1>1 DEF CompilerInv
    <3>2. formatters' = Meaning(meant.items, meant.customs)
      BY <2>2, <3>1
    <3>3. QED BY <1>3, <3>2 DEF CompiledAsMeant
  <2>5. ASSUME current PROVE Faithful(formatters', m_pattern, handlers)
    <3>1. pattern = m_pattern
      BY <1>1, <2>5 DEF CompilerInv
    <3>2. QED BY <2>2, <3>1 DEF Faithful
  <2>6. QED BY <1>1, <1>3, <2>1, <2>3, <2>4, <2>5 DEF CompilerInv, Faithful, NoOrigin
<1>7. QED BY <1>5, <1>6 DEF CompileStep

(* A compilation that begins has read nothing yet.                         *)
LEMMA BeginScans ==
  ASSUME NEW p, BeginCompile(p)
  PROVE  \A items \in ItemLists : Scanned(items)'
<1>1. /\ it' = 1 /\ chars' = << >> /\ formatters' = << >>
  BY DEF BeginCompile
<1>2. ASSUME NEW items \in ItemLists PROVE Scanned(items)'
  <2>1. WellFormed(items, Char)
    BY FormatterAssumption
  <2>2. Len(items) \in Nat /\ PartEnds(items)[0] = 0
    BY <2>1, PatternParts DEF Parts, WellFormed
  <2>3. MeantSoFar(items, 0, handlers') = << >>
    BY <2>1, MeantFacts
  <2>4. Scan(items, 0, 0)'
    BY <1>1, <2>2, <2>3 DEF Scan
  <2>5. QED BY <2>2, <2>4 DEF Scanned
<1>3. QED BY <1>2

(* The constructor begins with a pattern and its handlers.                 *)
LEMMA CompilerInitInv ==
  ASSUME CompilerInit
  PROVE  CompilerInv
<1>1. PICK c \in Constructions : /\ m_pattern = Named(PatternOf(c.items))
                                 /\ handlers = c.customs
                                 /\ meant = MeantBy(c.items, c.customs)
                                 /\ ownItems = meant.items
  BY DEF CompilerInit
<1>2. c.items \in ItemLists
  BY DEF ItemLists
<1>3. /\ pattern = m_pattern /\ formatters = << >> /\ pc = "compile" /\ it = 1
      /\ chars = << >> /\ origin = NoOrigin /\ current = TRUE
  BY DEF CompilerInit
<1>4. /\ meant.items \in ItemLists /\ meant.customs = handlers
      /\ PatternOf(meant.items) = m_pattern
  BY <1>1, <1>2, NamedPattern
<1>5. \A items \in ItemLists : Scanned(items)
  BY <1>3, FormatterAssumption, ScanBegins
<1>6. QED BY <1>1, <1>3, <1>4, <1>5 DEF CompilerInv, NoOrigin

(* clone, add_flag and setPattern of the formatter, and setPattern of the  *)
(* sink.                                                                   *)
LEMMA ChangeKeeps ==
  ASSUME CompilerInv, Change
  PROVE  CompilerInv'
<1>1. CASE \E items \in NewItemLists : NewFormatter(items)
  <2>1. PICK items \in NewItemLists : NewFormatter(items)
    BY <1>1
  <2>2. items \in ItemLists
    BY DEF ItemLists
  <2>3. /\ m_pattern' = Named(PatternOf(items)) /\ handlers' = {}
        /\ BeginCompile(m_pattern') /\ meant' = MeantBy(items, {})
        /\ ownItems' = meant'.items /\ origin' = NoOrigin /\ current' = TRUE
        /\ pc' = "compile" /\ pattern' = m_pattern'
    BY <2>1 DEF NewFormatter, BeginCompile
  <2>4. /\ meant'.items \in ItemLists /\ meant'.customs = {}
        /\ PatternOf(meant'.items) = m_pattern'
    BY <2>2, <2>3, NamedPattern
  <2>5. \A l \in ItemLists : Scanned(l)'
    BY <2>3, BeginScans
  <2>6. QED BY <2>3, <2>4, <2>5 DEF CompilerInv, NoOrigin
<1>2. CASE \E items \in NewItemLists : SetPattern(items)
  <2>1. PICK items \in NewItemLists : SetPattern(items)
    BY <1>2
  <2>2. items \in ItemLists
    BY DEF ItemLists
  <2>3. /\ m_pattern' = m_pattern /\ handlers' = handlers
        /\ BeginCompile(PatternOf(items))
        /\ meant' = [items |-> items, customs |-> handlers] /\ ownItems' = ownItems
        /\ origin' = NoOrigin /\ current' = (PatternOf(items) = m_pattern)
        /\ pc' = "compile" /\ pattern' = PatternOf(items)
    BY <2>1 DEF SetPattern, BeginCompile, objectVars
  <2>4. \A l \in ItemLists : Scanned(l)'
    BY <2>3, BeginScans
  <2>5. QED BY <2>2, <2>3, <2>4 DEF CompilerInv, NoOrigin
<1>3. CASE \E flag \in Customs : AddFlag(flag)
  <2>1. /\ pc = "idle" /\ pc' = "idle" /\ current' = FALSE
        /\ m_pattern' = m_pattern /\ formatters' = formatters
        /\ ownItems' = ownItems /\ meant' = meant /\ origin' = origin
    BY <1>3 DEF AddFlag
  <2>2. QED BY <2>1 DEF CompilerInv, CompiledAsMeant, NoOrigin
<1>4. CASE Clone
  <2>1. /\ pc = "idle" /\ origin = NoOrigin
        /\ origin' = <<[formatters |-> formatters, current |-> current]>>
        /\ BeginCompile(m_pattern) /\ handlers' = handlers
        /\ current' = TRUE /\ m_pattern' = m_pattern /\ ownItems' = ownItems
        /\ meant' = [items |-> ownItems, customs |-> handlers]
        /\ pc' = "compile" /\ pattern' = m_pattern
    BY <1>4 DEF Clone, BeginCompile, ClonedHandlers
  <2>2. \A l \in ItemLists : Scanned(l)'
    BY <2>1, BeginScans
  <2>3. origin' # NoOrigin
    BY <2>1 DEF NoOrigin
  <2>4. origin'[1].current = current /\ origin'[1].formatters = formatters
    BY <2>1
  <2>5. current => Faithful(formatters, m_pattern, handlers)
    BY <2>1 DEF CompilerInv
  <2>6. Faithful(origin[1].formatters, m_pattern, handlers)'
          <=> Faithful(formatters, m_pattern, handlers)
    BY <2>1, <2>4 DEF Faithful
  <2>7. ownItems \in ItemLists /\ m_pattern = PatternOf(ownItems)
    BY DEF CompilerInv
  <2>8. QED BY <2>1, <2>2, <2>3, <2>4, <2>5, <2>6, <2>7 DEF CompilerInv, NoOrigin
<1>5. QED BY <1>1, <1>2, <1>3, <1>4 DEF Change

(* A line that is formatted changes nothing of the formatter.              *)
LEMMA SameCompiler ==
  ASSUME CompilerInv, UNCHANGED <<objectVars, formatters, loopVars, historyVars>>,
         pc' = pc \/ (pc # "compile" /\ pc' # "compile")
  PROVE  CompilerInv'
<1>1. /\ m_pattern' = m_pattern /\ handlers' = handlers /\ formatters' = formatters
      /\ pattern' = pattern /\ it' = it /\ chars' = chars
      /\ ownItems' = ownItems /\ meant' = meant /\ origin' = origin
      /\ current' = current
  BY DEF objectVars, loopVars, historyVars
<1>2. \A items \in ItemLists : Scanned(items)' <=> Scanned(items)
  BY <1>1 DEF Scanned, Scan
<1>3. CASE pc = "compile"
  <2>1. pc' = "compile"
    BY <1>3
  <2>2. QED BY <1>1, <1>2, <1>3, <2>1 DEF CompilerInv, NoOrigin, Faithful
<1>4. CASE pc # "compile"
  <2>1. pc' # "compile"
    BY <1>4
  <2>2. CompiledAsMeant'
    BY <1>1, <1>4 DEF CompilerInv, CompiledAsMeant, NoOrigin
  <2>3. QED BY <1>1, <1>4, <2>1, <2>2 DEF CompilerInv, NoOrigin, Faithful
<1>5. QED BY <1>3, <1>4

(* Every step keeps what is known of the formatter.                        *)
LEMMA CompilerNext ==
  ASSUME CompilerInv, [Next]_vars
  PROVE  CompilerInv'
<1>1. CASE Compiling
  BY <1>1, CompileStepKeeps DEF Compiling
<1>2. CASE Change
  BY <1>2, ChangeKeeps
<1>3. CASE LogCall \/ OtherMessage
  <2>1. pc = "idle" /\ pc' = "format"
        /\ UNCHANGED <<objectVars, formatters, loopVars, historyVars>>
    BY <1>3 DEF LogCall, OtherMessage, BeginFormat
  <2>2. QED BY <2>1, SameCompiler
<1>4. CASE FormatField
  <2>1. UNCHANGED <<objectVars, formatters, pc, loopVars, historyVars>>
    BY <1>4 DEF FormatField, compilerVars
  <2>2. QED BY <2>1, SameCompiler
<1>5. CASE WriteLine
  <2>1. pc = "format" /\ pc' = "written"
        /\ UNCHANGED <<objectVars, formatters, loopVars, historyVars>>
    BY <1>5 DEF WriteLine
  <2>2. QED BY <2>1, SameCompiler
<1>6. CASE Return
  <2>1. pc = "written" /\ pc' = "idle"
        /\ UNCHANGED <<objectVars, formatters, loopVars, historyVars>>
    BY <1>6 DEF Return
  <2>2. QED BY <2>1, SameCompiler
<1>7. CASE Over \/ UNCHANGED vars
  <2>1. UNCHANGED <<objectVars, formatters, pc, loopVars, historyVars>>
    BY <1>7 DEF Over, vars, compilerVars
  <2>2. QED BY <2>1, SameCompiler
<1>8. QED BY <1>1, <1>2, <1>3, <1>4, <1>5, <1>6, <1>7 DEF Next

(* The inductive invariant of the formatter.                               *)
LEMMA CompilerInvariant == Spec => []CompilerInv
<1>1. Init => CompilerInv
  BY CompilerInitInv DEF Init
<1>2. CompilerInv /\ [Next]_vars => CompilerInv'
  BY CompilerNext
<1>3. QED BY <1>1, <1>2, PTL DEF Spec

(* For every pattern that can be read in one way only, and all handlers:   *)
(* the formatters compilePattern makes are those the pattern means.        *)
THEOREM FormatterCompiledAsMeant == Spec => []CompiledAsMeant
<1>1. CompilerInv => CompiledAsMeant
  BY DEF CompilerInv, CompiledAsMeant
<1>2. QED BY <1>1, CompilerInvariant, PTL

(* A clone formats as its original does, as long as each of the two was    *)
(* last compiled from its own pattern and handlers.                        *)
THEOREM FormatterCloneIsAlike == Spec => []CloneIsAlike
<1>1. ASSUME CompilerInv PROVE CloneIsAlike
  <2>1. SUFFICES ASSUME pc # "compile", origin # NoOrigin, origin[1].current, current
                 PROVE  formatters = origin[1].formatters
    BY DEF CloneIsAlike
  <2>2. ownItems \in ItemLists /\ PatternOf(ownItems) = m_pattern
    BY <1>1 DEF CompilerInv
  <2>3. /\ Faithful(formatters, m_pattern, handlers)
        /\ Faithful(origin[1].formatters, m_pattern, handlers)
    BY <1>1, <2>1 DEF CompilerInv
  <2>4. QED BY <2>2, <2>3 DEF Faithful
<1>2. QED BY <1>1, CompilerInvariant, PTL

-----------------------------------------------------------------------------
(* Numbers as text.                                                        *)

(* Quotients and remainders of the numbers that are written as text.       *)
LEMMA Quotients ==
  ASSUME NEW n \in Nat
  PROVE  /\ n >= 10 => n \div 10 \in Nat /\ n \div 10 < n
         /\ n >= 10000 => n \div 10000 \in Nat /\ n \div 10000 < n
         /\ n \div 10 \in Nat /\ n \div 10000 \in Nat
         /\ n % 10 \in 0 .. 9 /\ n % 1000 \in 0 .. 999
         /\ ((n \div 10) \div 10) \div 10 \in Nat
         /\ (n \div 10) \div 10 = n \div 100
         /\ (((n \div 10) \div 10) \div 10) \div 10 = n \div 10000
         /\ n < 100 => n \div 10 < 10
         /\ n < 1000 => n \div 10 < 100
         /\ n < 10000 => n \div 10 < 1000
         /\ n >= 100 => n \div 10 >= 10
         /\ n >= 1000 => n \div 10 >= 100
  OBVIOUS

(* There is a character for every digit.                                   *)
LEMMA DigitOfType ==
  ASSUME NEW n \in 0 .. 9
  PROVE  DigitOf(n) \in DOMAIN Digit /\ DigitOf(n) \in Char
<1>1. \E c \in DOMAIN Digit : Digit[c] = n
  BY CompilerAssumption
<1>2. DigitOf(n) \in DOMAIN Digit
  BY <1>1 DEF DigitOf
<1>3. QED BY <1>2, CharacterAssumption

(* std::to_string, unfolded: the last digit behind those of the tenth      *)
(* part.                                                                   *)
LEMMA DecimalUnfolds ==
  /\ Decimal \in [Nat -> Seq(Char)]
  /\ \A n \in Nat :
       Decimal[n] = IF n < 10 THEN <<DigitOf(n)>>
                              ELSE Append(Decimal[n \div 10], DigitOf(n % 10))
<1> DEFINE V == Seq(Char)
           base == [n \in Nat |-> IF n < 10 THEN <<DigitOf(n)>> ELSE << >>]
           step == [x \in V \X Nat |-> Append(x[1], DigitOf(x[2] % 10))]
           Body(f) == f = [n \in Nat |->
                             IF n < 10 THEN <<DigitOf(n)>>
                             ELSE Append(f[n \div 10], DigitOf(n % 10))]
<1>1. base \in [Nat -> V]
  <2>1. \A n \in Nat : n < 10 => n \in 0 .. 9
    OBVIOUS
  <2>2. \A n \in Nat : n < 10 => DigitOf(n) \in Char
    BY <2>1, DigitOfType
  <2>3. \A n \in Nat : (IF n < 10 THEN <<DigitOf(n)>> ELSE << >>) \in Seq(Char)
    BY <2>2
  <2>4. QED BY <2>3
<1>2. step \in [V \X Nat -> V]
  <2>1. \A n \in Nat : DigitOf(n % 10) \in Char
    BY Quotients, DigitOfType
  <2>2. \A v \in V, n \in Nat : Append(v, DigitOf(n % 10)) \in V
    BY <2>1, AppendProperties
  <2>3. QED BY <2>2
<1>3. \A n \in Nat : n >= 10 => n \div 10 \in Nat /\ n \div 10 < n
  BY Quotients
<1>4. \A n \in Nat : /\ n < 10 => base[n] = <<DigitOf(n)>>
                     /\ \A v \in V :
                          step[<<v, n>>] = Append(v, DigitOf(n % 10))
  OBVIOUS
<1> HIDE DEF base, step
<1>5. PICK f : Descends(f, Nat, V, 10, base, step)
  <2> HIDE DEF V
  <2>1. 10 \in Nat
    OBVIOUS
  <2>2. QED BY <1>1, <1>2, <1>3, <2>1, DescentExists
<1>6. f \in [Nat -> V]
  BY <1>5 DEF Descends
<1>7. \A n \in Nat :
        f[n] = IF n < 10 THEN <<DigitOf(n)>>
                         ELSE Append(f[n \div 10], DigitOf(n % 10))
  <2>1. \A n \in Nat : f[n] = IF n < 10 THEN base[n] ELSE step[<<f[n \div 10], n>>]
    BY <1>5 DEF Descends
  <2>2. \A n \in Nat : f[n \div 10] \in V
    BY <1>6, Quotients
  <2>3. QED BY <1>4, <2>1, <2>2
<1>8. Body(f)
  BY <1>6, <1>7
<1>9. Decimal = CHOOSE g : Body(g)
  BY DEF Decimal
<1>10. Body(Decimal)
  <2> HIDE DEF Body
  <2>1. \E g : Body(g)
    BY <1>8
  <2>2. QED BY <1>9, <2>1
<1>11. \A n \in Nat :
         Decimal[n] = IF n < 10 THEN <<DigitOf(n)>>
                                ELSE Append(Decimal[n \div 10], DigitOf(n % 10))
  BY <1>10
<1>12. \A n \in Nat : Decimal[n] \in V
  <2> DEFINE S == {n \in Nat : Decimal[n] \in V}
  <2>1. ASSUME NEW n \in Nat, \A m \in Nat : m < n => m \in S
        PROVE  Decimal[n] \in V
    <3>1. CASE n < 10
      <4>1. Decimal[n] = base[n]
        <5>1. Decimal[n] = <<DigitOf(n)>>
          BY <1>11, <3>1, Zenon
        <5>2. base[n] = <<DigitOf(n)>>
          BY <1>4, <3>1, Zenon
        <5>3. QED BY <5>1, <5>2
      <4>2. QED BY <4>1, <1>1
    <3>2. CASE ~ (n < 10)
      <4>1. n \div 10 \in Nat /\ n \div 10 < n
        BY <3>2, <1>3
      <4>2. Decimal[n \div 10] \in V
        BY <4>1, <2>1
      <4>3. Decimal[n] = step[<<Decimal[n \div 10], n>>]
        BY <1>4, <1>11, <3>2, <4>2
      <4>4. QED BY <4>2, <4>3, <1>2
    <3>3. QED BY <3>1, <3>2
  <2>2. \A n \in Nat : (\A m \in Nat : m < n => m \in S) => n \in S
    BY <2>1
  <2>3. Nat \subseteq S
    <3> HIDE DEF S
    <3>1. QED BY <2>2, StrongInduction
  <2>4. QED BY <2>3
<1>13. Decimal \in [Nat -> V]
  <2>1. Decimal = [n \in Nat |-> Decimal[n]]
    BY <1>10
  <2>2. QED BY <2>1, <1>12
<1>14. QED BY <1>11, <1>13

(* The four returns in a round of countDigit.                              *)
LEMMA CountBelowValue ==
  ASSUME NEW t \in Nat
  PROVE  CountBelow(t) = IF t < 10 THEN 1
                         ELSE IF t < 100 THEN 2 ELSE IF t < 1000 THEN 3 ELSE 4
<1> DEFINE s == {p \in {10, 100, 1000} : t >= p}
<1>1. /\ IsFiniteSet({}) /\ Cardinality({}) = 0
      /\ IsFiniteSet({10}) /\ Cardinality({10}) = 1
  BY FS_EmptySet, FS_Singleton
<1>2. IsFiniteSet({10, 100}) /\ Cardinality({10, 100}) = 2
  <2>1. {10} \cup {100} = {10, 100} /\ 100 \notin {10}
    OBVIOUS
  <2>2. QED BY <1>1, <2>1, FS_AddElement
<1>3. Cardinality({10, 100, 1000}) = 3
  <2>1. {10, 100} \cup {1000} = {10, 100, 1000} /\ 1000 \notin {10, 100}
    OBVIOUS
  <2>2. QED BY <1>2, <2>1, FS_AddElement
<1>4. CASE t < 10
  <2>1. s = {}
    BY <1>4
  <2>2. QED BY <1>1, <1>4, <2>1 DEF CountBelow
<1>5. CASE t >= 10 /\ t < 100
  <2>1. s = {10}
    BY <1>5
  <2>2. QED BY <1>1, <1>5, <2>1 DEF CountBelow
<1>6. CASE t >= 100 /\ t < 1000
  <2>1. s = {10, 100}
    BY <1>6
  <2>2. QED BY <1>2, <1>6, <2>1 DEF CountBelow
<1>7. CASE t >= 1000
  <2>1. s = {10, 100, 1000}
    BY <1>7
  <2>2. QED BY <1>3, <1>7, <2>1 DEF CountBelow
<1>8. QED BY <1>4, <1>5, <1>6, <1>7

(* countDigit, unfolded: a round goes on with what is left of four digits. *)
LEMMA CountDigitUnfolds ==
  /\ CountDigit \in [Nat -> Nat]
  /\ \A t \in Nat :
       CountDigit[t] = IF t < 10000 THEN CountBelow(t)
                                    ELSE CountDigit[t \div 10000] + 4
<1> DEFINE base == [t \in Nat |-> CountBelow(t)]
           step == [x \in Nat \X Nat |-> x[1] + 4]
           Body(f) == f = [t \in Nat |->
                             IF t < 10000 THEN CountBelow(t)
                                          ELSE f[t \div 10000] + 4]
<1>1. base \in [Nat -> Nat]
  <2>1. \A t \in Nat : CountBelow(t) \in Nat
    BY CountBelowValue
  <2>2. QED BY <2>1
<1>2. step \in [Nat \X Nat -> Nat]
  OBVIOUS
<1>3. \A n \in Nat : n >= 10000 => n \div 10000 \in Nat /\ n \div 10000 < n
  BY Quotients
<1>4. \A n \in Nat : /\ base[n] = CountBelow(n)
                     /\ \A v \in Nat : step[<<v, n>>] = v + 4
  OBVIOUS
<1> HIDE DEF base, step
<1>5. PICK f : /\ f \in [Nat -> Nat]
               /\ \A n \in Nat : f[n] = IF n < 10000 THEN CountBelow(n)
                                         ELSE f[n \div 10000] + 4
  <2> DEFINE V == Nat
             d == 10000
  <2>1. d \in Nat /\ base \in [Nat -> V] /\ step \in [V \X Nat -> V]
    BY <1>1, <1>2
  <2>2. \A n \in Nat : /\ n >= d => n \div d \in Nat /\ n \div d < n
                       /\ n \div d \in Nat
    BY <1>3, Quotients
  <2> HIDE DEF d
  <2>3. \E f : Descends(f, Nat, V, d, base, step)
    <3> HIDE DEF V
    <3>1. QED BY <2>1, <2>2, DescentExists
  <2>4. PICK f : Descends(f, Nat, V, d, base, step)
    BY <2>3
  <2>5. /\ f \in [Nat -> Nat]
        /\ \A n \in Nat : f[n] = IF n < d THEN base[n]
                                  ELSE step[<<f[n \div d], n>>]
    BY <2>4 DEF Descends
  <2>6. \A n \in Nat : f[n \div d] \in Nat
    BY <2>2, <2>5
  <2>7. \A n \in Nat : step[<<f[n \div d], n>>] = f[n \div d] + 4
    BY <1>4, <2>6
  <2>8. \A n \in Nat : f[n] = IF n < d THEN CountBelow(n) ELSE f[n \div d] + 4
    BY <1>4, <2>5, <2>7
  <2>9. QED BY <2>5, <2>8 DEF d
<1>8. Body(f)
  BY <1>5
<1>9. CountDigit = CHOOSE g : Body(g)
  BY DEF CountDigit
<1>10. Body(CountDigit)
  <2> HIDE DEF Body
  <2>1. \E g : Body(g)
    BY <1>8
  <2>2. QED BY <1>9, <2>1
<1>11. \A t \in Nat :
         CountDigit[t] = IF t < 10000 THEN CountBelow(t)
                                      ELSE CountDigit[t \div 10000] + 4
  BY <1>10
<1>12. \A n \in Nat : CountDigit[n] \in Nat
  <2> DEFINE S == {n \in Nat : CountDigit[n] \in Nat}
  <2>1. ASSUME NEW n \in Nat, \A m \in Nat : m < n => m \in S
        PROVE  CountDigit[n] \in Nat
    <3>1. CASE n < 10000
      BY <1>11, <3>1, CountBelowValue
    <3>2. CASE ~ (n < 10000)
      <4>1. n \div 10000 \in Nat /\ n \div 10000 < n
        BY <3>2, <1>3
      <4>2. CountDigit[n \div 10000] \in Nat
        BY <4>1, <2>1
      <4>3. QED BY <1>11, <3>2, <4>2
    <3>3. QED BY <3>1, <3>2
  <2>2. \A n \in Nat : (\A m \in Nat : m < n => m \in S) => n \in S
    BY <2>1
  <2>3. Nat \subseteq S
    <3> HIDE DEF S
    <3>1. QED BY <2>2, StrongInduction
  <2>4. QED BY <2>3
<1>13. CountDigit \in [Nat -> Nat]
  <2>1. CountDigit = [n \in Nat |-> CountDigit[n]]
    BY <1>10
  <2>2. QED BY <2>1, <1>12
<1>14. QED BY <1>11, <1>13

(* The length of a number as text, digit by digit.                         *)
LEMMA DecimalLength ==
  ASSUME NEW n \in Nat
  PROVE  /\ Decimal[n] \in Seq(Char) /\ Len(Decimal[n]) \in Nat
         /\ Len(Decimal[n]) = IF n < 10 THEN 1 ELSE Len(Decimal[n \div 10]) + 1
<1>1. Decimal[n] \in Seq(Char) /\ Decimal[n \div 10] \in Seq(Char)
  BY DecimalUnfolds, Quotients
<1>2. CASE n < 10
  <2>1. Decimal[n] = <<DigitOf(n)>>
    BY <1>2, DecimalUnfolds
  <2>2. QED BY <1>1, <1>2, <2>1
<1>3. CASE ~ (n < 10)
  <2>1. Decimal[n] = Append(Decimal[n \div 10], DigitOf(n % 10))
    BY <1>3, DecimalUnfolds
  <2>2. DigitOf(n % 10) \in Char
    BY Quotients, DigitOfType
  <2>3. QED BY <1>1, <1>3, <2>1, <2>2, AppendProperties
<1>4. QED BY <1>2, <1>3

(* countDigit is exact: it is the length of what std::to_string makes, for *)
(* every number, so a number is padded by what it takes.                   *)
LEMMA CountDigitIsLength ==
  ASSUME NEW n \in Nat
  PROVE  CountDigit[n] = Len(Decimal[n])
<1> DEFINE S == {m \in Nat : CountDigit[m] = Len(Decimal[m])}
           L == [m \in Nat |-> Len(Decimal[m])]
<1>1. /\ L \in [Nat -> Nat]
      /\ \A m \in Nat : L[m] = Len(Decimal[m])
      /\ \A m \in Nat : L[m] = IF m < 10 THEN 1 ELSE L[m \div 10] + 1
  BY DecimalLength, Quotients
<1> HIDE DEF L
<1>2. ASSUME NEW m \in Nat, \A k \in Nat : k < m => k \in S
      PROVE  CountDigit[m] = L[m]
  <2> DEFINE a == m \div 10
             b == a \div 10
             c == b \div 10
             d == c \div 10
  <2>1. a \in Nat /\ b \in Nat /\ c \in Nat /\ d \in Nat
    BY Quotients
  <2>2. /\ L[m] = IF m < 10 THEN 1 ELSE L[a] + 1
        /\ L[a] = IF a < 10 THEN 1 ELSE L[b] + 1
        /\ L[b] = IF b < 10 THEN 1 ELSE L[c] + 1
        /\ L[c] = IF c < 10 THEN 1 ELSE L[d] + 1
    BY <1>1, <2>1
  <2>3. /\ m < 100 <=> a < 10
        /\ m < 1000 <=> b < 10
        /\ m < 10000 <=> c < 10
        /\ m < 100 => m < 1000
        /\ m < 10 => a < 10
        /\ a < 10 => b < 10
        /\ b < 10 => c < 10
    OBVIOUS
  <2>4. d = m \div 10000 /\ (m >= 10000 => d < m)
    BY Quotients
  <2>5. L[d] \in Nat
    BY <1>1, <2>1
  <2> HIDE DEF a, b, c, d
  <2>6. CASE m < 10000
    <3>1. CountDigit[m] = CountBelow(m)
      BY <2>6, CountDigitUnfolds
    <3>2. QED BY <2>2, <2>3, <2>6, <3>1, CountBelowValue
  <2>7. CASE ~ (m < 10000)
    <3>1. CountDigit[m] = CountDigit[d] + 4
      BY <2>7, <2>4, CountDigitUnfolds
    <3>2. CountDigit[d] = L[d]
      <4>1. d < m
        BY <2>4, <2>7
      <4>2. d \in S
        BY <2>1, <4>1, <1>2
      <4>3. QED BY <4>2, <2>1, <1>1
    <3>3. L[m] = L[d] + 1 + 1 + 1 + 1
      BY <2>2, <2>3, <2>7
    <3>4. QED BY <3>1, <3>2, <3>3, <2>5
  <2>8. QED BY <2>6, <2>7
<1>3. \A m \in Nat : (\A k \in Nat : k < m => k \in S) => m \in S
  BY <1>1, <1>2
<1>4. Nat \subseteq S
  <2> HIDE DEF S
  <2>1. QED BY <1>3, StrongInduction
<1>5. QED BY <1>4

(* A point and three digits are four characters, as %m declares.           *)
LEMMA MillisecondsType ==
  ASSUME NEW ms \in Nat
  PROVE  Milliseconds(ms) \in Seq(Char) /\ Len(Milliseconds(ms)) = 4
<1> DEFINE r == ms % 1000
           s == Decimal[r]
           l == Len(s)
           z == [i \in 1 .. 3 - l |-> DigitOf(0)]
<1>1. r \in Nat /\ r < 1000
  BY Quotients
<1>2. /\ s \in Seq(Char) /\ l \in Nat
      /\ l = IF r < 10 THEN 1 ELSE Len(Decimal[r \div 10]) + 1
      /\ Len(Decimal[r \div 10]) =
           IF r \div 10 < 10 THEN 1 ELSE Len(Decimal[(r \div 10) \div 10]) + 1
      /\ Len(Decimal[(r \div 10) \div 10]) =
           IF (r \div 10) \div 10 < 10 THEN 1
           ELSE Len(Decimal[((r \div 10) \div 10) \div 10]) + 1
  <2>1. r \div 10 \in Nat /\ (r \div 10) \div 10 \in Nat
    BY <1>1, Quotients
  <2> HIDE DEF r
  <2>2. QED BY <1>1, <2>1, DecimalLength
<1>3. (r \div 10) \div 10 < 10
  BY <1>1
<1>4. l \in 1 .. 3
  <2> HIDE DEF r, s
  <2>1. QED BY <1>2, <1>3
<1> HIDE DEF s, l
<1>5. z \in Seq(Char) /\ Len(z) = 3 - l
  <2>1. DigitOf(0) \in Char
    BY DigitOfType
  <2>2. 3 - l \in Nat
    BY <1>4
  <2>3. QED BY <2>1, <2>2
<1> HIDE DEF z
<1>6. <<".">> \in Seq(Char) /\ Len(<<".">>) = 1
  BY CharacterAssumption
<1>7. <<".">> \o z \in Seq(Char) /\ Len(<<".">> \o z) = 1 + Len(z)
  BY <1>5, <1>6, JoinedElements
<1>8. /\ (<<".">> \o z) \o s \in Seq(Char)
      /\ Len((<<".">> \o z) \o s) = Len(<<".">> \o z) + Len(s)
  BY <1>2, <1>7, JoinedElements
<1>9. Milliseconds(ms) = (<<".">> \o z) \o s
  BY DEF Milliseconds, z, l, s
<1>10. QED BY <1>4, <1>5, <1>7, <1>8, <1>9 DEF l

-----------------------------------------------------------------------------
(* The fields that formatters make.                                        *)

(* A field as formatters make it.                                          *)
Field == [flag : Char \cup {"text"}, text : Seq(Char), own : Seq(Char),
          declared : Nat, pad : Pad]

(* It is the message's own text; but for a time, its length is declared.   *)
Sound(f) == /\ f \in Field /\ f.text = f.own
            /\ f.flag # "d" => f.declared = Len(f.own)

(* A kept time has the text of its second, or there is none yet.           *)
Cached(c) == /\ c \in [last : Nat, text : Seq(Char)]
             /\ c.last # Epoch => /\ c.last \in DOMAIN TimeText
                                  /\ c.text = TimeText[c.last]

Times == cachedTime \in [Padders -> [last : Nat, text : Seq(Char)]]
         /\ \A p \in Padders : Cached(cachedTime[p])

(* What a message consists of.                                             *)
LEMMA MessageTexts ==
  ASSUME NEW m \in LoggedMessage
  PROVE  /\ m.name \in Seq(Char) /\ m.payload \in Seq(Char) /\ m.loc \in Seq(Char)
         /\ LevelText[m.level] \in Seq(Char) /\ m.thread \in Nat /\ m.ms \in Nat
         /\ m.sec \in DOMAIN TimeText /\ m.sec \in Nat \ {0}
         /\ TimeText[m.sec] \in Seq(Char)
<1>1. /\ m.level \in DOMAIN LevelText /\ m.sec \in DOMAIN TimeText
      /\ m.name \in Seq(Char) /\ m.payload \in Seq(Char) /\ m.loc \in Seq(Char)
      /\ m.thread \in Nat /\ m.ms \in Nat
  BY DEF LoggedMessage
<1>2. LevelText[m.level] \in Seq(Char) /\ TimeText[m.sec] \in Seq(Char)
  BY <1>1, CharacterAssumption
<1>3. m.sec \in Nat \ {0}
  BY <1>1, FormatterAssumption
<1>4. QED BY <1>1, <1>2, <1>3

(* What a message has for a flag is a text.                                *)
LEMMA OwnTextType ==
  ASSUME NEW flag \in Char, NEW m \in LoggedMessage, NEW e \in Nat
  PROVE  OwnText(flag, m, e) \in Seq(Char)
<1>1. << >> \in Seq(Char) /\ UnknownText \in Seq(Char)
  BY CharacterAssumption
<1>2. Decimal[e] \in Seq(Char)
  BY DecimalLength
<1>3. m.thread \in Nat /\ m.ms \in Nat
  BY MessageTexts
<1>4. Decimal[m.thread] \in Seq(Char)
  BY <1>3, DecimalLength
<1>5. Milliseconds(m.ms) \in Seq(Char)
  BY <1>3, MillisecondsType
<1>6. QED BY <1>1, <1>2, <1>4, <1>5, MessageTexts, Zenon DEF OwnText

(* Every flag but %d declares to the padder what it is going to print.     *)
LEMMA DeclaredLength ==
  ASSUME NEW flag \in Char, NEW m \in LoggedMessage, NEW e \in Nat
  PROVE  /\ Declared(flag, m, e) \in Nat
         /\ flag # "d" => Declared(flag, m, e) = Len(OwnText(flag, m, e))
<1> DEFINE o == OwnText(flag, m, e)
<1>1. o \in Seq(Char) /\ Len(o) \in Nat
  BY OwnTextType
<1>2. m.thread \in Nat /\ m.ms \in Nat
  BY MessageTexts
<1>3. CASE flag = "t"
  <2>1. o = Decimal[m.thread] /\ Declared(flag, m, e) = CountDigit[m.thread]
    BY <1>3 DEF OwnText, Declared
  <2>2. QED BY <1>1, <1>2, <2>1, CountDigitIsLength
<1>4. CASE flag = "e"
  <2>1. o = Decimal[e] /\ Declared(flag, m, e) = CountDigit[e]
    BY <1>4 DEF OwnText, Declared
  <2>2. QED BY <1>1, <2>1, CountDigitIsLength
<1>5. CASE flag = "m"
  <2>1. o = Milliseconds(m.ms) /\ Declared(flag, m, e) = 4
    BY <1>5 DEF OwnText, Declared
  <2>2. QED BY <1>2, <2>1, MillisecondsType
<1>6. CASE flag = "d"
  <2>1. Declared(flag, m, e) = TimeArray
    BY <1>6 DEF Declared
  <2>2. QED BY <1>6, <2>1, CharacterAssumption
<1>7. CASE flag \notin {"t", "e", "m", "d"}
  <2>1. Declared(flag, m, e) = Len(o)
    BY <1>7 DEF Declared
  <2>2. QED BY <1>1, <2>1
<1>8. QED BY <1>3, <1>4, <1>5, <1>6, <1>7

(* Whatever was formatted before, a time formatter that has looked at the  *)
(* clock of its message has the text of its message's second.              *)
LEMMA CacheIsCurrent ==
  ASSUME NEW fmt \in Formatter, Times, msg \in LoggedMessage
  PROVE  /\ CacheAfter(fmt) \in [Padders -> [last : Nat, text : Seq(Char)]]
         /\ \A p \in Padders : Cached(CacheAfter(fmt)[p])
         /\ IsTime(fmt) => CacheAfter(fmt)[PadderOf(fmt)].text = TimeText[msg.sec]
<1>1. /\ msg.sec \in DOMAIN TimeText /\ msg.sec \in Nat /\ msg.sec # Epoch
      /\ TimeText[msg.sec] \in Seq(Char)
  BY MessageTexts DEF Epoch
<1>2. PadderOf(fmt) \in Padders
  BY DEF PadderOf, Padders
<1>3. ASSUME NEW c, Cached(c)
      PROVE  Cached(Refreshed(c, msg.sec)) /\ Refreshed(c, msg.sec).text = TimeText[msg.sec]
  BY <1>1, <1>3 DEF Cached, Refreshed
<1>4. CASE IsTime(fmt)
  <2> DEFINE p == PadderOf(fmt)
             c == Refreshed(cachedTime[p], msg.sec)
  <2>1. Cached(c) /\ c.text = TimeText[msg.sec]
    BY <1>2, <1>3 DEF Times
  <2>2. CacheAfter(fmt) = [cachedTime EXCEPT ![p] = c]
    BY <1>4 DEF CacheAfter
  <2> HIDE DEF c, p
  <2>3. QED BY <1>2, <2>1, <2>2 DEF Times, Cached, p
<1>5. CASE ~IsTime(fmt)
  BY <1>5 DEF CacheAfter, Times
<1>6. QED BY <1>4, <1>5

(* A formatter makes a field of the message's own text.                    *)
LEMMA FieldIsSound ==
  ASSUME NEW fmt \in Formatter, msg \in LoggedMessage, NEW e \in Nat,
         NEW cache, IsTime(fmt) => cache[PadderOf(fmt)].text = TimeText[msg.sec]
  PROVE  Sound(FieldOf(fmt, cache, e))
<1> DEFINE f == FieldOf(fmt, cache, e)
<1>1. NoPad \in Pad
  BY DEF NoPad, Pad
<1>2. ASSUME NEW text \in Seq(Char), NEW pad \in Pad PROVE Sound(Fixed(text, pad))
  BY DEF Sound, Field, Fixed
<1>3. CASE fmt \in [text : Seq(Char)]
  <2>1. IsText(fmt) /\ fmt.text \in Seq(Char)
    BY <1>3 DEF IsText
  <2>2. QED BY <1>1, <1>2, <2>1 DEF FieldOf
<1>4. CASE fmt \in [flag : Char, custom : BOOLEAN, pad : Pad]
  <2>1. ~IsText(fmt) /\ fmt.flag \in Char /\ fmt.custom \in BOOLEAN /\ fmt.pad \in Pad
    BY <1>4 DEF IsText
  <2>2. CASE fmt.custom
    <3>1. CustomText \in Seq(Char)
      BY CharacterAssumption
    <3>2. QED BY <1>2, <2>1, <2>2, <3>1 DEF FieldOf
  <2>3. CASE ~fmt.custom
    <3> DEFINE own == OwnText(fmt.flag, msg, e)
               text == IF IsTime(fmt) THEN cache[PadderOf(fmt)].text ELSE own
               declared == Declared(fmt.flag, msg, e)
               pad == IF LeavesLine(fmt.flag, msg) THEN NoPad ELSE fmt.pad
    <3>1. f = [flag |-> fmt.flag, text |-> text, own |-> own,
               declared |-> declared, pad |-> pad]
      BY <2>1, <2>3 DEF FieldOf
    <3>2. text = own
      BY <2>1 DEF IsTime, OwnText
    <3>3. own \in Seq(Char) /\ declared \in Nat
          /\ (fmt.flag # "d" => declared = Len(own))
      BY <2>1, OwnTextType, DeclaredLength
    <3>4. pad \in Pad
      BY <1>1, <2>1
    <3> HIDE DEF f, text, own, declared, pad
    <3>5. Sound(f)
      BY <2>1, <3>1, <3>2, <3>3, <3>4 DEF Sound, Field
    <3>6. QED BY <3>5 DEF f
  <2>4. QED BY <2>1, <2>2, <2>3
<1>5. QED BY <1>3, <1>4 DEF Formatter

-----------------------------------------------------------------------------
(* One field of a line.                                                    *)

(* The field shows its own text, as ShowsOwnText says of a field of the    *)
(* line.                                                                   *)
Shows(f, width, shown) ==
  \E l, r \in 0 .. width : \E n \in 0 .. Len(f.own) :
    /\ l + n + r = width
    /\ shown = Spaces(l) \o SubSeq(f.own, 1, n) \o Spaces(r)
    /\ n < Len(f.own) => f.pad.truncate /\ l = 0 /\ r = 0
    /\ f.pad.side = "left" => r = 0
    /\ f.pad.side = "right" => l = 0
    /\ f.pad.side = "center" => r - l \in {0, 1}

(* A cut that is ignored, as CutIsIgnored says of a field of the line.     *)
CutIgnored(f, start) ==
  /\ f.pad.enabled /\ f.pad.truncate
  /\ Remaining(f) < 0
  /\ start + f.pad.width >= InlineCapacity

(* The width, as FieldWidths says of a field of the line.                  *)
AsWide(f, start, width) ==
  f.flag # "d" =>
    width = IF CutIgnored(f, start) THEN Len(f.own)
            ELSE Wanted(f) + IF OddCentre(f) THEN 2 ELSE 0

(* A field that begins behind start, is width long and looks like shown.   *)
Good(f, start, width, shown) ==
  /\ AsWide(f, start, width)
  /\ CutGrows(f) \/ Shows(f, width, shown)

(* Spaces are a text.                                                      *)
LEMMA SpacesFacts ==
  /\ Spaces(0) = << >>
  /\ \A n \in Nat : Spaces(n) \in Seq(Char) /\ Len(Spaces(n)) = n
<1>1. Space \in Char
  BY CharacterAssumption
<1>2. QED BY <1>1 DEF Spaces

(* Concatenation of three texts.                                           *)
LEMMA Grouped ==
  ASSUME NEW s \in Seq(Char), NEW t \in Seq(Char), NEW u \in Seq(Char)
  PROVE  (s \o t) \o u = s \o (t \o u)
BY ConcatAssociative

(* A beginning of the second of two texts.                                 *)
LEMMA BeginningBehind ==
  ASSUME NEW s \in Seq(Char), NEW t \in Seq(Char), NEW w \in 0 .. Len(t)
  PROVE  SubSeq(s \o t, Len(s) + 1, w + Len(s)) = SubSeq(t, 1, w)
<1> DEFINE u == s \o t
           n == Len(s)
           m == Len(t)
           p == SubSeq(u, n + 1, w + n)
           q == SubSeq(t, 1, w)
<1>1. /\ u \in Seq(Char) /\ Len(u) = n + m /\ n \in Nat /\ m \in Nat
      /\ \A i \in 1 .. n + m : u[i] = IF i <= n THEN s[i] ELSE t[i - n]
  BY JoinedElements
<1>2. q \in Seq(Char) /\ Len(q) = w /\ (\A i \in 1 .. w : q[i] = t[i]) /\ w <= m
  OBVIOUS
<1> HIDE DEF u, n, m, q
<1>3. /\ p \in Seq(Char) /\ Len(p) = w
      /\ \A i \in 1 .. w : p[i] = u[n + i]
  BY <1>1, <1>2
<1>4. \A i \in 1 .. w : p[i] = q[i]
  BY <1>1, <1>2, <1>3
<1> HIDE DEF p
<1>5. p = q
  BY <1>2, <1>3, <1>4, SameElements
<1>6. QED BY <1>5 DEF p, q, u, n

(* c is b with spaces, t and spaces behind it.                             *)
Surrounded(c, b, l, t, r) ==
  /\ Extends(c, b) /\ c.size - b.size = l + Len(t) + r
  /\ Added(c, b) = Spaces(l) \o t \o Spaces(r)

(* What the constructor of scopedPadder, the formatter and the destructor  *)
(* append: spaces, the text, spaces.                                       *)
LEMMA SurroundedText ==
  ASSUME NEW b, BufferOK(b), NEW l \in Nat, NEW r \in Nat, NEW t \in Seq(Char)
  PROVE  Surrounded(PadIt(BufAppend(PadIt(b, l), t), r), b, l, t, r)
<1> DEFINE c == PadIt(BufAppend(PadIt(b, l), t), r)
           x == Spaces(l)
           y == Spaces(r)
           b1 == BufAppend(b, x)
           b2 == BufAppend(b1, t)
           s == View(b)
           a == x \o t
           all == a \o y
<1>1. x \in Seq(Char) /\ y \in Seq(Char) /\ Len(x) = l /\ Len(y) = r
  BY SpacesFacts
<1> HIDE DEF x, y
<1>2. /\ BufferOK(b1) /\ View(b1) = s \o x
      /\ b1.size = b.size + Len(x) /\ Extends(b1, b)
  BY <1>1, AppendAdds, AppendEffect
<1> HIDE DEF b1
<1>3. /\ BufferOK(b2) /\ View(b2) = (s \o x) \o t
      /\ b2.size = b1.size + Len(t) /\ Extends(b2, b1)
  BY <1>2, AppendAdds, AppendEffect
<1> HIDE DEF b2
<1>4. c = BufAppend(b2, y)
  BY DEF PadIt, b1, b2, x, y
<1>5. /\ BufferOK(c) /\ View(c) = ((s \o x) \o t) \o y
      /\ c.size = b2.size + Len(y) /\ Extends(c, b2)
  BY <1>1, <1>3, <1>4, AppendAdds, AppendEffect
<1>6. Extends(c, b)
  BY <1>2, <1>3, <1>5, ExtendsTwice
<1> HIDE DEF c
<1>7. s \in Seq(Char) /\ Len(s) = b.size /\ b.size \in Nat
  BY ViewElements DEF BufferOK
<1>8. c.size - b.size = l + Len(t) + r
  <2> DEFINE n == Len(t)
             p == b.size
  <2>1. n \in Nat
    OBVIOUS
  <2>2. c.size = ((p + l) + n) + r /\ p \in Nat
    BY <1>1, <1>2, <1>3, <1>5, <1>7
  <2> HIDE DEF n, p
  <2>3. c.size - p = l + n + r
    BY <2>1, <2>2
  <2>4. QED BY <2>3 DEF n, p
<1> HIDE DEF s
<1>9. a \in Seq(Char) /\ all \in Seq(Char)
  BY <1>1
<1>10. ((s \o x) \o t) \o y = s \o all
  <2>1. (s \o x) \o t = s \o a
    <3>1. s \in Seq(Char) /\ x \in Seq(Char)
      BY <1>1, <1>7
    <3>2. (s \o x) \o t = s \o (x \o t)
      BY <3>1, Grouped
    <3>3. QED BY <3>2 DEF a
  <2> HIDE DEF a
  <2>2. (s \o a) \o y = s \o (a \o y)
    <3>1. s \in Seq(Char) /\ a \in Seq(Char) /\ y \in Seq(Char)
      BY <1>1, <1>7, <1>9
    <3>2. QED BY <3>1, Grouped
  <2>3. QED BY <2>1, <2>2 DEF a
<1> HIDE DEF a, all
<1>11. SubSeq(s \o all, Len(s) + 1, Len(s \o all)) = all
  BY <1>7, <1>9, Behind
<1>12. c.size = Len(View(c))
  BY <1>5, ViewElements
<1>13. Added(c, b) = all
  BY <1>5, <1>7, <1>10, <1>11, <1>12 DEF Added
<1>14. QED BY <1>6, <1>8, <1>13 DEF Surrounded, c, all, a, x, y

(* A whole text between spaces shows the message's own.                    *)
LEMMA SpacedOut ==
  ASSUME NEW f, Sound(f), NEW l \in Nat, NEW r \in Nat,
         f.pad.side = "left" => r = 0,
         f.pad.side = "right" => l = 0,
         f.pad.side = "center" => r - l \in {0, 1}
  PROVE  Shows(f, l + Len(f.own) + r, Spaces(l) \o f.own \o Spaces(r))
<1> DEFINE t == f.own
           n == Len(t)
<1>1. t \in Seq(Char)
  BY DEF Sound, Field
<1> HIDE DEF t
<1>2. SubSeq(t, 1, n) = t /\ n \in Nat
  BY <1>1
<1> HIDE DEF n
<1>3. /\ l \in 0 .. l + n + r /\ r \in 0 .. l + n + r /\ n \in 0 .. n /\ ~ (n < n)
      /\ l + n + r = l + n + r
  BY <1>2
<1>4. Shows(f, l + n + r, Spaces(l) \o t \o Spaces(r))
  BY <1>2, <1>3, Zenon DEF Shows, n, t
<1>5. QED BY <1>4 DEF n, t

(* A text without spaces shows the message's own.                          *)
LEMMA WholeText ==
  ASSUME NEW f, Sound(f)
  PROVE  Shows(f, Len(f.own), f.own)
<1> DEFINE t == f.own
           n == Len(t)
<1>1. t \in Seq(Char)
  BY DEF Sound, Field
<1>2. Shows(f, 0 + n + 0, Spaces(0) \o t \o Spaces(0))
  BY SpacedOut
<1> HIDE DEF t
<1>3. n \in Nat
  BY <1>1
<1>4. Spaces(0) \o t = t /\ t \o Spaces(0) = t
  BY <1>1, SpacesFacts, ConcatEmptySeq
<1> HIDE DEF n
<1>5. 0 + n + 0 = n
  BY <1>3
<1>6. Shows(f, n, t)
  BY <1>2, <1>4, <1>5
<1>7. QED BY <1>6 DEF n, t

(* A beginning of a text shows the message's own, where cutting is asked   *)
(* for.                                                                    *)
LEMMA CutText ==
  ASSUME NEW f, Sound(f), f.pad.truncate, NEW w \in 0 .. Len(f.own)
  PROVE  Shows(f, w, SubSeq(f.own, 1, w))
<1> DEFINE t == f.own
           n == Len(t)
           u == SubSeq(t, 1, w)
<1>1. t \in Seq(Char)
  BY DEF Sound, Field
<1> HIDE DEF t
<1>2. n \in Nat
  BY <1>1
<1>3. w \in Nat /\ w <= n
  BY <1>2 DEF n, t
<1>4. u \in Seq(Char)
  BY <1>1, <1>2, <1>3
<1> HIDE DEF u
<1>5. u = Spaces(0) \o u \o Spaces(0)
  <2>1. Spaces(0) \o u = u /\ u \o Spaces(0) = u
    BY <1>4, SpacesFacts, ConcatEmptySeq
  <2>2. QED BY <2>1
<1> HIDE DEF n
<1>6. 0 \in 0 .. w /\ w \in 0 .. n /\ 0 + w + 0 = w /\ 0 - 0 \in {0, 1}
  BY <1>2, <1>3
<1>7. Shows(f, w, u)
  BY <1>5, <1>6, Zenon DEF Shows, n, t, u
<1>8. QED BY <1>7 DEF u, t

(* A field behind any text, in the array or in the vector: the text stays, *)
(* and the field has the width and the characters it should have.          *)
LEMMA FormattedField ==
  ASSUME NEW b, BufferOK(b), NEW f, Sound(f), NEW c, c = Formatted(b, f)
  PROVE  /\ Extends(c, b)
         /\ Good(f, b.size, c.size - b.size, Added(c, b))
<1> DEFINE t == f.own
           o == Len(t)
           w == f.pad.width
           d == f.declared
           z == b.size
           rem == Remaining(f)
<1>1. /\ t \in Seq(Char) /\ f.text = t /\ w \in Nat /\ d \in Nat
      /\ f.pad.enabled \in BOOLEAN /\ f.pad.truncate \in BOOLEAN
      /\ f.pad.side \in {"left", "center", "right"} /\ z \in Nat
      /\ f.flag # "d" => d = o
      /\ rem = w - d
  BY DEF Sound, Field, Pad, Remaining, BufferOK
<1>2. o \in Nat
  BY <1>1
<1> HIDE DEF w, d, z, rem, o, t
<1>3. CASE ~f.pad.enabled
  <2>1. c = BufAppend(b, t)
    BY <1>1, <1>3 DEF Formatted
  <2>2. Extends(c, b) /\ c.size = z + o /\ Added(c, b) = t
    BY <1>1, <2>1, AppendAdds DEF o, z
  <2>3. c.size - z = o
    BY <1>1, <1>2, <2>2
  <2>4. AsWide(f, z, o)
    BY <1>3 DEF AsWide, CutIgnored, Wanted, OddCentre, o, t
  <2>5. Shows(f, o, t)
    BY WholeText DEF o, t
  <2>6. QED BY <2>2, <2>3, <2>4, <2>5 DEF Good, z
<1>4. CASE f.pad.enabled /\ rem >= 0
  <2> DEFINE l == PaddedBefore(f)
             r == LeftOver(f)
  <2>1. /\ l \in Nat /\ r \in Nat
        /\ f.pad.side = "left" => r = 0
        /\ f.pad.side = "right" => l = 0
        /\ f.pad.side = "center" => r - l \in {0, 1}
        /\ l + r = rem + IF OddCentre(f) THEN 2 ELSE 0
    <3>1. CASE rem = 0
      BY <1>1, <3>1 DEF PaddedBefore, LeftOver, OddCentre, rem
    <3>2. CASE rem > 0 /\ f.pad.side = "left"
      BY <1>1, <3>2 DEF PaddedBefore, LeftOver, OddCentre, rem
    <3>3. CASE rem > 0 /\ f.pad.side = "right"
      BY <1>1, <3>3 DEF PaddedBefore, LeftOver, OddCentre, rem
    <3>4. CASE rem > 0 /\ f.pad.side = "center"
      <4>1. /\ l = (rem + 1) \div 2 /\ r = l + (rem % 2)
            /\ OddCentre(f) <=> rem % 2 = 1
        BY <1>1, <1>4, <3>4 DEF PaddedBefore, LeftOver, OddCentre, rem
      <4> HIDE DEF l, r
      <4>2. /\ l \in Nat /\ r \in Nat /\ r - l \in {0, 1}
            /\ l + r = rem + IF rem % 2 = 1 THEN 2 ELSE 0
        BY <1>1, <3>4, <4>1
      <4>3. QED BY <3>4, <4>1, <4>2
    <3>5. QED BY <1>1, <1>4, <3>1, <3>2, <3>3, <3>4
  <2>2. c = PadIt(BufAppend(PadIt(b, l), t), r)
    BY <1>1, <1>4, <2>1 DEF Formatted, PadEnd
  <2> HIDE DEF l, r
  <2>3. /\ Extends(c, b) /\ c.size - z = l + o + r
        /\ Added(c, b) = Spaces(l) \o t \o Spaces(r)
    <3>1. Surrounded(c, b, l, t, r)
      <4>1. t \in Seq(Char)
        BY <1>1
      <4>2. l \in Nat /\ r \in Nat
        BY <2>1
      <4>3. QED BY <2>2, <4>1, <4>2, SurroundedText
    <3>2. QED BY <3>1 DEF Surrounded, z, o
  <2>4. Shows(f, l + o + r, Spaces(l) \o t \o Spaces(r))
    BY <2>1, SpacedOut DEF o, t
  <2>5. AsWide(f, z, l + o + r)
    <3>1. SUFFICES ASSUME f.flag # "d"
                   PROVE  l + o + r = Wanted(f) + IF OddCentre(f) THEN 2 ELSE 0
      BY <1>1, <1>2, <1>4 DEF AsWide, CutIgnored, rem
    <3>2. Wanted(f) = w
      BY <1>1, <1>2, <1>4, <3>1 DEF Wanted, o, t, w
    <3>3. QED BY <1>1, <1>2, <2>1, <3>1, <3>2
  <2>6. QED BY <2>3, <2>4, <2>5 DEF Good, z
<1>5. ASSUME f.pad.enabled, rem < 0
      PROVE  /\ PaddedBefore(f) = 0 /\ PadIt(b, 0) = b /\ ~ (LeftOver(f) >= 0)
             /\ ~OddCentre(f)
  BY <1>1, <1>5, SpacesFacts
  DEF PaddedBefore, LeftOver, PadIt, BufAppend, OddCentre, rem
<1>6. CASE f.pad.enabled /\ rem < 0 /\ ~f.pad.truncate
  <2>1. c = BufAppend(b, t)
    BY <1>1, <1>5, <1>6 DEF Formatted, PadEnd
  <2>2. Extends(c, b) /\ c.size = z + o /\ Added(c, b) = t
    BY <1>1, <2>1, AppendAdds DEF o, z
  <2>3. c.size - z = o
    BY <1>1, <1>2, <2>2
  <2>4. AsWide(f, z, o)
    <3>1. ~CutIgnored(f, z)
      BY <1>6 DEF CutIgnored
    <3>2. f.flag # "d" => Wanted(f) = o
      BY <1>1, <1>2, <1>6 DEF Wanted, o, t, w
    <3>3. QED BY <1>2, <1>5, <1>6, <3>1, <3>2 DEF AsWide
  <2>5. Shows(f, o, t)
    BY WholeText DEF o, t
  <2>6. QED BY <2>2, <2>3, <2>4, <2>5 DEF Good, z
<1>7. CASE f.pad.enabled /\ rem < 0 /\ f.pad.truncate
  <2> DEFINE a == BufAppend(b, t)
             k == w + z
  <2>1. c = BufErase(a, k)
    BY <1>1, <1>5, <1>7 DEF Formatted, PadEnd, Kept, w, z
  <2>2. /\ Extends(a, b) /\ a.size = z + o /\ Added(a, b) = t
        /\ View(a) = View(b) \o t
    BY <1>1, AppendAdds DEF o, z
  <2> HIDE DEF a
  <2>3. k \in Nat /\ z <= k
    BY <1>1
  <2>4. /\ Extends(c, b)
        /\ c.size = IF k < InlineCapacity THEN k ELSE a.size
        /\ k >= InlineCapacity => c = a
        /\ k <= a.size /\ k < InlineCapacity =>
             Added(c, b) = SubSeq(View(a), z + 1, k)
    <3> HIDE DEF k
    <3>1. b.size <= k /\ k \in Nat
      BY <2>3 DEF z
    <3>2. Extends(a, b)
      BY <2>2
    <3>3. /\ Extends(BufErase(a, k), b)
          /\ BufErase(a, k).size = IF k < InlineCapacity THEN k ELSE a.size
          /\ k >= InlineCapacity => BufErase(a, k) = a
          /\ k <= a.size /\ k < InlineCapacity =>
               Added(BufErase(a, k), b) = SubSeq(View(a), b.size + 1, k)
      BY <3>1, <3>2, EraseAfter
    <3>4. QED BY <2>1, <3>3, Zenon DEF z
  <2>5. CutIgnored(f, z) <=> k >= InlineCapacity
    BY <1>1, <1>7, InlineBufferAssumption DEF CutIgnored, rem, w
  <2>6. CASE k >= InlineCapacity
    <3>1. c.size - z = o /\ Added(c, b) = t
      BY <1>1, <1>2, <2>2, <2>4, <2>6
    <3>2. AsWide(f, z, o)
      BY <2>5, <2>6 DEF AsWide, o, t
    <3>3. Shows(f, o, t)
      BY WholeText DEF o, t
    <3>4. QED BY <2>4, <3>1, <3>2, <3>3 DEF Good, z
  <2>7. CASE k < InlineCapacity /\ o < w
    <3>1. c.size - z = w
      BY <1>1, <2>3, <2>4, <2>7
    <3>2. f.flag = "d"
      BY <1>1, <1>2, <1>7, <2>7
    <3>3. AsWide(f, z, w)
      BY <3>2 DEF AsWide
    <3>4. CutGrows(f)
      BY <1>1, <1>2, <1>7, <2>7 DEF CutGrows, o, t, w, d
    <3>5. QED BY <2>4, <3>1, <3>3, <3>4 DEF Good, z
  <2>8. CASE k < InlineCapacity /\ w <= o
    <3>1. c.size - z = w
      BY <1>1, <2>3, <2>4, <2>8
    <3>2. AsWide(f, z, w)
      <4>1. Wanted(f) = w
        BY <1>7 DEF Wanted, w
      <4>2. ~CutIgnored(f, z)
        BY <2>3, <2>5, <2>8, InlineBufferAssumption
      <4>3. QED BY <1>1, <1>5, <1>7, <4>1, <4>2 DEF AsWide
    <3>3. Added(c, b) = SubSeq(t, 1, w)
      <4> DEFINE s == View(b)
      <4>1. s \in Seq(Char) /\ Len(s) = z
        BY ViewElements DEF z
      <4>2. k <= a.size
        BY <1>1, <1>2, <2>2, <2>8
      <4>3. Added(c, b) = SubSeq(s \o t, z + 1, w + z)
        BY <2>2, <2>4, <2>8, <4>2
      <4> HIDE DEF s
      <4>4. w \in 0 .. Len(t)
        BY <1>1, <1>2, <2>8 DEF o
      <4>5. SubSeq(s \o t, Len(s) + 1, w + Len(s)) = SubSeq(t, 1, w)
        BY <1>1, <4>1, <4>4, BeginningBehind
      <4>6. QED BY <4>1, <4>3, <4>5
    <3>4. Shows(f, w, SubSeq(t, 1, w))
      <4>1. w \in 0 .. o
        BY <1>1, <1>2, <2>8
      <4>2. QED BY <1>7, <4>1, CutText DEF o, t
    <3>5. QED BY <2>4, <3>1, <3>2, <3>3, <3>4 DEF Good, z
  <2>9. k >= InlineCapacity \/ k < InlineCapacity
    BY <2>3, InlineBufferAssumption
  <2>10. QED BY <1>1, <1>2, <2>6, <2>7, <2>8, <2>9
<1>8. rem \in Int
  BY <1>1
<1>9. QED BY <1>1, <1>3, <1>4, <1>6, <1>7, <1>8

-----------------------------------------------------------------------------
(* The line.                                                               *)

(* The line: a color, then fields that are as they should be, each where   *)
(* ends says.                                                              *)
LineInv ==
  /\ BufferOK(buf)
  /\ fields \in Seq(Field) /\ ends \in Seq(Nat) /\ Len(ends) = Len(fields) + 1
  /\ \A i \in 1 .. Len(fields) + 1 : ends[i] <= buf.size
  /\ SubSeq(View(buf), 1, ends[1]) = color
  /\ \A i \in 1 .. Len(fields) :
       Good(fields[i], ends[i], ends[i + 1] - ends[i], Shown(i))

(* The line, the times that are kept, and the message that is formatted:   *)
(* its line ends where the last field does.                                *)
FormatInv ==
  /\ pc \in {"compile", "idle", "format", "written"}
  /\ LineInv /\ Times
  /\ pc = "format" => /\ msg \in LoggedMessage
                      /\ ends[Len(fields) + 1] = buf.size

(* A line begins with a color, or with nothing.                            *)
LEMMA EmptyLine ==
  ASSUME NEW c \in Seq(Char), buf' = BufAppend(EmptyBuffer, c), color' = c,
         fields' = << >>, ends' = <<Len(c)>>
  PROVE  LineInv' /\ ends'[Len(fields') + 1] = buf'.size
<1> DEFINE b == BufAppend(EmptyBuffer, c)
           n == Len(c)
<1>1. BufferOK(EmptyBuffer) /\ View(EmptyBuffer) = << >>
  BY EmptyEffect
<1>2. BufferOK(b) /\ View(b) = c
  <2>1. << >> \o c = c
    OBVIOUS
  <2>2. BufferOK(b) /\ View(b) = View(EmptyBuffer) \o c
    BY <1>1, AppendEffect
  <2>3. QED BY <1>1, <2>1, <2>2
<1> HIDE DEF b
<1>3. b.size = n /\ n \in Nat
  BY <1>2, ViewElements
<1>4. SubSeq(c, 1, n) = c
  OBVIOUS
<1> HIDE DEF n
<1>5. /\ fields' \in Seq(Field) /\ ends' \in Seq(Nat)
      /\ Len(fields') = 0 /\ Len(ends') = 1 /\ ends'[1] = n
  BY <1>3 DEF n
<1>6. BufferOK(b)' /\ buf' = b /\ View(buf') = c
  BY <1>2 DEF b
<1>7. BufferOK(buf)' /\ SubSeq(View(buf), 1, ends[1])' = color'
  BY <1>2, <1>4, <1>5, <1>6
<1>8. ends'[Len(fields') + 1] = buf'.size
  BY <1>3, <1>5, <1>6
<1>9. \A i \in 1 .. Len(fields') + 1 : ends'[i] <= buf'.size
  BY <1>3, <1>5, <1>6
<1>10. \A i \in 1 .. Len(fields') : FALSE
  BY <1>5
<1>11. QED BY <1>5, <1>7, <1>8, <1>9, <1>10 DEF LineInv

(* What is appended behind the fields changes none of them.                *)
LEMMA LineKept ==
  ASSUME LineInv, Extends(buf', buf), UNCHANGED <<color, fields, ends>>
  PROVE  LineInv'
<1> DEFINE n == Len(fields)
<1>1. /\ fields \in Seq(Field) /\ ends \in Seq(Nat) /\ n \in Nat
      /\ Len(ends) = n + 1
      /\ \A i \in 1 .. n + 1 : ends[i] <= buf.size /\ ends[i] \in Nat
      /\ buf.size \in Nat /\ buf'.size \in Nat /\ buf.size <= buf'.size
  <2>1. /\ fields \in Seq(Field) /\ ends \in Seq(Nat) /\ Len(ends) = n + 1
        /\ \A i \in 1 .. n + 1 : ends[i] <= buf.size
    BY DEF LineInv
  <2>2. BufferOK(buf) /\ BufferOK(buf') /\ buf.size <= buf'.size
    BY DEF Extends
  <2>3. buf.size \in Nat /\ buf'.size \in Nat
    BY <2>2 DEF BufferOK
  <2>4. n \in Nat
    BY <2>1
  <2> HIDE DEF n
  <2>5. \A i \in 1 .. n + 1 : ends[i] \in Nat
    BY <2>1, <2>4
  <2>6. QED BY <2>1, <2>2, <2>3, <2>4, <2>5
<1>2. fields' = fields /\ ends' = ends /\ color' = color
  OBVIOUS
<1>3. \A i \in 1 .. n : 1 <= i /\ i \in 1 .. n + 1 /\ i + 1 \in 1 .. n + 1
  BY <1>1
<1>4. 1 \in 1 .. n + 1
  BY <1>1
<1>5. SubSeq(View(buf'), 1, ends[1]) = SubSeq(View(buf), 1, ends[1])
  <2>1. 1 \in Nat /\ 1 >= 1 /\ ends[1] \in Nat /\ ends[1] <= buf.size
    BY <1>1, <1>4
  <2>2. QED BY <2>1, SameParts
<1>6. ASSUME NEW i \in 1 .. n PROVE Shown(i)' = Shown(i)
  <2>1. /\ ends[i] + 1 \in Nat /\ ends[i] + 1 >= 1 /\ ends[i + 1] \in Nat
        /\ ends[i + 1] <= buf.size
    <3>1. /\ ends[i] \in Nat /\ ends[i + 1] \in Nat
          /\ ends[i + 1] <= buf.size
      BY <1>1, <1>3
    <3> DEFINE e == ends[i]
    <3>2. e \in Nat
      BY <3>1
    <3> HIDE DEF e
    <3>3. e + 1 \in Nat /\ e + 1 >= 1
      BY <3>2
    <3>4. QED BY <3>1, <3>3 DEF e
  <2>2. SubSeq(View(buf'), ends[i] + 1, ends[i + 1])
          = SubSeq(View(buf), ends[i] + 1, ends[i + 1])
    BY <2>1, SameParts
  <2>3. QED BY <1>2, <2>2 DEF Shown
<1>7. \A i \in 1 .. n :
        Good(fields[i], ends[i], ends[i + 1] - ends[i], Shown(i))'
  <2> TAKE i \in 1 .. n
  <2>1. Good(fields[i], ends[i], ends[i + 1] - ends[i], Shown(i))
    BY DEF LineInv
  <2>2. QED BY <1>2, <1>6, <2>1
<1>8. \A i \in 1 .. n + 1 : ends[i] <= buf'.size
  BY <1>1
<1>9. BufferOK(buf)'
  BY DEF Extends
<1>10. SubSeq(View(buf), 1, ends[1])' = color'
  BY <1>2, <1>5 DEF LineInv
<1>11. QED BY <1>1, <1>2, <1>7, <1>8, <1>9, <1>10 DEF LineInv

(* One more field: it is as it should be, and changes none before it.      *)
LEMMA LineGrows ==
  ASSUME LineInv, ends[Len(fields) + 1] = buf.size, NEW f, Sound(f), AppendField(f)
  PROVE  LineInv' /\ ends'[Len(fields') + 1] = buf'.size
<1> DEFINE n == Len(fields)
           c == Formatted(buf, f)
<1>1. /\ fields \in Seq(Field) /\ ends \in Seq(Nat) /\ n \in Nat
      /\ Len(ends) = n + 1 /\ BufferOK(buf) /\ f \in Field
      /\ \A i \in 1 .. n + 1 : ends[i] <= buf.size /\ ends[i] \in Nat
      /\ buf.size \in Nat /\ ends[n + 1] = buf.size
  BY DEF LineInv, BufferOK, Sound
<1>2. /\ buf' = c /\ fields' = Append(fields, f) /\ ends' = Append(ends, buf'.size)
      /\ color' = color
  BY DEF AppendField
<1>3. /\ Extends(c, buf)
      /\ Good(f, buf.size, c.size - buf.size, Added(c, buf))
  BY <1>1, FormattedField
<1> HIDE DEF c, n
<1>4. c.size \in Nat /\ buf.size <= c.size /\ BufferOK(buf') /\ buf'.size = c.size
  BY <1>2, <1>3 DEF Extends, BufferOK
<1>5. /\ fields' \in Seq(Field) /\ Len(fields') = n + 1 /\ fields'[n + 1] = f
      /\ \A i \in 1 .. n : fields'[i] = fields[i]
  BY <1>1, <1>2, AppendProperties DEF n
<1>6. /\ ends' \in Seq(Nat) /\ Len(ends') = n + 2 /\ ends'[n + 2] = c.size
      /\ \A i \in 1 .. n + 1 : ends'[i] = ends[i]
  <2>1. /\ ends' \in Seq(Nat) /\ Len(ends') = Len(ends) + 1
        /\ ends'[Len(ends) + 1] = c.size
        /\ \A i \in 1 .. Len(ends) : ends'[i] = ends[i]
    BY <1>1, <1>2, <1>4, AppendProperties
  <2>2. n + 1 + 1 = n + 2
    BY <1>1
  <2>3. QED BY <1>1, <2>1, <2>2
<1>7. \A i \in 1 .. n : /\ i \in 1 .. n + 1 /\ i + 1 \in 1 .. n + 1
                        /\ i >= 1
  BY <1>1
<1>8. 1 \in 1 .. n + 1 /\ n + 1 \in 1 .. n + 1
  BY <1>1
<1>9. SubSeq(View(buf), 1, ends[1])' = color'
  <2>1. SubSeq(View(c), 1, ends[1]) = SubSeq(View(buf), 1, ends[1])
    <3>1. 1 \in Nat /\ 1 >= 1 /\ ends[1] \in Nat /\ ends[1] <= buf.size
      BY <1>1, <1>8
    <3>2. QED BY <1>3, <3>1, SameParts
  <2>2. ends'[1] = ends[1]
    BY <1>6, <1>8
  <2>3. QED BY <1>2, <2>1, <2>2 DEF LineInv
<1>10. ASSUME NEW i \in 1 .. n
       PROVE  Good(fields[i], ends[i], ends[i + 1] - ends[i], Shown(i))'
  <2>1. fields'[i] = fields[i] /\ ends'[i] = ends[i] /\ ends'[i + 1] = ends[i + 1]
    BY <1>5, <1>6, <1>7
  <2>2. /\ ends[i] + 1 \in Nat /\ ends[i] + 1 >= 1 /\ ends[i + 1] \in Nat
        /\ ends[i + 1] <= buf.size
    BY <1>1, <1>7
  <2>3. SubSeq(View(c), ends[i] + 1, ends[i + 1])
          = SubSeq(View(buf), ends[i] + 1, ends[i + 1])
    BY <1>3, <2>2, SameParts
  <2>4. Shown(i)' = Shown(i)
    BY <1>2, <2>1, <2>3 DEF Shown
  <2>5. Good(fields[i], ends[i], ends[i + 1] - ends[i], Shown(i))
    BY DEF LineInv, n
  <2>6. QED BY <2>1, <2>4, <2>5
<1>11. ASSUME NEW i \in Nat, i = n + 1
       PROVE  Good(fields[i], ends[i], ends[i + 1] - ends[i], Shown(i))'
  <2>1. i + 1 = n + 2
    BY <1>1, <1>11
  <2>2. fields'[i] = f /\ ends'[i] = buf.size /\ ends'[i + 1] = c.size
    BY <1>1, <1>5, <1>6, <1>8, <1>11, <2>1
  <2>3. Shown(i)' = Added(c, buf)
    BY <1>2, <2>2 DEF Shown, Added
  <2>4. QED BY <1>3, <2>2, <2>3
<1>12. \A i \in 1 .. n + 2 : ends'[i] <= buf'.size
  <2>1. \A i \in 1 .. n + 2 : i \in 1 .. n + 1 \/ i = n + 2
    BY <1>1
  <2>2. \A i \in 1 .. n + 1 : ends'[i] <= c.size
    BY <1>1, <1>4, <1>6
  <2>3. QED BY <1>4, <1>6, <2>1, <2>2
<1>13. \A i \in 1 .. Len(fields') :
         Good(fields[i], ends[i], ends[i + 1] - ends[i], Shown(i))'
  <2>1. ASSUME NEW i \in 1 .. Len(fields') PROVE i \in 1 .. n \/ (i \in Nat /\ i = n + 1)
    BY <1>1, <1>5
  <2>2. QED BY <1>10, <1>11, <2>1
<1>14. Len(fields') + 1 = n + 2
  BY <1>1, <1>5
<1>15. QED BY <1>4, <1>5, <1>6, <1>9, <1>12, <1>13, <1>14 DEF LineInv

(* A message of Logger::log is a message.                                  *)
LEMMA LoggerMessageType ==
  ASSUME NEW call \in Calls, NEW stamp \in Stamps
  PROVE  LoggerMessage(call, stamp) \in LoggedMessage
<1>1. View(WrittenThrough(EmptyBuffer, call.said)) = << >>
  BY DEF View, WrittenThrough, EmptyBuffer
<1>2. << >> \in Seq(Char) /\ LoggerName \in Seq(Char)
  BY CharacterAssumption
<1>3. /\ call.level \in DOMAIN LevelText /\ call.loc \in Seq(Char)
      /\ stamp.sec \in DOMAIN TimeText /\ stamp.ms \in Nat /\ stamp.thread \in Nat
  BY CharacterAssumption
<1>4. QED BY <1>1, <1>2, <1>3 DEF LoggerMessage, LoggedMessage

(* At first there is no line, and no time has been kept.                   *)
LEMMA FormatInit ==
  ASSUME Init
  PROVE  FormatInv
<1>1. /\ buf = EmptyBuffer /\ color = << >> /\ fields = << >> /\ ends = <<0>>
      /\ pc = "compile"
      /\ cachedTime = [p \in Padders |-> [last |-> Epoch, text |-> << >>]]
  BY DEF Init, LineInit, CompilerInit
<1>2. BufferOK(buf) /\ View(buf) = << >> /\ buf.size = 0
  BY <1>1, EmptyEffect DEF EmptyBuffer
<1>3. /\ fields \in Seq(Field) /\ ends \in Seq(Nat) /\ Len(fields) = 0
      /\ Len(ends) = 1 /\ ends[1] = 0
  BY <1>1
<1>4. SubSeq(View(buf), 1, ends[1]) = color
  BY <1>1, <1>2, <1>3
<1>5. LineInv
  BY <1>2, <1>3, <1>4 DEF LineInv
<1>6. Times
  BY <1>1 DEF Times, Cached, Epoch
<1>7. QED BY <1>1, <1>5, <1>6 DEF FormatInv

(* A step that leaves the line alone.                                      *)
LEMMA SameLine ==
  ASSUME FormatInv, UNCHANGED <<lineVars, msg, cachedTime>>,
         pc' \in {"compile", "idle", "written"} \/ pc' = pc
  PROVE  FormatInv'
<1>1. /\ buf' = buf /\ color' = color /\ fields' = fields /\ ends' = ends
      /\ msg' = msg /\ cachedTime' = cachedTime
  BY DEF lineVars
<1>2. LineInv'
  BY <1>1 DEF FormatInv, LineInv, Shown
<1>3. Times'
  BY <1>1 DEF FormatInv, Times
<1>4. QED BY <1>1, <1>2, <1>3 DEF FormatInv

(* A message is taken up: log or a message by others.                      *)
LEMMA LineBegins ==
  ASSUME FormatInv, NEW m \in LoggedMessage, NEW words, BeginFormat(m, words)
  PROVE  FormatInv'
<1>1. PICK c \in Colors : BeginLine(c)
  BY DEF BeginFormat
<1>2. c \in Seq(Char)
  BY CharacterAssumption
<1>3. LineInv' /\ ends'[Len(fields') + 1] = buf'.size
  BY <1>1, <1>2, EmptyLine DEF BeginLine
<1>4. msg' = m /\ pc' = "format" /\ cachedTime' = cachedTime
  BY DEF BeginFormat
<1>5. Times'
  BY <1>4 DEF FormatInv, Times
<1>6. QED BY <1>3, <1>4, <1>5 DEF FormatInv

(* A round of the loop in format.                                          *)
LEMMA FieldAdded ==
  ASSUME CompilerInv, FormatInv, FormatField
  PROVE  FormatInv'
<1> DEFINE fmt == formatters[Len(fields) + 1]
<1>1. /\ pc = "format" /\ Len(fields) < Len(formatters)
      /\ cachedTime' = CacheAfter(fmt)
      /\ UNCHANGED <<compilerVars, messageVars, ops>>
  BY DEF FormatField
<1>2. PICK e \in Elapsed : AppendField(FieldOf(fmt, cachedTime', e))
  BY DEF FormatField
<1>3. formatters \in Seq(Formatter) /\ fields \in Seq(Field)
  BY <1>1 DEF CompilerInv, FormatInv, LineInv
<1>4. Len(fields) + 1 \in 1 .. Len(formatters)
  <2> DEFINE n == Len(fields)
             k == Len(formatters)
  <2>1. n \in Nat /\ k \in Nat /\ n < k
    BY <1>1, <1>3
  <2> HIDE DEF n, k
  <2>2. n + 1 \in 1 .. k
    BY <2>1
  <2>3. QED BY <2>2 DEF n, k
<1>5. fmt \in Formatter
  BY <1>3, <1>4
<1>6. Times /\ msg \in LoggedMessage /\ LineInv /\ ends[Len(fields) + 1] = buf.size
  BY <1>1 DEF FormatInv
<1>7. e \in Nat
  BY CharacterAssumption
<1> HIDE DEF fmt
<1>8. /\ cachedTime' \in [Padders -> [last : Nat, text : Seq(Char)]]
      /\ \A p \in Padders : Cached(cachedTime'[p])
      /\ IsTime(fmt) => cachedTime'[PadderOf(fmt)].text = TimeText[msg.sec]
  BY <1>1, <1>5, <1>6, CacheIsCurrent
<1>9. Times'
  BY <1>8 DEF Times
<1>10. Sound(FieldOf(fmt, cachedTime', e))
  BY <1>5, <1>6, <1>7, <1>8, FieldIsSound
<1>11. LineInv' /\ ends'[Len(fields') + 1] = buf'.size
  BY <1>2, <1>6, <1>10, LineGrows
<1>12. pc' = pc /\ msg' = msg
  BY <1>1 DEF compilerVars, messageVars
<1>13. QED BY <1>1, <1>6, <1>9, <1>11, <1>12 DEF FormatInv

(* The line goes to the file, its color turned off.                        *)
LEMMA LineWritten ==
  ASSUME FormatInv, WriteLine
  PROVE  FormatInv'
<1>1. ResetColor /\ pc' = "written" /\ cachedTime' = cachedTime
  BY DEF WriteLine
<1>2. LineInv /\ BufferOK(buf) /\ buf.size \in Nat
  BY DEF FormatInv, LineInv, BufferOK
<1>3. Extends(buf', buf)
  <2>1. CASE color = << >>
    BY <1>1, <1>2, <2>1 DEF ResetColor, Extends
  <2>2. CASE color # << >>
    <3>1. Reset \in Seq(Char)
      BY CharacterAssumption
    <3>2. buf' = BufAppend(buf, Reset)
      BY <1>1, <2>2 DEF ResetColor
    <3>3. QED BY <1>2, <3>1, <3>2, AppendAdds
  <2>3. QED BY <2>1, <2>2
<1>4. UNCHANGED <<color, fields, ends>>
  BY <1>1 DEF ResetColor
<1>5. LineInv'
  BY <1>2, <1>3, <1>4, LineKept
<1>6. Times'
  BY <1>1 DEF FormatInv, Times
<1>7. QED BY <1>1, <1>5, <1>6 DEF FormatInv

(* The buffer of sinkIt is gone.                                           *)
LEMMA LineEnds ==
  ASSUME FormatInv, Return
  PROVE  FormatInv'
<1>1. /\ buf' = EmptyBuffer /\ color' = << >> /\ fields' = << >> /\ ends' = <<0>>
      /\ pc' = "idle" /\ cachedTime' = cachedTime
  BY DEF Return, EndLine
<1>2. BufAppend(EmptyBuffer, << >>) = EmptyBuffer /\ Len(<< >>) = 0
      /\ << >> \in Seq(Char)
  BY DEF BufAppend
<1>3. LineInv'
  BY <1>1, <1>2, EmptyLine
<1>4. Times'
  BY <1>1 DEF FormatInv, Times
<1>5. QED BY <1>1, <1>3, <1>4 DEF FormatInv

(* Every step keeps what is known of the line.                             *)
LEMMA FormatNext ==
  ASSUME CompilerInv, FormatInv, [Next]_vars
  PROVE  FormatInv'
<1>1. CASE Compiling
  <2>1. UNCHANGED <<lineVars, msg, cachedTime>> /\ pc' \in {"compile", "idle"}
    BY <1>1 DEF Compiling, CompileStep, CompileChar, CompileFlag, CompileEnd,
                InLoop, messageVars
  <2>2. QED BY <2>1, SameLine
<1>2. CASE Change
  <2>1. UNCHANGED <<lineVars, msg, cachedTime>>
    BY <1>2 DEF Change, messageVars
  <2>2. pc' \in {"compile", "idle"}
    BY <1>2 DEF Change, Clone, AddFlag, SetPattern, NewFormatter, BeginCompile
  <2>3. QED BY <2>1, <2>2, SameLine
<1>3. CASE LogCall
  <2>1. PICK call \in Calls, stamp \in Stamps :
          BeginFormat(LoggerMessage(call, stamp), call.said)
    BY <1>3 DEF LogCall
  <2>2. QED BY <2>1, LoggerMessageType, LineBegins
<1>4. CASE OtherMessage
  <2>1. PICK m \in Messages : BeginFormat(m, << >>)
    BY <1>4 DEF OtherMessage
  <2>2. m \in LoggedMessage
    BY CharacterAssumption
  <2>3. QED BY <2>1, <2>2, LineBegins
<1>5. CASE FormatField
  BY <1>5, FieldAdded
<1>6. CASE WriteLine
  BY <1>6, LineWritten
<1>7. CASE Return
  BY <1>7, LineEnds
<1>8. CASE Over \/ UNCHANGED vars
  <2>1. UNCHANGED <<lineVars, msg, cachedTime>> /\ pc' = pc
    BY <1>8 DEF Over, vars, messageVars, compilerVars
  <2>2. QED BY <2>1, SameLine
<1>9. QED BY <1>1, <1>2, <1>3, <1>4, <1>5, <1>6, <1>7, <1>8 DEF Next

(* The inductive invariant of formatter and line together.                 *)
LEMMA FormatInvariant == Spec => [](CompilerInv /\ FormatInv)
<1>1. Init => FormatInv
  BY FormatInit
<1>2. CompilerInv /\ FormatInv /\ [Next]_vars => FormatInv'
  BY FormatNext
<1>3. QED BY <1>1, <1>2, CompilerInvariant, PTL DEF Spec

(* For every message and list of formatters, every capacity of the array   *)
(* and every width: a field is as wide as its pattern asks for, but for a  *)
(* cut that is ignored and a center that gets two too many.                *)
THEOREM FormatterFieldWidths == Spec => []FieldWidths
<1>1. ASSUME FormatInv PROVE FieldWidths
  <2>1. DOMAIN fields = 1 .. Len(fields)
    BY <1>1 DEF FormatInv, LineInv
  <2>2. ASSUME NEW i \in DOMAIN fields, fields[i].flag # "d"
        PROVE  WidthOf(i) = IF CutIsIgnored(i) THEN Len(fields[i].own)
                            ELSE Wanted(fields[i])
                                   + IF OddCentre(fields[i]) THEN 2 ELSE 0
    <3>1. AsWide(fields[i], ends[i], ends[i + 1] - ends[i])
      BY <1>1, <2>1 DEF FormatInv, LineInv, Good
    <3>2. CutIgnored(fields[i], ends[i]) <=> CutIsIgnored(i)
      BY DEF CutIgnored, CutIsIgnored
    <3>3. QED BY <2>2, <3>1, <3>2 DEF AsWide, WidthOf
  <2>3. QED BY <2>2 DEF FieldWidths
<1>2. QED BY <1>1, FormatInvariant, PTL

(* The same of what the fields show: the message's own text for the flag,  *)
(* or a beginning of it, on the side the pattern names, and unchanged by   *)
(* the fields behind it; whatever message was formatted before.            *)
THEOREM FormatterLineShowsMessage == Spec => []LineShowsMessage
<1>1. ASSUME FormatInv PROVE LineShowsMessage
  <2>1. DOMAIN fields = 1 .. Len(fields)
    BY <1>1 DEF FormatInv, LineInv
  <2>2. ASSUME NEW i \in DOMAIN fields
        PROVE  CutGrows(fields[i]) \/ ShowsOwnText(i)
    <3>1. \/ CutGrows(fields[i])
          \/ Shows(fields[i], ends[i + 1] - ends[i], Shown(i))
      BY <1>1, <2>1 DEF FormatInv, LineInv, Good
    <3>2. Shows(fields[i], ends[i + 1] - ends[i], Shown(i)) => ShowsOwnText(i)
      BY DEF Shows, ShowsOwnText, WidthOf
    <3>3. QED BY <3>1, <3>2
  <2>3. SubSeq(View(buf), 1, ends[1]) = color
    BY <1>1 DEF FormatInv, LineInv
  <2>4. QED BY <2>2, <2>3 DEF LineShowsMessage
<1>2. QED BY <1>1, FormatInvariant, PTL
=============================================================================
