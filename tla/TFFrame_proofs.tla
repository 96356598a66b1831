---------------------------- MODULE TFFrame_proofs ----------------------------
(****************************************************************************)
(* Lemmas about the wire format, for every width, byte range and checksum:  *)
(* registers and the numbers in them, and the checksum as an accumulator.   *)
(****************************************************************************)
EXTENDS TFFrame, SequenceTheorems, WellFoundedInduction, TLAPS

-----------------------------------------------------------------------------
(* Registers as sequences of bytes.                                         *)

LEMMA RegisterIsSeq ==
  ASSUME NEW n \in Nat, NEW r \in Register(n)
  PROVE  r \in Seq(Byte) /\ Len(r) = n
BY SeqDef DEF Register

LEMMA SeqIsRegister ==
  ASSUME NEW r \in Seq(Byte)
  PROVE  r \in Register(Len(r))
BY LenProperties DEF Register

LEMMA AppendConcat ==
  ASSUME NEW p \in Seq(Byte), NEW s \in Seq(Byte), NEW c \in Byte
  PROVE  Append(p \o s, c) = p \o Append(s, c)
<1>1. p \o s \in Seq(Byte) /\ <<c>> \in Seq(Byte)
  BY ConcatProperties
<1>2. Append(p \o s, c) = (p \o s) \o <<c>> /\ Append(s, c) = s \o <<c>>
  BY <1>1, AppendIsConcat
<1> QED
  BY <1>1, <1>2, ConcatAssociative

LEMMA ShiftInType ==
  ASSUME NEW n \in Nat \ {0}, NEW r \in Register(n), NEW c \in Byte
  PROVE  /\ ShiftIn(r, c) \in Register(n)
         /\ \A i \in 1 .. n - 1 : ShiftIn(r, c)[i] = r[i + 1]
         /\ ShiftIn(r, c)[n] = c
<1>1. r \in Seq(Byte) /\ Len(r) = n /\ r # << >>
  BY RegisterIsSeq, EmptySeq
<1>2. /\ Tail(r) \in Seq(Byte) /\ Len(Tail(r)) = n - 1
      /\ \A i \in 1 .. n - 1 : Tail(r)[i] = r[i + 1]
  BY <1>1, HeadTailProperties
<1>3. /\ ShiftIn(r, c) \in Seq(Byte) /\ Len(ShiftIn(r, c)) = n
      /\ \A i \in 1 .. n - 1 : ShiftIn(r, c)[i] = Tail(r)[i]
      /\ ShiftIn(r, c)[n] = c
  BY <1>2, AppendProperties DEF ShiftIn
<1> QED
  BY <1>2, <1>3, SeqIsRegister

LEMMA ZeroType ==
  ASSUME NEW n \in Nat
  PROVE  Zero(n) \in Register(n)
BY FormatAssumption DEF Zero, Register, Byte

-----------------------------------------------------------------------------
(* The number in a register is below the number of values of its width.     *)

LEMMA ModRange ==
  ASSUME NEW a \in Nat, NEW n \in Nat \ {0}
  PROVE  a % n \in 0 .. n - 1
OBVIOUS

LEMMA DivType ==
  ASSUME NEW a \in Nat, NEW n \in Nat \ {0}
  PROVE  a \div n \in Nat
OBVIOUS

LEMMA ValuesType ==
  ASSUME NEW n \in {1, 2, 3, 4}
  PROVE  Values(n) \in Nat \ {0}
BY FormatAssumption DEF Values

LEMMA DigitBound ==
  ASSUME NEW p \in Nat, NEW b \in Nat, NEW x \in 0 .. p - 1, NEW y \in 0 .. b - 1
  PROVE  x * b + y \in 0 .. p * b - 1
<1>1. x * b <= (p - 1) * b /\ x * b \in Nat
  OBVIOUS
<1>2. (p - 1) * b = p * b - b
  OBVIOUS
<1> QED
  BY <1>1, <1>2

LEMMA ValueType ==
  ASSUME NEW n \in {1, 2, 4}, NEW r \in Register(n)
  PROVE  Value(r) \in 0 .. Values(n) - 1
<1>1. Len(r) = n
  BY RegisterIsSeq
<1>2. CASE n = 1
  BY <1>1, <1>2 DEF Value, Values, Register, Byte
<1>3. CASE n = 2
  <2>1. r[1] \in 0 .. ByteBase - 1 /\ r[2] \in 0 .. ByteBase - 1
    BY <1>3 DEF Register, Byte
  <2> QED
    BY <2>1, <1>1, <1>3, DigitBound, FormatAssumption DEF Value, Values
<1>4. CASE n = 4
  <2>1. \A i \in 1 .. 4 : r[i] \in 0 .. ByteBase - 1
    BY <1>4 DEF Register, Byte
  <2> DEFINE p == ByteBase * ByteBase
             x == r[1] * ByteBase + r[2]
             y == x * ByteBase + r[3]
  <2>2. x \in 0 .. p - 1
    BY <2>1, DigitBound, FormatAssumption
  <2>3. p \in Nat /\ p * ByteBase \in Nat
    BY FormatAssumption
  <2>4. y \in 0 .. p * ByteBase - 1
    <3> HIDE DEF p, x
    <3> QED
      BY <2>1, <2>2, <2>3, DigitBound, FormatAssumption
  <2>5. y * ByteBase + r[4] \in 0 .. p * ByteBase * ByteBase - 1
    <3> HIDE DEF p, y
    <3> QED
      BY <2>1, <2>3, <2>4, DigitBound, FormatAssumption
  <2> QED
    BY <2>5, <1>1, <1>4 DEF Value, Values
<1> QED
  BY <1>2, <1>3, <1>4

LEMMA BigEndianType ==
  ASSUME NEW n \in {1, 2, 4}, NEW x \in Nat
  PROVE  BigEndian(n, x) \in Register(n)
<1>1. ByteBase \in Nat \ {0}
  BY FormatAssumption
<1>2. ASSUME NEW i \in 1 .. n
      PROVE  (IF i = n THEN x % ByteBase ELSE (x \div Values(n - i)) % ByteBase) \in Byte
  <2>1. CASE i = n
    BY <1>1, <2>1, ModRange DEF Byte
  <2>2. CASE i # n
    <3>1. n - i \in {1, 2, 3, 4}
      BY <2>2
    <3>2. Values(n - i) \in Nat \ {0}
      BY <3>1, ValuesType
    <3>3. x \div Values(n - i) \in Nat
      BY <3>2, DivType
    <3> QED
      BY <1>1, <2>2, <3>3, ModRange DEF Byte
  <2> QED
    BY <2>1, <2>2
<1> QED
  BY <1>2 DEF BigEndian, Register

-----------------------------------------------------------------------------
(* Every nonempty set of naturals has a least element: the form in which    *)
(* the proofs below argue by induction.                                     *)

LEMMA LeastNatural ==
  ASSUME NEW T, T \subseteq Nat, T # {}
  PROVE  \E m \in T : \A k \in T : m <= k
<1> DEFINE R == OpToRel(<, Nat)
<1>1. PICK m \in T : \A k \in T : ~(<<k, m>> \in R)
  <2>1. IsWellFoundedOn(R, Nat)
    BY NatLessThanWellFounded, Zenon
  <2> HIDE DEF R
  <2> QED
    BY <2>1, WFMin, Zenon
<1>2. \A k \in T : ~(k < m)
  BY <1>1, Zenon DEF OpToRel
<1> QED
  BY <1>2

-----------------------------------------------------------------------------
(* The checksum as an accumulator.  CksumFrom is defined by a recursive     *)
(* function; the lemmas show that this function exists, that it is unique,  *)
(* and hence what further bytes do to the checksum.                         *)

Step(a, s, f, i) == IF i = 0 THEN a ELSE TF_CksumAdd(f[i - 1], s[i])
IsRun(a, s, n, f) == f = [i \in 0 .. n |-> Step(a, s, f, i)]

LEMMA RunStep ==
  ASSUME NEW a, NEW s, NEW n \in Nat, NEW f, IsRun(a, s, n, f), NEW i \in 0 .. n
  PROVE  f[i] = Step(a, s, f, i)
<1> DEFINE h == [k \in 0 .. n |-> Step(a, s, f, k)]
<1>1. f = h /\ h[i] = Step(a, s, f, i)
  BY Zenon DEF IsRun
<1> HIDE DEF h
<1> QED
  BY <1>1

LEMMA RunExists ==
  ASSUME NEW a, NEW s, NEW n \in Nat
  PROVE  \E f : IsRun(a, s, n, f)
<1> DEFINE T == {k \in Nat : ~(\E f : IsRun(a, s, k, f))}
<1>1. SUFFICES ASSUME n \in T PROVE FALSE
  OBVIOUS
<1>2. PICK m \in T : \A k \in T : m <= k
  BY <1>1, LeastNatural
<1>3. m # 0
  <2> DEFINE g == [i \in 0 .. 0 |-> a]
  <2>1. IsRun(a, s, 0, g)
    BY DEF IsRun, Step
  <2> QED
    BY <2>1
<1>4. PICK f : IsRun(a, s, m - 1, f)
  BY <1>2, <1>3, m - 1 \in Nat /\ m - 1 \notin T
<1> DEFINE g == [i \in 0 .. m |-> IF i = m THEN TF_CksumAdd(f[m - 1], s[m]) ELSE f[i]]
<1>5. \A i \in 0 .. m : g[i] = Step(a, s, g, i)
  <2> TAKE i \in 0 .. m
  <2>1. CASE i = m
    BY <2>1, <1>2, <1>3 DEF Step
  <2>2. CASE i # m
    <3>1. i \in 0 .. m - 1 /\ f[i] = Step(a, s, f, i)
      BY <2>2, <1>2, <1>3, <1>4, RunStep
    <3> QED
      BY <3>1, <1>2 DEF Step
  <2> QED
    BY <2>1, <2>2
<1>6. IsRun(a, s, m, g)
  <2> g = [i \in 0 .. m |-> g[i]]
    OBVIOUS
  <2> HIDE DEF g
  <2> QED
    BY <1>5 DEF IsRun
<1> QED
  BY <1>2, <1>6

LEMMA CksumFromIsRun ==
  ASSUME NEW a \in Cksum, NEW s \in Seq(Byte)
  PROVE  \E f : IsRun(a, s, Len(s), f) /\ CksumFrom(a, s) = f[Len(s)]
<1> DEFINE h == CHOOSE f : IsRun(a, s, Len(s), f)
<1>1. IsRun(a, s, Len(s), h)
  BY RunExists, LenProperties
<1>2. CksumFrom(a, s) = h[Len(s)]
  BY DEF CksumFrom, IsRun, Step
<1> QED
  BY <1>1, <1>2

LEMMA CksumFromEmpty ==
  ASSUME NEW a \in Cksum
  PROVE  CksumFrom(a, << >>) = a
<1> DEFINE s == << >>
<1>1. s \in Seq(Byte) /\ Len(s) = 0
  BY EmptySeq
<1> HIDE DEF s
<1>2. PICK f : IsRun(a, s, 0, f) /\ CksumFrom(a, s) = f[0]
  BY <1>1, CksumFromIsRun
<1>3. f[0] = Step(a, s, f, 0)
  BY <1>2, RunStep
<1> QED
  BY <1>2, <1>3 DEF Step, s

LEMMA CksumFromAppend ==
  ASSUME NEW a \in Cksum, NEW s \in Seq(Byte), NEW c \in Byte
  PROVE  CksumFrom(a, Append(s, c)) = TF_CksumAdd(CksumFrom(a, s), c)
<1> DEFINE t == Append(s, c)
           n == Len(s)
<1>1. /\ t \in Seq(Byte) /\ Len(t) = n + 1 /\ n \in Nat
      /\ \A i \in 1 .. n : t[i] = s[i]
      /\ t[n + 1] = c
  BY AppendProperties, LenProperties
<1> HIDE DEF t
<1>2. PICK f : IsRun(a, s, n, f) /\ CksumFrom(a, s) = f[n]
  BY CksumFromIsRun
<1>3. PICK g : IsRun(a, t, n + 1, g) /\ CksumFrom(a, t) = g[n + 1]
  BY <1>1, CksumFromIsRun
<1>4. f[n] = g[n]
  <2> DEFINE T == {i \in 0 .. n : f[i] # g[i]}
  <2>1. SUFFICES ASSUME n \in T PROVE FALSE
    BY <1>1
  <2>2. PICK k \in T : \A i \in T : k <= i
    <3>1. T \subseteq Nat /\ T # {}
      BY <1>1, <2>1
    <3> HIDE DEF T
    <3> QED
      BY <3>1, LeastNatural
  <2>3. k \in 0 .. n /\ f[k] # g[k]
    BY <2>2
  <2>4. f[k] = Step(a, s, f, k) /\ g[k] = Step(a, t, g, k)
    BY <1>1, <1>2, <1>3, <2>3, RunStep
  <2>5. CASE k = 0
    BY <2>3, <2>4, <2>5 DEF Step
  <2>6. CASE k # 0
    <3>1. k - 1 \in 0 .. n /\ k - 1 \notin T
      BY <1>1, <2>2, <2>3, <2>6
    <3>2. f[k - 1] = g[k - 1] /\ s[k] = t[k]
      BY <1>1, <3>1, <2>3, <2>6
    <3> QED
      BY <3>2, <2>3, <2>4, <2>6 DEF Step
  <2> QED
    BY <2>5, <2>6
<1>5. g[n + 1] = TF_CksumAdd(g[n], t[n + 1])
  BY <1>1, <1>3, RunStep DEF Step
<1> QED
  BY <1>1, <1>2, <1>3, <1>4, <1>5 DEF t

LEMMA CksumFromType ==
  ASSUME NEW a \in Cksum, NEW s \in Seq(Byte)
  PROVE  CksumFrom(a, s) \in Cksum
<1>1. PICK f : IsRun(a, s, Len(s), f) /\ CksumFrom(a, s) = f[Len(s)]
  BY CksumFromIsRun
<1>2. Len(s) \in Nat /\ \A i \in 1 .. Len(s) : s[i] \in Byte
  BY LenProperties, ElementOfSeq
<1> DEFINE T == {i \in 0 .. Len(s) : f[i] \notin Cksum}
<1>3. SUFFICES ASSUME Len(s) \in T PROVE FALSE
  BY <1>1, <1>2
<1>4. PICK k \in T : \A i \in T : k <= i
  <2>1. T \subseteq Nat /\ T # {}
    BY <1>2, <1>3
  <2> HIDE DEF T
  <2> QED
    BY <2>1, LeastNatural
<1>5. f[k] = Step(a, s, f, k) /\ k \in Nat
  BY <1>1, <1>2, <1>4, RunStep
<1>6. CASE k = 0
  BY <1>4, <1>5, <1>6, FormatAssumption DEF Step
<1>7. CASE k # 0
  <2>1. k - 1 \in 0 .. Len(s) /\ k - 1 \notin T /\ s[k] \in Byte
    BY <1>2, <1>4, <1>5, <1>7
  <2>2. TF_CksumAdd(f[k - 1], s[k]) \in Cksum
    BY <2>1, FormatAssumption
  <2> QED
    BY <2>2, <1>4, <1>5, <1>7 DEF Step
<1> QED
  BY <1>5, <1>6, <1>7

LEMMA CksumFromConcat ==
  ASSUME NEW a \in Cksum, NEW s \in Seq(Byte), NEW t \in Seq(Byte)
  PROVE  CksumFrom(a, s \o t) = CksumFrom(CksumFrom(a, s), t)
<1> DEFINE n == Len(t)
           b == CksumFrom(a, s)
           p(i) == SubSeq(t, 1, i)
           T == {i \in 0 .. n : CksumFrom(a, s \o p(i)) # CksumFrom(b, p(i))}
<1>1. n \in Nat /\ p(n) = t /\ b \in Cksum
  BY LenProperties, SubSeqFull, CksumFromType
<1>2. SUFFICES ASSUME n \in T PROVE FALSE
  <2> HIDE DEF b, p
  <2>1. n \notin T => CksumFrom(a, s \o p(n)) = CksumFrom(b, p(n))
    BY <1>1
  <2> HIDE DEF T
  <2> QED
    BY <1>1, <2>1 DEF b
<1>3. PICK k \in T : \A i \in T : k <= i
  <2>1. T \subseteq Nat /\ T # {}
    BY <1>1, <1>2
  <2> HIDE DEF T
  <2> QED
    BY <2>1, LeastNatural
<1>4. k \in 0 .. n /\ CksumFrom(a, s \o p(k)) # CksumFrom(b, p(k))
  BY <1>3
<1>5. CASE k = 0
  <2>1. p(0) = << >> /\ s \o << >> = s
    BY SubSeqEmpty, ConcatEmptySeq
  <2> QED
    BY <1>1, <1>4, <1>5, <2>1, CksumFromEmpty
<1>6. CASE k # 0
  <2> DEFINE q == p(k - 1)
  <2>1. k - 1 \in 0 .. n /\ k - 1 \notin T /\ k \in 1 .. n
    BY <1>1, <1>3, <1>4, <1>6
  <2>2. CksumFrom(a, s \o q) = CksumFrom(b, q)
    BY <2>1
  <2>3. t[k] \in Byte
    BY <2>1, ElementOfSeq
  <2>4. q \in Seq(Byte)
    <3>1. \A i \in 1 .. k - 1 : t[i] \in Byte
      BY <2>1, <1>1, ElementOfSeq
    <3> QED
      BY <2>1, <3>1, SubSeqProperties
  <2>5. p(k) = q \o <<t[k]>>
    BY <2>1, SubSeqRecursiveSecond
  <2> HIDE DEF q, p, b
  <2>6. p(k) = Append(q, t[k])
    BY <2>3, <2>4, <2>5, AppendIsConcat
  <2>7. s \o p(k) = Append(s \o q, t[k]) /\ s \o q \in Seq(Byte)
    <3>1. s \o Append(q, t[k]) = Append(s \o q, t[k])
      BY <2>3, <2>4, AppendConcat
    <3>2. s \o q \in Seq(Byte)
      BY <2>4, ConcatProperties
    <3> QED
      BY <2>6, <3>1, <3>2
  <2>8. CksumFrom(b, p(k)) = TF_CksumAdd(CksumFrom(b, q), t[k])
    BY <1>1, <2>3, <2>4, <2>6, CksumFromAppend
  <2>9. CksumFrom(a, s \o p(k)) = TF_CksumAdd(CksumFrom(a, s \o q), t[k])
    BY <2>3, <2>7, CksumFromAppend
  <2> QED
    BY <1>4, <2>2, <2>8, <2>9
<1> QED
  BY <1>5, <1>6

(* The checksum of a part of a frame.                                       *)

LEMMA CksumOverEmpty == CksumOver(<< >>) = TF_CksumStart
BY CksumFromEmpty, FormatAssumption DEF CksumOver

LEMMA CksumOverAppend ==
  ASSUME NEW s \in Seq(Byte), NEW c \in Byte
  PROVE  CksumOver(Append(s, c)) = TF_CksumAdd(CksumOver(s), c)
BY CksumFromAppend, FormatAssumption DEF CksumOver

LEMMA CksumOverConcat ==
  ASSUME NEW s \in Seq(Byte), NEW t \in Seq(Byte)
  PROVE  CksumOver(s \o t) = CksumFrom(CksumOver(s), t)
BY CksumFromConcat, FormatAssumption DEF CksumOver

LEMMA CksumOverType ==
  ASSUME NEW s \in Seq(Byte)
  PROVE  CksumOver(s) \in Cksum
BY CksumFromType, FormatAssumption DEF CksumOver
=============================================================================
