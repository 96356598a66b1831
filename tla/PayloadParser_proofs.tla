------------------------ MODULE PayloadParser_proofs ------------------------
(****************************************************************************)
(* The payload builder and parser, for every byte range, buffer size and    *)
(* set of fields: numbers survive both byte orders, fields stay whole, and  *)
(* what a reader trusts is what was written.                                *)
(****************************************************************************)
EXTENDS PayloadParser, SequenceTheorems, WellFoundedInduction, TLAPS

-----------------------------------------------------------------------------
(* Division by the number of values of some bytes.                          *)

LEMMA DivMod ==
  ASSUME NEW x \in Int, NEW b \in Nat \ {0}
  PROVE  /\ x \div b \in Int /\ x % b \in 0 .. b - 1
         /\ x = (x \div b) * b + (x % b)
OBVIOUS

\* Two multiples of b that differ by less than b are the same.
LEMMA Multiples ==
  ASSUME NEW b \in Nat \ {0}, NEW p \in Int, NEW q \in Int,
         NEW r \in 0 .. b - 1, NEW s \in 0 .. b - 1, p * b + r = q * b + s
  PROVE  p = q /\ r = s
<1>1. (p - q) * b = s - r
  OBVIOUS
<1>2. CASE p = q
  BY <1>2
<1>3. CASE p > q
  <2>1. p - q >= 1 /\ p - q \in Nat
    BY <1>3
  <2>2. (p - q) * b >= b
    <3>1. \A k \in Nat : k >= 1 => k * b >= b
      OBVIOUS
    <3> QED
      BY <2>1, <3>1
  <2> QED
    BY <1>1, <2>2
<1>4. CASE q > p
  <2>1. q - p >= 1 /\ q - p \in Nat
    BY <1>4
  <2>2. (q - p) * b >= b
    <3>1. \A k \in Nat : k >= 1 => k * b >= b
      OBVIOUS
    <3> QED
      BY <2>1, <3>1
  <2>3. (q - p) * b = r - s
    OBVIOUS
  <2> QED
    BY <2>2, <2>3
<1> QED
  BY <1>2, <1>3, <1>4

LEMMA ModUnique ==
  ASSUME NEW b \in Nat \ {0}, NEW q \in Int, NEW r \in 0 .. b - 1
  PROVE  (q * b + r) % b = r
<1> DEFINE x == q * b + r
<1>1. x \in Int /\ x = q * b + r
  OBVIOUS
<1> HIDE DEF x
<1>2. x \div b \in Int /\ x % b \in 0 .. b - 1 /\ x = (x \div b) * b + (x % b)
  BY <1>1, DivMod
<1>3. x % b = r
  <2> DEFINE p == x \div b
             s == x % b
  <2>1. p \in Int /\ s \in 0 .. b - 1 /\ p * b + s = q * b + r
    BY <1>1, <1>2
  <2> HIDE DEF p, s
  <2>2. s = r
    BY <2>1, Multiples
  <2> QED
    BY <2>2 DEF s
<1> QED
  BY <1>3 DEF x

LEMMA DigitBound ==
  ASSUME NEW p \in Nat, NEW b \in Nat, NEW x \in 0 .. p - 1, NEW y \in 0 .. b - 1
  PROVE  x * b + y \in 0 .. p * b - 1
<1>1. x * b <= (p - 1) * b /\ x * b \in Nat
  OBVIOUS
<1>2. (p - 1) * b = p * b - b
  OBVIOUS
<1> QED
  BY <1>1, <1>2

\* One more byte: what it adds to the remainder.
LEMMA DigitStep ==
  ASSUME NEW x \in Int, NEW b \in Nat \ {0}, NEW p \in Nat \ {0}
  PROVE  x % (b * p) = ((x \div p) % b) * p + (x % p)
<1> DEFINE q == x \div p
           r == x % p
           d == q % b
           u == q \div b
<1>1. q \in Int /\ r \in 0 .. p - 1 /\ x = q * p + r
  BY DivMod
<1> HIDE DEF q, r
<1>2. u \in Int /\ d \in 0 .. b - 1 /\ q = u * b + d
  BY <1>1, DivMod
<1> HIDE DEF u, d
<1>3. d * p + r \in 0 .. b * p - 1
  BY <1>1, <1>2, DigitBound
<1>4. x = u * (b * p) + (d * p + r)
  <2>1. q * p = (u * b) * p + d * p
    BY <1>2
  <2>2. (u * b) * p = u * (b * p)
    BY <1>2
  <2>3. u * (b * p) \in Int /\ d * p \in Int /\ r \in Int
    BY <1>1, <1>2
  <2> QED
    BY <1>1, <2>1, <2>2, <2>3
<1>5. b * p \in Nat \ {0}
  OBVIOUS
<1>6. x % (b * p) = d * p + r
  <2> DEFINE m == b * p
             s == d * p + r
  <2>1. m \in Nat \ {0} /\ s \in 0 .. m - 1 /\ x = u * m + s
    BY <1>3, <1>4, <1>5
  <2> HIDE DEF m, s
  <2>2. x % m = s
    BY <2>1, <1>2, ModUnique
  <2> QED
    BY <2>2 DEF m, s
<1> QED
  BY <1>6 DEF q, r, d

LEMMA ValuesType ==
  ASSUME NEW n \in {0, 1, 2, 3, 4}
  PROVE  Values(n) \in Nat \ {0}
BY BuilderAssumption DEF Values

-----------------------------------------------------------------------------
(* Numbers, written and read in either byte order.                          *)

Numbers == Kinds \ {"string", "buf"}

LEMMA NumberBytesType ==
  ASSUME NEW big, NEW x \in Int, NEW n \in {1, 2, 4}
  PROVE  /\ NumberBytes(big, x, n) \in Seq(Byte) /\ Len(NumberBytes(big, x, n)) = n
<1>1. ASSUME NEW i \in 1 .. n
      PROVE  (x \div Values(IF big THEN n - i ELSE i - 1)) % ByteBase \in Byte
  <2>1. PICK v : v = Values(IF big THEN n - i ELSE i - 1)
    OBVIOUS
  <2>2. (IF big THEN n - i ELSE i - 1) \in {0, 1, 2, 3, 4}
    OBVIOUS
  <2>3. v \in Nat \ {0}
    BY <2>1, <2>2, ValuesType
  <2>4. x \div v \in Int
    BY <2>3, DivMod
  <2>5. (x \div v) % ByteBase \in 0 .. ByteBase - 1
    BY <2>4, DivMod, BuilderAssumption
  <2> QED
    BY <2>1, <2>5 DEF Byte
<1>2. NumberBytes(big, x, n) \in [1 .. n -> Byte]
  BY <1>1 DEF NumberBytes
<1> QED
  BY <1>2, SeqDef

LEMMA NumberReadBytes ==
  ASSUME NEW big, NEW x \in Int, NEW n \in {1, 2, 4}
  PROVE  NumberRead(big, NumberBytes(big, x, n)) = x % Values(n)
<1> DEFINE s == NumberBytes(big, x, n)
           b == ByteBase
<1>1. b \in Nat \ {0} /\ b * b \in Nat \ {0} /\ b * b * b \in Nat \ {0}
  BY BuilderAssumption
<1>2. Len(s) = n
  BY NumberBytesType
<1>3. \A i \in 1 .. n : s[i] = (x \div Values(IF big THEN n - i ELSE i - 1)) % b
  BY DEF NumberBytes
<1> DEFINE digit(k) == (x \div Values(k)) % b
           d0 == digit(0)
           d1 == digit(1)
           d2 == digit(2)
           d3 == digit(3)
<1>4. d0 = x % b
  BY DEF Values
<1>5. d0 \in Int /\ d1 \in Int /\ d2 \in Int /\ d3 \in Int
  <2>1. ASSUME NEW k \in {0, 1, 2, 3} PROVE digit(k) \in Int
    <3>1. Values(k) \in Nat \ {0}
      BY ValuesType
    <3>2. x \div Values(k) \in Int
      BY <3>1, DivMod
    <3>3. digit(k) \in 0 .. b - 1
      BY <1>1, <3>2, DivMod
    <3> QED
      BY <3>3
  <2> QED
    BY <2>1
<1>6. x % (b * b) = (d1 * b) + d0
  BY <1>1, <1>4, DigitStep DEF Values
<1>7. x % (b * (b * b)) = (d2 * (b * b)) + ((d1 * b) + d0)
  BY <1>1, <1>6, DigitStep DEF Values
<1>8. x % (b * (b * b * b)) = (d3 * (b * b * b)) + ((d2 * (b * b)) + ((d1 * b) + d0))
  BY <1>1, <1>7, DigitStep DEF Values
<1>9. b * b * b * b = b * (b * b * b)
  BY <1>1
<1>10. CASE n = 1
  <2>1. s[1] = d0
    BY <1>3, <1>10
  <2>2. NumberRead(big, s) = d0
    <3> HIDE DEF s, d0
    <3> QED
      BY <1>2, <1>5, <1>10, <2>1 DEF NumberRead, Values
  <2> QED
    BY <2>2, <1>4, <1>10 DEF Values
<1>11. CASE n = 2
  <2>1. NumberRead(big, s) = (d1 * b) + d0
    <3>1. IF big THEN s[1] = d1 /\ s[2] = d0 ELSE s[1] = d0 /\ s[2] = d1
      BY <1>3, <1>11
    <3> HIDE DEF s, d0, d1
    <3> QED
      BY <1>1, <1>2, <1>5, <1>11, <3>1 DEF NumberRead, Values
  <2> QED
    BY <2>1, <1>6, <1>11 DEF Values
<1>12. CASE n = 4
  <2>1. NumberRead(big, s) = (d3 * (b * b * b)) + ((d2 * (b * b)) + ((d1 * b) + d0))
    <3>1. IF big THEN s[1] = d3 /\ s[2] = d2 /\ s[3] = d1 /\ s[4] = d0
                       ELSE s[1] = d0 /\ s[2] = d1 /\ s[3] = d2 /\ s[4] = d3
      BY <1>3, <1>12
    <3> HIDE DEF s, d0, d1, d2, d3
    <3> QED
      BY <1>1, <1>2, <1>5, <1>12, <3>1 DEF NumberRead, Values
  <2> QED
    BY <2>1, <1>8, <1>9, <1>12 DEF Values
<1> QED
  BY <1>10, <1>11, <1>12

LEMMA WidthType ==
  ASSUME NEW kind \in Numbers
  PROVE  Width(kind) \in {1, 2, 4}
BY DEF Width, Numbers, Kinds

LEMMA FieldParts ==
  ASSUME NEW f \in Fields
  PROVE  /\ f = [kind |-> f.kind, value |-> f.value]
         /\ f.kind \in Kinds /\ f.value \in FieldValues(f.kind)
<1>1. PICK kind \in Kinds : f \in [kind : {kind}, value : FieldValues(kind)]
  BY FieldsAssumption
<1>2. f.kind = kind
  BY <1>1
<1> QED
  BY <1>1, <1>2

\* Values(1), Values(2) and Values(4) are even, for two's complement.
LEMMA HalfValues ==
  ASSUME NEW n \in {1, 2, 4}
  PROVE  Values(n) \div 2 \in Nat \ {0} /\ Values(n) = (Values(n) \div 2) + (Values(n) \div 2)
<1> DEFINE b == ByteBase
           h == b \div 2
<1>1. b \in Nat \ {0} /\ h \in Nat \ {0} /\ b = 2 * h
  BY BuilderAssumption
<1> HIDE DEF h
<1>2. \A y \in Nat \ {0} : (2 * y) \div 2 = y
  OBVIOUS
<1>3. ASSUME NEW y \in Nat \ {0}, Values(n) = 2 * y
      PROVE  Values(n) \div 2 \in Nat \ {0}
             /\ Values(n) = (Values(n) \div 2) + (Values(n) \div 2)
  BY <1>2, <1>3
<1>4. \E y \in Nat \ {0} : Values(n) = 2 * y
  <2>1. CASE n = 1
    BY <2>1, <1>1 DEF Values
  <2>2. CASE n = 2
    <3>1. h * b \in Nat \ {0} /\ b * b = 2 * (h * b)
      BY <1>1
    <3> QED
      BY <3>1, <2>2 DEF Values
  <2>3. CASE n = 4
    <3>1. b * b * b \in Nat \ {0}
      BY <1>1
    <3> DEFINE c == b * b * b
    <3>2. b * b * b * b = b * c
      BY <1>1
    <3>3. h * c \in Nat \ {0} /\ b * c = 2 * (h * c)
      <4> HIDE DEF c
      <4>1. c \in Nat \ {0}
        BY <3>1 DEF c
      <4> QED
        BY <4>1, <1>1
    <3> QED
      BY <3>2, <3>3, <2>3 DEF Values
  <2> QED
    BY <2>1, <2>2, <2>3
<1> QED
  BY <1>3, <1>4

\* What is read of a number's bytes is the number, whatever its kind.
LEMMA RoundTrip ==
  ASSUME NEW big, NEW f \in Fields, f.kind \in Numbers
  PROVE  /\ FieldBytes(big, f) \in Seq(Byte) /\ Len(FieldBytes(big, f)) = Width(f.kind)
         /\ Coerced(f.kind, NumberRead(big, FieldBytes(big, f))) = f.value
<1> DEFINE n == Width(f.kind)
           v == Values(n)
           h == v \div 2
           y == f.value
<1>1. n \in {1, 2, 4} /\ y \in FieldValues(f.kind)
  BY WidthType, FieldParts
<1>2. v \in Nat \ {0} /\ h \in Nat \ {0} /\ v = h + h
  BY <1>1, ValuesType, HalfValues
<1>3. CASE f.kind = "bool"
  <2> DEFINE x == IF y THEN 1 ELSE 0
  <2>1. FieldBytes(big, f) = NumberBytes(big, x, 1) /\ n = 1 /\ y \in BOOLEAN
    BY <1>1, <1>3 DEF FieldBytes, Width, FieldValues
  <2>2. NumberRead(big, FieldBytes(big, f)) = x % ByteBase
    BY <2>1, NumberReadBytes DEF Values
  <2>3. x % ByteBase = x
    BY BuilderAssumption
  <2> QED
    BY <2>1, <2>2, <2>3, <1>3, NumberBytesType DEF Coerced
<1>4. CASE f.kind \in {"i8", "i16", "i32"}
  <2>1. FieldBytes(big, f) = NumberBytes(big, y, n) /\ y \in -h .. h - 1
    BY <1>1, <1>4 DEF FieldBytes, FieldValues
  <2>2. NumberRead(big, FieldBytes(big, f)) = y % v
    BY <2>1, <1>1, <1>2, NumberReadBytes
  <2>3. y % v = IF y >= 0 THEN y ELSE y + v
    <3> HIDE DEF v, h, y
    <3>1. CASE y >= 0
      <4>1. y \in 0 .. v - 1 /\ y = (0 * v) + y
        BY <3>1, <2>1, <1>2
      <4> QED
        BY <4>1, <3>1, <1>2, ModUnique
    <3>2. CASE y < 0
      <4>1. y + v \in 0 .. v - 1 /\ y = ((-1) * v) + (y + v)
        BY <3>2, <2>1, <1>2
      <4>2. (((-1) * v) + (y + v)) % v = y + v
        BY <4>1, <1>2, ModUnique
      <4> QED
        BY <4>1, <4>2, <3>2, <2>1
    <3> QED
      BY <3>1, <3>2, <2>1, <1>2
  <2>4. Coerced(f.kind, y % v) = IF y % v >= h THEN (y % v) - v ELSE y % v
    BY <1>4 DEF Coerced
  <2>5. Coerced(f.kind, y % v) = y
    <3> HIDE DEF v, h, y
    <3> QED
      BY <2>1, <2>3, <2>4, <1>2
  <2>6. NumberBytes(big, y, n) \in Seq(Byte) /\ Len(NumberBytes(big, y, n)) = n
    <3>1. y \in Int
      <4> HIDE DEF v, h
      <4> QED
        BY <2>1, <1>2
    <3> QED
      BY <3>1, <1>1, NumberBytesType
  <2> HIDE DEF h, v, y, n
  <2>7. NumberRead(big, FieldBytes(big, f)) = y % v /\ Coerced(f.kind, NumberRead(big, FieldBytes(big, f))) = y
    BY <2>2, <2>5
  <2> QED
    BY <2>1, <2>6, <2>7 DEF y, n
<1>5. CASE f.kind \in {"u8", "u16", "u32", "float"}
  <2>1. FieldBytes(big, f) = NumberBytes(big, y, n) /\ y \in 0 .. v - 1
    BY <1>1, <1>5 DEF FieldBytes, FieldValues
  <2>2. NumberRead(big, FieldBytes(big, f)) = y % v
    BY <2>1, <1>1, <1>2, NumberReadBytes
  <2>3. y % v = y
    <3> HIDE DEF v, h, y
    <3>1. y \in 0 .. v - 1 /\ y = (0 * v) + y
      BY <2>1, <1>2
    <3> QED
      BY <3>1, <1>2, ModUnique
  <2>4. Coerced(f.kind, y) = y
    BY <1>5 DEF Coerced
  <2>5. NumberBytes(big, y, n) \in Seq(Byte) /\ Len(NumberBytes(big, y, n)) = n
    <3>1. y \in Int
      <4> HIDE DEF v, h
      <4> QED
        BY <2>1, <1>2
    <3> QED
      BY <3>1, <1>1, NumberBytesType
  <2> HIDE DEF v, y, n
  <2>6. NumberRead(big, FieldBytes(big, f)) = y /\ Coerced(f.kind, NumberRead(big, FieldBytes(big, f))) = y
    BY <2>2, <2>3, <2>4
  <2> QED
    BY <2>1, <2>5, <2>6 DEF y, n
<1> QED
  BY <1>3, <1>4, <1>5 DEF Numbers, Kinds

LEMMA FieldBytesType ==
  ASSUME NEW big, NEW f \in Fields
  PROVE  /\ FieldBytes(big, f) \in Seq(Byte) /\ Len(FieldBytes(big, f)) \in Nat
         /\ f.kind = "string" => FieldBytes(big, f) = Append(f.value, 0) /\ f.value \in Seq(Byte)
                                 /\ \A i \in 1 .. Len(f.value) : f.value[i] # 0
         /\ f.kind = "buf" => FieldBytes(big, f) = f.value
<1>1. f.kind \in Kinds /\ f.value \in FieldValues(f.kind)
  BY FieldParts
<1>2. CASE f.kind = "string"
  <2>1. FieldBytes(big, f) = Append(f.value, 0) /\ f.value \in Seq(Byte \ {0})
    BY <1>1, <1>2 DEF FieldBytes, FieldValues
  <2>2. f.value \in Seq(Byte) /\ \A i \in 1 .. Len(f.value) : f.value[i] # 0
    BY <2>1, SeqDef, ElementOfSeq
  <2>3. 0 \in Byte
    BY BuilderAssumption DEF Byte
  <2> QED
    BY <2>1, <2>2, <2>3, <1>2, AppendProperties, LenProperties
<1>3. CASE f.kind = "buf"
  BY <1>1, <1>3, LenProperties DEF FieldBytes, FieldValues
<1>4. CASE f.kind \in Numbers
  BY <1>4, RoundTrip, LenProperties DEF Numbers
<1> QED
  BY <1>1, <1>2, <1>3, <1>4 DEF Numbers

-----------------------------------------------------------------------------
(* Fields one after the other.  FieldsBytes is defined by a recursive       *)
(* function: it exists, and what it says of one more field follows.         *)

LEMMA LeastNatural ==
  ASSUME NEW big, NEW T, T \subseteq Nat, T # {}
  PROVE  \E m \in T : \A k \in T : m <= k
<1> DEFINE R == OpToRel(<, Nat)
<1>1. PICK m \in T : \A k \in T : ~(<<k, m>> \in R)
  <2>1. IsWellFoundedOn(R, Nat)
    BY NatLessThanWellFounded, Zenon
  <2> HIDE DEF R
  <2> QED
    BY <2>1, WFMin, Zenon
<1>2. \A k \in T : ~(k < m)
  BY <1>1, Zenon DEF OpToRel
<1> QED
  BY <1>2

Step(big, fs, g, i) == IF i = 0 THEN << >> ELSE g[i - 1] \o FieldBytes(big, fs[i])
IsRun(big, fs, n, g) == g = [i \in 0 .. n |-> Step(big, fs, g, i)]

LEMMA RunStep ==
  ASSUME NEW big, NEW fs, NEW n \in Nat, NEW g, IsRun(big, fs, n, g), NEW i \in 0 .. n
  PROVE  g[i] = Step(big, fs, g, i)
<1> DEFINE h == [k \in 0 .. n |-> Step(big, fs, g, k)]
<1>1. g = h /\ h[i] = Step(big, fs, g, i)
  BY Zenon DEF IsRun
<1> HIDE DEF h
<1> QED
  BY <1>1

LEMMA RunExists ==
  ASSUME NEW big, NEW fs, NEW n \in Nat
  PROVE  \E g : IsRun(big, fs, n, g)
<1> DEFINE T == {k \in Nat : ~(\E g : IsRun(big, fs, k, g))}
<1>1. SUFFICES ASSUME n \in T PROVE FALSE
  OBVIOUS
<1>2. PICK m \in T : \A k \in T : m <= k
  BY <1>1, LeastNatural
<1>3. m # 0
  <2> DEFINE g == [i \in 0 .. 0 |-> << >>]
  <2>1. IsRun(big, fs, 0, g)
    BY DEF IsRun, Step
  <2> QED
    BY <2>1
<1>4. PICK f : IsRun(big, fs, m - 1, f)
  BY <1>2, <1>3, m - 1 \in Nat /\ m - 1 \notin T
<1> DEFINE g == [i \in 0 .. m |-> IF i = m THEN f[m - 1] \o FieldBytes(big, fs[m]) ELSE f[i]]
<1>5. \A i \in 0 .. m : g[i] = Step(big, fs, g, i)
  <2> TAKE i \in 0 .. m
  <2>1. CASE i = m
    BY <2>1, <1>2, <1>3 DEF Step
  <2>2. CASE i # m
    <3>1. i \in 0 .. m - 1 /\ f[i] = Step(big, fs, f, i)
      BY <2>2, <1>2, <1>3, <1>4, RunStep
    <3> QED
      BY <3>1, <1>2 DEF Step
  <2> QED
    BY <2>1, <2>2
<1>6. IsRun(big, fs, m, g)
  <2> g = [i \in 0 .. m |-> g[i]]
    OBVIOUS
  <2> HIDE DEF g
  <2> QED
    BY <1>5 DEF IsRun
<1> QED
  BY <1>2, <1>6

LEMMA FieldsBytesIsRun ==
  ASSUME NEW big, NEW fs \in Seq(Fields)
  PROVE  \E g : IsRun(big, fs, Len(fs), g) /\ FieldsBytes(big, fs) = g[Len(fs)]
<1> DEFINE h == CHOOSE g : IsRun(big, fs, Len(fs), g)
<1>1. IsRun(big, fs, Len(fs), h)
  BY RunExists, LenProperties
<1>2. FieldsBytes(big, fs) = h[Len(fs)]
  BY DEF FieldsBytes, IsRun, Step
<1> QED
  BY <1>1, <1>2

LEMMA FieldsBytesEmpty ==
  ASSUME NEW big
  PROVE  FieldsBytes(big, << >>) = << >>
<1> DEFINE fs == << >>
<1>1. fs \in Seq(Fields) /\ Len(fs) = 0
  BY EmptySeq
<1> HIDE DEF fs
<1>2. PICK g : IsRun(big, fs, 0, g) /\ FieldsBytes(big, fs) = g[0]
  BY <1>1, FieldsBytesIsRun
<1>3. g[0] = Step(big, fs, g, 0)
  BY <1>2, RunStep
<1> QED
  BY <1>2, <1>3 DEF Step, fs

LEMMA FieldsBytesAppend ==
  ASSUME NEW big, NEW fs \in Seq(Fields), NEW f \in Fields
  PROVE  FieldsBytes(big, Append(fs, f)) = FieldsBytes(big, fs) \o FieldBytes(big, f)
<1> DEFINE t == Append(fs, f)
           n == Len(fs)
<1>1. /\ t \in Seq(Fields) /\ Len(t) = n + 1 /\ n \in Nat
      /\ \A i \in 1 .. n : t[i] = fs[i]
      /\ t[n + 1] = f
  BY AppendProperties, LenProperties
<1> HIDE DEF t
<1>2. PICK g : IsRun(big, fs, n, g) /\ FieldsBytes(big, fs) = g[n]
  BY FieldsBytesIsRun
<1>3. PICK h : IsRun(big, t, n + 1, h) /\ FieldsBytes(big, t) = h[n + 1]
  BY <1>1, FieldsBytesIsRun
<1>4. g[n] = h[n]
  <2> DEFINE T == {i \in 0 .. n : g[i] # h[i]}
  <2>1. SUFFICES ASSUME n \in T PROVE FALSE
    BY <1>1
  <2>2. PICK k \in T : \A i \in T : k <= i
    <3>1. T \subseteq Nat /\ T # {}
      BY <1>1, <2>1
    <3> HIDE DEF T
    <3> QED
      BY <3>1, LeastNatural
  <2>3. k \in 0 .. n /\ g[k] # h[k]
    BY <2>2
  <2>4. g[k] = Step(big, fs, g, k) /\ h[k] = Step(big, t, h, k)
    BY <1>1, <1>2, <1>3, <2>3, RunStep
  <2>5. CASE k = 0
    BY <2>3, <2>4, <2>5 DEF Step
  <2>6. CASE k # 0
    <3>1. k - 1 \in 0 .. n /\ k - 1 \notin T
      BY <1>1, <2>2, <2>3, <2>6
    <3>2. g[k - 1] = h[k - 1] /\ fs[k] = t[k]
      BY <1>1, <3>1, <2>3, <2>6
    <3> QED
      BY <3>2, <2>3, <2>4, <2>6 DEF Step
  <2> QED
    BY <2>5, <2>6
<1>5. h[n + 1] = h[n] \o FieldBytes(big, t[n + 1])
  <2>1. n + 1 \in Nat /\ n + 1 \in 0 .. n + 1 /\ n + 1 # 0 /\ (n + 1) - 1 = n
    BY <1>1
  <2>2. h[n + 1] = Step(big, t, h, n + 1)
    BY <1>3, <2>1, RunStep
  <2> QED
    BY <2>1, <2>2 DEF Step
<1> QED
  BY <1>1, <1>2, <1>3, <1>4, <1>5 DEF t

-----------------------------------------------------------------------------
(* The bytes of some of the fields: those after the first a, up to the      *)
(* b-th.                                                                    *)

FieldsOf(big, w, a, b) == FieldsBytes(big, SubSeq(w, a + 1, b))

\* Concatenation is associative, named so that an instance is easy to cite.
Assoc(s, t, r) == (s \o t) \o r = s \o (t \o r)

LEMMA BytesAssociative == \A s, t, r \in Seq(Byte) : Assoc(s, t, r)
<1> TAKE s, t, r \in Seq(Byte)
<1> QED
  BY ConcatAssociative DEF Assoc

LEMMA PieceType ==
  ASSUME NEW w \in Seq(Fields), NEW a \in Nat, NEW b \in 0 .. Len(w)
  PROVE  /\ SubSeq(w, a + 1, b) \in Seq(Fields)
         /\ Len(SubSeq(w, a + 1, b)) = IF a <= b THEN b - a ELSE 0
         /\ \A i \in 1 .. b - a : SubSeq(w, a + 1, b)[i] = w[a + i]
<1>1. Len(w) \in Nat /\ \A i \in a + 1 .. b : w[i] \in Fields
  BY LenProperties, ElementOfSeq
<1> QED
  BY <1>1, SubSeqProperties

LEMMA FieldsOfEmpty ==
  ASSUME NEW big, NEW w, NEW a \in Nat, NEW b \in Nat, b <= a
  PROVE  FieldsOf(big, w, a, b) = << >>
<1>1. SubSeq(w, a + 1, b) = << >>
  BY SubSeqEmpty
<1> QED
  BY <1>1, FieldsBytesEmpty DEF FieldsOf

LEMMA FieldsOfLast ==
  ASSUME NEW big, NEW w \in Seq(Fields), NEW a \in Nat, NEW b \in 1 .. Len(w), a < b
  PROVE  /\ FieldsOf(big, w, a, b) = FieldsOf(big, w, a, b - 1) \o FieldBytes(big, w[b])
         /\ w[b] \in Fields
<1>1. Len(w) \in Nat /\ w[b] \in Fields
  BY LenProperties, ElementOfSeq
<1>2. SubSeq(w, a + 1, b) = SubSeq(w, a + 1, b - 1) \o <<w[b]>>
  BY <1>1, SubSeqRecursiveSecond
<1>3. SubSeq(w, a + 1, b - 1) \in Seq(Fields)
  BY <1>1, PieceType
<1>4. SubSeq(w, a + 1, b) = Append(SubSeq(w, a + 1, b - 1), w[b])
  BY <1>1, <1>2, <1>3, AppendIsConcat
<1> QED
  BY <1>1, <1>3, <1>4, FieldsBytesAppend DEF FieldsOf

LEMMA FieldsOfType ==
  ASSUME NEW big, NEW w \in Seq(Fields), NEW a \in Nat, NEW b \in 0 .. Len(w)
  PROVE  FieldsOf(big, w, a, b) \in Seq(Byte)
<1> DEFINE T == {k \in 0 .. Len(w) : FieldsOf(big, w, a, k) \notin Seq(Byte)}
<1>1. Len(w) \in Nat
  BY LenProperties
<1>2. SUFFICES ASSUME b \in T PROVE FALSE
  OBVIOUS
<1>3. PICK k \in T : \A i \in T : k <= i
  <2>1. T \subseteq Nat /\ T # {}
    BY <1>1, <1>2
  <2> HIDE DEF T
  <2> QED
    BY <2>1, LeastNatural
<1>4. k \in 0 .. Len(w) /\ FieldsOf(big, w, a, k) \notin Seq(Byte)
  BY <1>3
<1>5. CASE k <= a
  <2>1. FieldsOf(big, w, a, k) = << >>
    BY <1>1, <1>4, <1>5, FieldsOfEmpty
  <2>2. << >> \in Seq(Byte)
    BY EmptySeq
  <2> QED
    BY <1>4, <2>1, <2>2
<1>6. CASE a < k
  <2>1. k - 1 \in 0 .. Len(w) /\ k - 1 \notin T
    BY <1>1, <1>3, <1>4, <1>6
  <2>2. FieldsOf(big, w, a, k - 1) \in Seq(Byte)
    BY <2>1
  <2>3. k \in 1 .. Len(w)
    BY <1>1, <1>4, <1>6
  <2>4. FieldsOf(big, w, a, k) = FieldsOf(big, w, a, k - 1) \o FieldBytes(big, w[k]) /\ w[k] \in Fields
    BY <2>3, <1>6, FieldsOfLast
  <2>5. FieldBytes(big, w[k]) \in Seq(Byte)
    BY <2>4, FieldBytesType
  <2> QED
    BY <2>2, <2>4, <2>5, <1>4, ConcatProperties
<1>7. k <= a \/ a < k
  BY <1>1, <1>4
<1> HIDE DEF T
<1> QED
  BY <1>5, <1>6, <1>7

\* The first of the fields comes first.
LEMMA FieldsOfNext ==
  ASSUME NEW big, NEW w \in Seq(Fields), NEW a \in Nat, NEW b \in 0 .. Len(w), a < b
  PROVE  /\ FieldsOf(big, w, a, b) = FieldBytes(big, w[a + 1]) \o FieldsOf(big, w, a + 1, b)
         /\ w[a + 1] \in Fields
<1> DEFINE P(k) == FieldsOf(big, w, a, k) = FieldBytes(big, w[a + 1]) \o FieldsOf(big, w, a + 1, k)
           T == {k \in a + 1 .. Len(w) : ~P(k)}
<1>1. Len(w) \in Nat /\ a + 1 \in 1 .. Len(w)
  BY LenProperties
<1>2. w[a + 1] \in Fields
  BY <1>1, ElementOfSeq
<1>3. FieldBytes(big, w[a + 1]) \in Seq(Byte)
  BY <1>2, FieldBytesType
<1>4. SUFFICES ASSUME b \in T PROVE FALSE
  BY <1>1, <1>2
<1>5. PICK k \in T : \A i \in T : k <= i
  <2>1. T \subseteq Nat /\ T # {}
    BY <1>1, <1>4
  <2> HIDE DEF T
  <2> QED
    BY <2>1, LeastNatural
<1>6. k \in a + 1 .. Len(w) /\ ~P(k) /\ k \in 1 .. Len(w) /\ a < k
  BY <1>5, <1>1
<1>7. FieldsOf(big, w, a, k) = FieldsOf(big, w, a, k - 1) \o FieldBytes(big, w[k])
  BY <1>6, FieldsOfLast
<1>8. CASE k = a + 1
  <2>1. FieldsOf(big, w, a, a) = << >> /\ FieldsOf(big, w, a + 1, a + 1) = << >>
    BY <1>1, FieldsOfEmpty
  <2> QED
    BY <1>3, <1>6, <1>7, <1>8, <2>1, ConcatEmptySeq
<1>9. CASE k # a + 1
  <2>1. k - 1 \in a + 1 .. Len(w) /\ ~(k <= k - 1)
    BY <1>1, <1>6, <1>9
  <2>2. P(k - 1)
    <3>1. k - 1 \notin T
      <4> HIDE DEF T
      <4> QED
        BY <2>1, <1>5
    <3> QED
      BY <2>1, <3>1
  <2>3. k \in 1 .. Len(w) /\ a + 1 \in Nat /\ a + 1 < k /\ k - 1 \in 0 .. Len(w)
    BY <1>1, <1>6, <1>9
  <2>4. FieldsOf(big, w, a + 1, k) = FieldsOf(big, w, a + 1, k - 1) \o FieldBytes(big, w[k]) /\ w[k] \in Fields
    BY <2>3, FieldsOfLast
  <2>5. FieldsOf(big, w, a + 1, k - 1) \in Seq(Byte) /\ FieldBytes(big, w[k]) \in Seq(Byte)
    BY <2>3, <2>4, FieldsOfType, FieldBytesType
  <2> DEFINE x == FieldBytes(big, w[a + 1])
             y == FieldsOf(big, w, a + 1, k - 1)
             z == FieldBytes(big, w[k])
  <2>6. (x \o y) \o z = x \o (y \o z)
    <3>1. x \in Seq(Byte) /\ y \in Seq(Byte) /\ z \in Seq(Byte)
      BY <1>3, <2>5
    <3> HIDE DEF x, y, z
    <3> QED
      BY <3>1, BytesAssociative DEF Assoc
  <2>7. P(k)
    BY <1>7, <2>2, <2>4, <2>6, Zenon
  <2> QED
    BY <2>7, <1>6
<1> QED
  BY <1>8, <1>9

LEMMA FieldsOfSame ==
  ASSUME NEW big, NEW w \in Seq(Fields), NEW v \in Seq(Fields), NEW a \in Nat,
         NEW b \in Nat, b <= Len(w), b <= Len(v), \A i \in 1 .. b : w[i] = v[i]
  PROVE  FieldsOf(big, w, a, b) = FieldsOf(big, v, a, b)
<1> DEFINE s == SubSeq(w, a + 1, b)
           t == SubSeq(v, a + 1, b)
<1>1. Len(w) \in Nat /\ Len(v) \in Nat
  BY LenProperties
<1>2. /\ s \in Seq(Fields) /\ Len(s) = (IF a <= b THEN b - a ELSE 0)
      /\ \A i \in 1 .. b - a : s[i] = w[a + i]
  BY <1>1, PieceType
<1>3. /\ t \in Seq(Fields) /\ Len(t) = (IF a <= b THEN b - a ELSE 0)
      /\ \A i \in 1 .. b - a : t[i] = v[a + i]
  BY <1>1, PieceType
<1> HIDE DEF s, t
<1>4. \A i \in 1 .. Len(s) : s[i] = t[i]
  BY <1>2, <1>3
<1>5. s = t
  BY <1>2, <1>3, <1>4, SeqEqual
<1> QED
  BY <1>5 DEF FieldsOf, s, t

\* A prefix, element by element.
Prefix(w, t) == Len(w) <= Len(t) /\ \A i \in 1 .. Len(w) : w[i] = t[i]

LEMMA PrefixIs ==
  ASSUME NEW w \in Seq(Fields), NEW t \in Seq(Fields), Len(w) <= Len(t)
  PROVE  w = SubSeq(t, 1, Len(w)) <=> Prefix(w, t)
<1> DEFINE n == Len(w)
           p == SubSeq(t, 1, n)
<1>1. n \in Nat /\ Len(t) \in Nat
  BY LenProperties
<1>2. \A i \in 1 .. n : t[i] \in Fields
  BY <1>1, ElementOfSeq
<1>3. p \in Seq(Fields) /\ Len(p) = n /\ \A i \in 1 .. n : p[i] = t[i]
  <2>1. /\ p \in Seq(Fields) /\ Len(p) = IF 1 <= n THEN n - 1 + 1 ELSE 0
        /\ \A i \in 1 .. n - 1 + 1 : p[i] = t[1 + i - 1]
    BY <1>1, <1>2, SubSeqProperties
  <2> HIDE DEF p
  <2> QED
    BY <1>1, <2>1
<1> HIDE DEF p
<1>4. ASSUME Prefix(w, t) PROVE w = p
  <2>1. \A i \in 1 .. Len(w) : w[i] = p[i]
    BY <1>3, <1>4 DEF Prefix
  <2> QED
    BY <1>3, <2>1, SeqEqual
<1>5. ASSUME w = p PROVE Prefix(w, t)
  BY <1>3, <1>5 DEF Prefix
<1> QED
  BY <1>4, <1>5 DEF p

-----------------------------------------------------------------------------
(* The invariant of the builder: what a buffer holds are the fields between *)
(* two marks, and only the handler begins another buffer, never an empty    *)
(* one.                                                                     *)

BytesOK ==
  /\ bigendian \in BOOLEAN /\ handler \in BOOLEAN /\ pb_ok \in BOOLEAN
  /\ built \in Seq(Byte) /\ Len(built) <= Capacity
  /\ flushed \in Seq(Seq(Byte))
  /\ \A c \in 1 .. Len(flushed) : Len(flushed[c]) <= Capacity /\ flushed[c] # << >>
  /\ handler \/ Len(flushed) = 0

MarksOK ==
  /\ tried \in Seq(Fields) /\ written \in Seq(Fields)
  /\ marks \in Seq(Nat) /\ Len(marks) = Len(flushed) + 1
  /\ marks[1] = 0
  /\ marks[Len(marks)] <= Len(written)
  /\ \A c \in 1 .. Len(marks) : marks[c] <= marks[Len(marks)]
  /\ \A c \in 1 .. Len(flushed) : marks[c] <= marks[c + 1]

Whole ==
  /\ \A c \in 1 .. Len(flushed) : flushed[c] = FieldsOf(bigendian, written, marks[c], marks[c + 1])
  /\ built = FieldsOf(bigendian, written, marks[Len(marks)], Len(written))

Taken == Prefix(written, tried) /\ (pb_ok => written = tried)

BuilderInv == BytesOK /\ MarksOK /\ Whole /\ Taken

LEMMA BuilderStart == PbInit => BuilderInv
<1> SUFFICES ASSUME PbInit PROVE BuilderInv
  OBVIOUS
<1>1. /\ built = << >> /\ flushed = << >> /\ tried = << >> /\ written = << >> /\ marks = <<0>>
      /\ bigendian \in BOOLEAN /\ handler \in BOOLEAN /\ pb_ok = TRUE
  BY DEF PbInit
<1>2. Len(<< >>) = 0 /\ << >> \in Seq(Byte) /\ << >> \in Seq(Seq(Byte)) /\ << >> \in Seq(Fields)
  BY EmptySeq
<1>3. <<0>> \in Seq(Nat) /\ Len(<<0>>) = 1 /\ <<0>>[1] = 0
  OBVIOUS
<1>4. FieldsOf(bigendian, << >>, 0, 0) = << >>
  BY FieldsOfEmpty
<1>5. BytesOK
  BY <1>1, <1>2, BuilderAssumption DEF BytesOK
<1>6. MarksOK
  BY <1>1, <1>2, <1>3 DEF MarksOK
<1>7. Whole
  BY <1>1, <1>2, <1>3, <1>4 DEF Whole
<1>8. Taken
  BY <1>1, <1>2 DEF Taken, Prefix
<1> QED
  BY <1>5, <1>6, <1>7, <1>8 DEF BuilderInv

LEMMA MarksAre ==
  ASSUME BytesOK, MarksOK
  PROVE  /\ Len(marks) \in Nat \ {0} /\ Len(flushed) \in Nat /\ Len(marks) = Len(flushed) + 1
         /\ Len(written) \in Nat
         /\ \A c \in 1 .. Len(marks) : marks[c] \in 0 .. Len(written)
         /\ \A c \in 1 .. Len(flushed) : c \in 1 .. Len(marks) /\ c + 1 \in 1 .. Len(marks)
<1>1. /\ Len(marks) \in Nat \ {0} /\ Len(flushed) \in Nat /\ Len(marks) = Len(flushed) + 1
      /\ Len(written) \in Nat
  BY LenProperties DEF BytesOK, MarksOK
<1>2. \A c \in 1 .. Len(marks) : marks[c] \in Nat
  BY <1>1, ElementOfSeq DEF MarksOK
<1>3. \A c \in 1 .. Len(marks) : marks[c] <= marks[Len(marks)]
  BY DEF MarksOK
<1>4. Len(marks) \in 1 .. Len(marks) /\ marks[Len(marks)] <= Len(written)
  BY <1>1 DEF MarksOK
<1>5. \A c \in 1 .. Len(marks) : marks[c] \in 0 .. Len(written)
  BY <1>1, <1>2, <1>3, <1>4
<1> QED
  BY <1>1, <1>5

LEMMA WriteStep ==
  ASSUME BuilderInv, NEW f \in Fields, PbWrite(f)
  PROVE  BuilderInv'
<1>1. PICK s : s = FieldBytes(bigendian, f)
  OBVIOUS
<1>2. PICK n : n = Len(s)
  OBVIOUS
<1>3. s \in Seq(Byte) /\ n \in Nat /\ Capacity \in Nat
  BY <1>1, <1>2, FieldBytesType, LenProperties, BuilderAssumption
<1>4. PICK good \in BOOLEAN : good = (pb_ok /\ Fits(n))
  BY DEF BuilderInv, BytesOK
<1>5. PICK r : r = IF good THEN s ELSE << >>
  OBVIOUS
<1>6. r \in Seq(Byte) /\ (good => Len(r) = n) /\ (~good => r = << >>)
  BY <1>2, <1>3, <1>5, EmptySeq
<1>7. /\ pb_ok' = (pb_ok /\ Fits(n))
      /\ flushed' = IF Helped(n) THEN Append(flushed, built) ELSE flushed
      /\ marks' = IF Helped(n) THEN Append(marks, Len(written)) ELSE marks
      /\ built' = (IF Helped(n) THEN << >> ELSE built) \o r
      /\ written' = IF good THEN Append(written, f) ELSE written
      /\ tried' = Append(tried, f)
      /\ bigendian' = bigendian /\ handler' = handler
  BY <1>1, <1>2, <1>4, <1>5 DEF PbWrite, PbPut
<1>8. /\ BytesOK /\ MarksOK /\ Whole /\ Taken
      /\ Len(written) \in Nat /\ Len(marks) \in Nat /\ Len(flushed) \in Nat
      /\ Len(built) \in Nat /\ Len(tried) \in Nat
  BY LenProperties DEF BuilderInv, BytesOK, MarksOK
<1>9. /\ written' \in Seq(Fields)
      /\ Len(written') = Len(written) + (IF good THEN 1 ELSE 0)
      /\ \A i \in 1 .. Len(written) : written'[i] = written[i]
      /\ good => written'[Len(written) + 1] = f
  BY <1>7, <1>8, AppendProperties DEF MarksOK
<1>10. /\ tried' \in Seq(Fields) /\ Len(tried') = Len(tried) + 1
       /\ \A i \in 1 .. Len(tried) : tried'[i] = tried[i]
  BY <1>7, <1>8, AppendProperties DEF MarksOK
<1>11. ASSUME NEW a \in Nat, NEW b \in 0 .. Len(written)
       PROVE  FieldsOf(bigendian, written', a, b) = FieldsOf(bigendian, written, a, b)
  <2>1. /\ written \in Seq(Fields) /\ b \in Nat /\ b <= Len(written) /\ b <= Len(written')
        /\ \A i \in 1 .. b : written'[i] = written[i]
    BY <1>8, <1>9 DEF MarksOK
  <2> QED
    BY <1>9, <2>1, FieldsOfSame
\* The new bytes are those of the new field, if there is one.
<1>12. ASSUME NEW a \in 0 .. Len(written)
       PROVE  FieldsOf(bigendian, written', a, Len(written')) = FieldsOf(bigendian, written, a, Len(written)) \o r
  <2>1. FieldsOf(bigendian, written', a, Len(written)) = FieldsOf(bigendian, written, a, Len(written))
    BY <1>8, <1>11
  <2>2. FieldsOf(bigendian, written, a, Len(written)) \in Seq(Byte)
    BY <1>8, FieldsOfType DEF MarksOK
  <2>3. CASE good
    <3>1. Len(written') = Len(written) + 1 /\ Len(written') \in 1 .. Len(written')
          /\ a < Len(written') /\ a \in Nat
      BY <1>8, <1>9, <2>3
    <3>2. FieldsOf(bigendian, written', a, Len(written'))
            = FieldsOf(bigendian, written', a, Len(written') - 1) \o FieldBytes(bigendian, written'[Len(written')])
      BY <1>9, <3>1, FieldsOfLast
    <3>3. Len(written') - 1 = Len(written) /\ written'[Len(written')] = f
      BY <1>8, <1>9, <3>1, <2>3
    <3> QED
      BY <3>2, <3>3, <2>1, <2>3, <1>1, <1>5
  <2>4. CASE ~good
    BY <2>1, <2>2, <2>4, <1>6, <1>8, <1>9, ConcatEmptySeq
  <2> QED
    BY <2>3, <2>4
<1>13. Taken'
  <2>1. pb_ok' <=> good
    BY <1>4, <1>7
  <2>2. CASE good
    <3>1. written = tried
      BY <1>4, <1>8, <2>2 DEF Taken
    <3>2. written' = tried'
      BY <1>7, <2>2, <3>1
    <3> QED
      BY <3>2, <1>10, <1>8 DEF Taken, Prefix
  <2>3. CASE ~good
    <3>1. written' = written /\ Prefix(written, tried)
      BY <1>7, <1>8, <2>3 DEF Taken
    <3>2. Prefix(written, tried')
      BY <3>1, <1>8, <1>10 DEF Prefix
    <3> QED
      BY <2>1, <2>3, <3>1, <3>2 DEF Taken
  <2> QED
    BY <2>2, <2>3
<1>14. CASE Helped(n)
  <2>1. handler /\ n <= Capacity /\ Len(built) + n > Capacity
    BY <1>14 DEF Helped, Full
  <2>2. /\ flushed' = Append(flushed, built) /\ marks' = Append(marks, Len(written))
        /\ built' = r
    BY <1>14, <1>6, <1>7, ConcatEmptySeq
  <2>3. /\ flushed' \in Seq(Seq(Byte)) /\ Len(flushed') = Len(flushed) + 1
        /\ \A c \in 1 .. Len(flushed) : flushed'[c] = flushed[c]
        /\ flushed'[Len(flushed) + 1] = built
    BY <2>2, <1>8, AppendProperties DEF BytesOK
  <2>4. /\ marks' \in Seq(Nat) /\ Len(marks') = Len(marks) + 1
        /\ \A c \in 1 .. Len(marks) : marks'[c] = marks[c]
        /\ marks'[Len(marks) + 1] = Len(written)
    BY <2>2, <1>8, AppendProperties DEF MarksOK
  <2>5. BytesOK'
    <3>1. built # << >>
      BY <2>1, <1>3, EmptySeq
    <3>2. Len(r) <= Capacity
      BY <2>1, <1>3, <1>6, EmptySeq
    <3>3. ASSUME NEW c \in 1 .. Len(flushed')
          PROVE  Len(flushed'[c]) <= Capacity /\ flushed'[c] # << >>
      <4>1. CASE c = Len(flushed) + 1
        BY <4>1, <3>1, <2>3, <1>8 DEF BytesOK
      <4>2. CASE c # Len(flushed) + 1
        <5>1. c \in 1 .. Len(flushed)
          BY <4>2, <2>3, <1>8
        <5>2. flushed'[c] = flushed[c]
          BY <5>1, <2>3
        <5> QED
          BY <5>1, <5>2, <1>8 DEF BytesOK
      <4> QED
        BY <4>1, <4>2
    <3>4. pb_ok' \in BOOLEAN
      BY <1>7, <1>8 DEF BytesOK
    <3> QED
      BY <3>2, <3>3, <3>4, <2>1, <2>2, <2>3, <1>6, <1>7, <1>8 DEF BytesOK
  <2>6. MarksOK'
    <3>1. marks'[1] = 0
      BY <2>4, <1>8 DEF MarksOK
    <3>2. ASSUME NEW c \in 1 .. Len(marks') PROVE marks'[c] <= Len(written)
      <4>1. CASE c = Len(marks) + 1
        BY <4>1, <2>4, <1>8
      <4>2. CASE c # Len(marks) + 1
        <5>1. c \in 1 .. Len(marks)
          BY <4>2, <2>4, <1>8
        <5> QED
          BY <5>1, <2>4, <1>8, MarksAre
      <4> QED
        BY <4>1, <4>2
    <3>4. marks'[Len(marks')] = Len(written) /\ Len(written) <= Len(written')
      BY <2>4, <1>8, <1>9
    <3>3. ASSUME NEW c \in 1 .. Len(flushed') PROVE marks'[c] <= marks'[c + 1]
      <4>0. Len(marks) = Len(flushed) + 1
        BY <1>8 DEF MarksOK
      <4>1. CASE c = Len(flushed) + 1
        <5>1. c \in 1 .. Len(marks) /\ c = Len(marks) /\ marks[c] <= Len(written)
          BY <4>0, <4>1, <1>8, MarksAre
        <5>2. marks'[c] = marks[c] /\ marks'[c + 1] = Len(written)
          BY <5>1, <2>4
        <5> QED
          BY <5>1, <5>2
      <4>2. CASE c # Len(flushed) + 1
        <5>1. c \in 1 .. Len(flushed)
          BY <4>2, <2>3, <1>8
        <5>2. c \in 1 .. Len(marks) /\ c + 1 \in 1 .. Len(marks)
          BY <5>1, <1>8, MarksAre
        <5>3. marks'[c] = marks[c] /\ marks'[c + 1] = marks[c + 1]
          BY <5>2, <2>4
        <5> QED
          BY <5>1, <5>3, <1>8 DEF MarksOK
      <4> QED
        BY <4>1, <4>2
    <3> QED
      BY <3>1, <3>2, <3>3, <3>4, <2>3, <2>4, <1>8, <1>9, <1>10 DEF MarksOK
  <2>7. Whole'
    <3>1. ASSUME NEW c \in 1 .. Len(flushed')
          PROVE  flushed'[c] = FieldsOf(bigendian, written', marks'[c], marks'[c + 1])
      <4>1. CASE c \in 1 .. Len(flushed)
        <5>1. flushed'[c] = flushed[c] /\ marks'[c] = marks[c] /\ marks'[c + 1] = marks[c + 1]
          <6>1. Len(marks) = Len(flushed) + 1
            BY <1>8 DEF MarksOK
          <6>2. c \in 1 .. Len(marks) /\ c + 1 \in 1 .. Len(marks)
            BY <6>1, <4>1, <1>8
          <6> QED
            BY <4>1, <6>2, <2>3, <2>4
        <5>2. marks[c] \in Nat /\ marks[c + 1] \in 0 .. Len(written)
          BY <4>1, <1>8, MarksAre
        <5> QED
          BY <4>1, <5>1, <5>2, <1>8, <1>11 DEF Whole
      <4>2. CASE c = Len(flushed) + 1
        <5>1. /\ flushed'[c] = built /\ marks'[c] = marks[Len(marks)]
              /\ marks'[c + 1] = Len(written)
          BY <4>2, <2>3, <2>4, <1>8 DEF MarksOK
        <5>2. marks[Len(marks)] \in Nat
          BY <1>8, ElementOfSeq DEF MarksOK
        <5> QED
          BY <5>1, <5>2, <1>8, <1>11 DEF Whole
      <4> QED
        BY <4>1, <4>2, <2>3, <1>8
    <3>2. built' = FieldsOf(bigendian, written', marks'[Len(marks')], Len(written'))
      <4>1. marks'[Len(marks')] = Len(written)
        BY <2>4
      <4>2. FieldsOf(bigendian, written, Len(written), Len(written)) = << >>
        BY <1>8, FieldsOfEmpty
      <4>3. << >> \o r = r
        BY <1>6, ConcatEmptySeq
      <4>4. FieldsOf(bigendian, written', Len(written), Len(written'))
              = FieldsOf(bigendian, written, Len(written), Len(written)) \o r
        <5>1. Len(written) \in 0 .. Len(written)
          BY <1>8
        <5> QED
          BY <5>1, <1>12
      <4> QED
        BY <4>1, <4>2, <4>3, <4>4, <2>2
    <3> QED
      BY <3>1, <3>2, <1>7 DEF Whole
  <2> QED
    BY <1>13, <2>5, <2>6, <2>7 DEF BuilderInv
<1>15. CASE ~Helped(n)
  <2>1. flushed' = flushed /\ marks' = marks /\ built' = built \o r
    BY <1>15, <1>7
  <2>2. BytesOK'
    <3>1. built' \in Seq(Byte) /\ Len(built') = Len(built) + Len(r)
      BY <2>1, <1>6, <1>8, ConcatProperties DEF BytesOK
    <3>2. good => Len(built) + n <= Capacity
      <4>1. good => ~Full(n)
        BY <1>15, <1>4 DEF Fits
      <4> QED
        BY <4>1, <1>3, <1>8 DEF Full
    <3>3. Len(built') <= Capacity
      BY <3>1, <3>2, <1>6, <1>8, EmptySeq DEF BytesOK
    <3>4. pb_ok' \in BOOLEAN
      BY <1>7, <1>8 DEF BytesOK
    <3> QED
      BY <3>1, <3>3, <3>4, <2>1, <1>7, <1>8 DEF BytesOK
  <2>3. MarksOK'
    <3>1. marks[Len(marks)] <= Len(written')
      <4>1. marks[Len(marks)] \in 0 .. Len(written)
        BY <1>8, MarksAre
      <4> QED
        BY <4>1, <1>8, <1>9
    <3> QED
      BY <3>1, <2>1, <1>8, <1>9, <1>10 DEF MarksOK
  <2>4. Whole'
    <3>1. ASSUME NEW c \in 1 .. Len(flushed)
          PROVE  flushed[c] = FieldsOf(bigendian, written', marks[c], marks[c + 1])
      <4>1. marks[c] \in Nat /\ marks[c + 1] \in 0 .. Len(written)
        BY <1>8, MarksAre
      <4> QED
        BY <4>1, <1>8, <1>11 DEF Whole
    <3>2. marks[Len(marks)] \in 0 .. Len(written)
      BY <1>8, ElementOfSeq DEF MarksOK
    <3>3. built' = FieldsOf(bigendian, written', marks[Len(marks)], Len(written'))
      BY <3>2, <2>1, <1>8, <1>12 DEF Whole
    <3> QED
      BY <3>1, <3>3, <2>1, <1>7 DEF Whole
  <2> QED
    BY <1>13, <2>2, <2>3, <2>4 DEF BuilderInv
<1> QED
  BY <1>14, <1>15

\* What pb_rewind forgets are the fields after the last mark.
LEMMA RewindStep ==
  ASSUME BuilderInv, PbRewind
  PROVE  BuilderInv'
<1>1. PICK kept : kept = marks[Len(marks)]
  OBVIOUS
<1>2. /\ built' = << >>
      /\ written' = SubSeq(written, 1, kept) /\ tried' = SubSeq(tried, 1, kept)
      /\ bigendian' = bigendian /\ handler' = handler /\ pb_ok' = pb_ok
      /\ flushed' = flushed /\ marks' = marks
  BY <1>1 DEF PbRewind
<1>3. BytesOK /\ MarksOK /\ Whole /\ Taken
  BY DEF BuilderInv
<1>4. /\ Len(marks) \in Nat \ {0} /\ Len(flushed) \in Nat /\ Len(marks) = Len(flushed) + 1
      /\ Len(written) \in Nat /\ kept \in 0 .. Len(written)
  <2>1. Len(marks) \in 1 .. Len(marks)
    BY <1>3, MarksAre
  <2> QED
    BY <2>1, <1>1, <1>3, MarksAre
<1>5. kept \in 0 .. Len(tried) /\ Len(tried) \in Nat
  <2>1. Len(tried) \in Nat /\ Len(written) <= Len(tried)
    BY <1>3, LenProperties DEF MarksOK, Taken, Prefix
  <2> QED
    BY <2>1, <1>4
<1>6. /\ written' \in Seq(Fields) /\ Len(written') = kept
      /\ \A i \in 1 .. kept : written'[i] = written[i]
  <2>1. written \in Seq(Fields) /\ 0 \in Nat /\ kept \in 0 .. Len(written)
    BY <1>3, <1>4 DEF MarksOK
  <2>2. /\ SubSeq(written, 0 + 1, kept) \in Seq(Fields)
        /\ Len(SubSeq(written, 0 + 1, kept)) = IF 0 <= kept THEN kept - 0 ELSE 0
        /\ \A i \in 1 .. kept - 0 : SubSeq(written, 0 + 1, kept)[i] = written[0 + i]
    BY <2>1, PieceType
  <2> QED
    BY <2>2, <1>2, <1>4
<1>7. /\ tried' \in Seq(Fields) /\ Len(tried') = kept
      /\ \A i \in 1 .. kept : tried'[i] = tried[i]
  <2>1. tried \in Seq(Fields) /\ 0 \in Nat /\ kept \in 0 .. Len(tried)
    BY <1>3, <1>5 DEF MarksOK
  <2>2. /\ SubSeq(tried, 0 + 1, kept) \in Seq(Fields)
        /\ Len(SubSeq(tried, 0 + 1, kept)) = IF 0 <= kept THEN kept - 0 ELSE 0
        /\ \A i \in 1 .. kept - 0 : SubSeq(tried, 0 + 1, kept)[i] = tried[0 + i]
    BY <2>1, PieceType
  <2> QED
    BY <2>2, <1>2, <1>4
<1>8. BytesOK'
  BY <1>2, <1>3, EmptySeq, BuilderAssumption DEF BytesOK
<1>9. MarksOK'
  BY <1>1, <1>2, <1>3, <1>4, <1>6, <1>7 DEF MarksOK
<1>10. Whole'
  <2>1. ASSUME NEW c \in 1 .. Len(flushed)
        PROVE  flushed[c] = FieldsOf(bigendian, written', marks[c], marks[c + 1])
    <3>1. marks[c] \in Nat /\ marks[c + 1] \in Nat /\ marks[c + 1] <= kept
      BY <1>1, <1>3, MarksAre DEF MarksOK
    <3>2. /\ written \in Seq(Fields) /\ marks[c + 1] <= Len(written')
          /\ marks[c + 1] <= Len(written)
          /\ \A i \in 1 .. marks[c + 1] : written'[i] = written[i]
      <4>1. written \in Seq(Fields)
        BY <1>3 DEF MarksOK
      <4>2. marks[c + 1] <= Len(written') /\ marks[c + 1] <= Len(written)
        BY <3>1, <1>4, <1>6
      <4>3. ASSUME NEW i \in 1 .. marks[c + 1] PROVE written'[i] = written[i]
        <5>1. i \in 1 .. kept
          BY <3>1, <1>4
        <5> QED
          BY <5>1, <1>6
      <4> QED
        BY <4>1, <4>2, <4>3
    <3>3. FieldsOf(bigendian, written', marks[c], marks[c + 1])
            = FieldsOf(bigendian, written, marks[c], marks[c + 1])
      BY <3>1, <3>2, <1>6, FieldsOfSame
    <3> QED
      BY <3>3, <1>3 DEF Whole
  <2>2. FieldsOf(bigendian, written', kept, kept) = << >>
    BY <1>4, FieldsOfEmpty
  <2> QED
    BY <2>1, <2>2, <1>1, <1>2, <1>6 DEF Whole
<1>11. Taken'
  <2>1. Prefix(written', tried')
    <3>1. \A i \in 1 .. kept : written[i] = tried[i]
      BY <1>3, <1>4 DEF Taken, Prefix
    <3> QED
      BY <3>1, <1>6, <1>7, <1>4 DEF Prefix
  <2>2. pb_ok' => written' = tried'
    BY <1>2, <1>3 DEF Taken
  <2> QED
    BY <2>1, <2>2 DEF Taken
<1> QED
  BY <1>8, <1>9, <1>10, <1>11 DEF BuilderInv

LEMMA BuilderStep ==
  ASSUME BuilderInv, PbNext
  PROVE  BuilderInv'
BY WriteStep, RewindStep DEF PbNext

LEMMA BuilderStays ==
  ASSUME BuilderInv, UNCHANGED pbVars
  PROVE  BuilderInv'
BY DEF BuilderInv, BytesOK, MarksOK, Whole, Taken, pbVars

-----------------------------------------------------------------------------
(* The buffers as the parser sees them.                                     *)

LEMMA BuffersAre ==
  ASSUME BuilderInv, NEW c \in 1 .. Len(marks)
  PROVE  /\ DOMAIN Buffers = 1 .. Len(marks) /\ Len(Buffers) = Len(marks)
         /\ Len(marks) \in Nat \ {0} /\ Len(written) \in Nat /\ written \in Seq(Fields)
         /\ Buffers[c] \in Seq(Byte) /\ Len(Buffers[c]) \in Nat /\ Len(Buffers[c]) <= Capacity
         /\ FieldsTo(c) \in 0 .. Len(written) /\ marks[c] \in 0 .. FieldsTo(c)
         /\ Buffers[c] = FieldsOf(bigendian, written, marks[c], FieldsTo(c))
         /\ c < Len(marks) => FieldsTo(c) = marks[c + 1] /\ Buffers[c] # << >>
         /\ handler \/ Len(marks) = 1
<1>1. BytesOK /\ MarksOK /\ Whole
  BY DEF BuilderInv
<1>2. /\ Len(marks) \in Nat \ {0} /\ Len(flushed) \in Nat /\ Len(marks) = Len(flushed) + 1
      /\ Len(written) \in Nat
      /\ \A d \in 1 .. Len(marks) : marks[d] \in 0 .. Len(written)
  BY <1>1, MarksAre
<1>3. /\ Buffers \in Seq(Seq(Byte)) /\ Len(Buffers) = Len(marks)
      /\ \A d \in 1 .. Len(flushed) : Buffers[d] = flushed[d]
      /\ Buffers[Len(marks)] = built
  BY <1>1, <1>2, AppendProperties DEF BytesOK, Buffers
<1>4. DOMAIN Buffers = 1 .. Len(marks)
  BY <1>3, LenProperties
<1>5. /\ written \in Seq(Fields) /\ (handler \/ Len(marks) = 1)
  BY <1>1, <1>2 DEF MarksOK, BytesOK
<1>6. CASE c = Len(marks)
  <2>1. FieldsTo(c) = Len(written) /\ Buffers[c] = built
    BY <1>3, <1>6 DEF FieldsTo
  <2>2. built \in Seq(Byte) /\ Len(built) \in Nat /\ Len(built) <= Capacity
    BY <1>1, LenProperties DEF BytesOK
  <2>3. built = FieldsOf(bigendian, written, marks[c], Len(written))
    BY <1>1, <1>6 DEF Whole
  <2> QED
    BY <2>1, <2>2, <2>3, <1>2, <1>3, <1>4, <1>5, <1>6
<1>7. CASE c # Len(marks)
  <2>1. c \in 1 .. Len(flushed) /\ c + 1 \in 1 .. Len(marks)
    BY <1>2, <1>7
  <2>2. FieldsTo(c) = marks[c + 1] /\ Buffers[c] = flushed[c]
    BY <2>1, <1>3, <1>7 DEF FieldsTo
  <2>3. flushed[c] \in Seq(Byte) /\ flushed[c] # << >> /\ Len(flushed[c]) <= Capacity
    BY <2>1, <1>1, ElementOfSeq DEF BytesOK
  <2>4. Len(flushed[c]) \in Nat
    BY <2>3, LenProperties
  <2>5. marks[c] <= marks[c + 1] /\ flushed[c] = FieldsOf(bigendian, written, marks[c], marks[c + 1])
    BY <2>1, <1>1 DEF MarksOK, Whole
  <2> QED
    BY <2>1, <2>2, <2>3, <2>4, <2>5, <1>2, <1>3, <1>4, <1>5
<1> QED
  BY <1>6, <1>7

(* Where a reader is, and that it is at the field after those it got: the   *)
(* rest of its buffer are the fields up to the buffer's end; and once it is *)
(* past the last of them, with fields that have no bytes perhaps, the next  *)
(* buffer begins with the field after those it got.                         *)

RestAt(l, p) == SubSeq(Buffers[l], p + 1, Len(Buffers[l]))

Reading(l, p, g) ==
  /\ l \in 1 .. Len(marks) /\ p \in 0 .. Len(Buffers[l])
  /\ g \in Seq(Fields) /\ Prefix(g, written)

Placed(l, p, g) ==
  /\ RestAt(l, p) = FieldsOf(bigendian, written, Len(g), FieldsTo(l))
  /\ l < Len(marks) /\ FieldsTo(l) <= Len(g)
       => Buffers[l + 1] = FieldsOf(bigendian, written, Len(g), FieldsTo(l + 1))

LEMMA RestAtType ==
  ASSUME BuilderInv, NEW l \in 1 .. Len(marks), NEW p \in 0 .. Len(Buffers[l])
  PROVE  /\ RestAt(l, p) \in Seq(Byte) /\ Len(RestAt(l, p)) = Len(Buffers[l]) - p
         /\ Len(RestAt(l, p)) \in Nat
         /\ \A i \in 1 .. Len(Buffers[l]) - p : RestAt(l, p)[i] = Buffers[l][p + i]
<1> DEFINE b == Buffers[l]
           n == Len(b)
<1>1. b \in Seq(Byte) /\ n \in Nat
  BY BuffersAre
<1> HIDE DEF b
<1>2. p \in Nat /\ p <= n
  BY <1>1 DEF b
<1>3. \A i \in p + 1 .. n : b[i] \in Byte
  BY <1>1, <1>2, ElementOfSeq
<1>4. /\ SubSeq(b, p + 1, n) \in Seq(Byte)
      /\ Len(SubSeq(b, p + 1, n)) = IF p + 1 <= n THEN n - (p + 1) + 1 ELSE 0
      /\ \A i \in 1 .. n - (p + 1) + 1 : SubSeq(b, p + 1, n)[i] = b[p + 1 + i - 1]
  BY <1>1, <1>2, <1>3, SubSeqProperties
<1>5. /\ SubSeq(b, p + 1, n) \in Seq(Byte) /\ Len(SubSeq(b, p + 1, n)) = n - p
      /\ \A i \in 1 .. n - p : SubSeq(b, p + 1, n)[i] = b[p + i]
  BY <1>1, <1>2, <1>4
<1> QED
  BY <1>1, <1>2, <1>5 DEF RestAt, b

\* The rest of a buffer in two, named so that an instance is easy to cite.
Splits(l, p, s, t) ==
  /\ l \in 1 .. Len(marks) /\ p \in 0 .. Len(Buffers[l])
  /\ s \in Seq(Byte) /\ t \in Seq(Byte) /\ RestAt(l, p) = s \o t

LEMMA RestFurther ==
  ASSUME BuilderInv, NEW l, NEW p, NEW s, NEW t, Splits(l, p, s, t)
  PROVE  /\ p + Len(s) \in 0 .. Len(Buffers[l])
         /\ RestAt(l, p + Len(s)) = t /\ SubSeq(RestAt(l, p), 1, Len(s)) = s
         /\ Len(s) <= Len(RestAt(l, p))
<1> DEFINE b == Len(Buffers[l])
           n == Len(s)
           r == RestAt(l, p)
           u == RestAt(l, p + n)
           v == SubSeq(r, 1, n)
<1>0. /\ l \in 1 .. Len(marks) /\ p \in 0 .. Len(Buffers[l])
      /\ s \in Seq(Byte) /\ t \in Seq(Byte) /\ r = s \o t
  BY DEF Splits
<1>1. n \in Nat /\ Len(t) \in Nat /\ b \in Nat
  BY <1>0, LenProperties, BuffersAre
<1>2. /\ r \in Seq(Byte) /\ Len(r) = b - p /\ Len(r) \in Nat
      /\ \A i \in 1 .. b - p : r[i] = Buffers[l][p + i]
  BY <1>0, RestAtType
<1>3. /\ Len(r) = n + Len(t)
      /\ \A i \in 1 .. n + Len(t) : r[i] = IF i <= n THEN s[i] ELSE t[i - n]
  BY <1>0, ConcatProperties
<1> HIDE DEF r
<1>4. p + n \in 0 .. b
  BY <1>0, <1>1, <1>2, <1>3
<1>5. /\ u \in Seq(Byte) /\ Len(u) = b - (p + n)
      /\ \A i \in 1 .. b - (p + n) : u[i] = Buffers[l][p + n + i]
  BY <1>0, <1>4, RestAtType
<1> HIDE DEF u
<1>6. u = t
  <2>1. Len(u) = Len(t)
    BY <1>0, <1>1, <1>2, <1>3, <1>5
  <2>2. ASSUME NEW i \in 1 .. Len(u) PROVE u[i] = t[i]
    <3>1. u[i] = Buffers[l][p + n + i] /\ n + i \in 1 .. b - p /\ n + i \in 1 .. n + Len(t)
      BY <1>0, <1>1, <1>2, <1>3, <1>5, <2>1
    <3>2. r[n + i] = Buffers[l][p + (n + i)] /\ p + (n + i) = p + n + i
      <4>1. r[n + i] = Buffers[l][p + (n + i)]
        BY <3>1, <1>2
      <4>2. p \in Int /\ n \in Int /\ i \in Int
        BY <1>0, <1>1
      <4> QED
        BY <4>1, <4>2
    <3>3. r[n + i] = t[i]
      BY <3>1, <1>0, <1>1, <1>3
    <3> QED
      BY <3>1, <3>2, <3>3
  <2> QED
    BY <1>0, <1>5, <2>1, <2>2, SeqEqual
<1>7. v = s
  <2>1. \A i \in 1 .. n : r[i] \in Byte
    BY <1>0, <1>1, <1>2, <1>3, ElementOfSeq
  <2>2. /\ v \in Seq(Byte) /\ Len(v) = IF 1 <= n THEN n - 1 + 1 ELSE 0
        /\ \A i \in 1 .. n - 1 + 1 : v[i] = r[1 + i - 1]
    BY <1>1, <2>1, SubSeqProperties
  <2> HIDE DEF v
  <2>3. Len(v) = n /\ \A i \in 1 .. Len(v) : v[i] = s[i]
    BY <1>1, <1>3, <2>2
  <2> QED
    BY <1>0, <2>2, <2>3, SeqEqual
<1> QED
  BY <1>1, <1>2, <1>3, <1>4, <1>6, <1>7 DEF r, u, v

\* One more field is got.
LEMMA GotOneMore ==
  ASSUME BuilderInv, NEW g \in Seq(Fields), Prefix(g, written), Len(g) < Len(written),
         NEW f, f = written[Len(g) + 1]
  PROVE  /\ f \in Fields /\ Append(g, f) \in Seq(Fields)
         /\ Len(Append(g, f)) = Len(g) + 1 /\ Len(g) \in Nat
         /\ Prefix(Append(g, f), written)
<1>1. written \in Seq(Fields) /\ Len(written) \in Nat /\ Len(g) \in Nat
  BY LenProperties DEF BuilderInv, MarksOK
<1>2. f \in Fields
  BY <1>1, ElementOfSeq
<1>3. /\ Append(g, f) \in Seq(Fields) /\ Len(Append(g, f)) = Len(g) + 1
      /\ \A i \in 1 .. Len(g) : Append(g, f)[i] = g[i]
      /\ Append(g, f)[Len(g) + 1] = f
  BY <1>2, AppendProperties
<1> QED
  BY <1>1, <1>2, <1>3 DEF Prefix

\* The next field f, of n bytes, is in the buffer the reader is on.
AtField(l, p, g, f, n) ==
  /\ Reading(l, p, g) /\ Placed(l, p, g) /\ Len(g) < FieldsTo(l)
  /\ f = written[Len(g) + 1] /\ n = Len(FieldBytes(bigendian, f))

LEMMA ReadField ==
  ASSUME BuilderInv, NEW l, NEW p, NEW g, NEW f, NEW n, AtField(l, p, g, f, n)
  PROVE  /\ f \in Fields /\ n \in Nat /\ n <= Len(RestAt(l, p))
         /\ SubSeq(RestAt(l, p), 1, n) = FieldBytes(bigendian, f)
         /\ RestAt(l, p) = FieldBytes(bigendian, f)
                             \o FieldsOf(bigendian, written, Len(g) + 1, FieldsTo(l))
         /\ FieldsOf(bigendian, written, Len(g) + 1, FieldsTo(l)) \in Seq(Byte)
         /\ Reading(l, p + n, Append(g, f)) /\ Placed(l, p + n, Append(g, f))
<1>0. /\ Reading(l, p, g) /\ Placed(l, p, g) /\ Len(g) < FieldsTo(l)
      /\ f = written[Len(g) + 1] /\ n = Len(FieldBytes(bigendian, f))
  BY DEF AtField
<1>1. /\ l \in 1 .. Len(marks) /\ p \in 0 .. Len(Buffers[l])
      /\ g \in Seq(Fields) /\ Prefix(g, written) /\ Len(g) \in Nat
  BY <1>0, LenProperties DEF Reading
<1>2. /\ FieldsTo(l) \in 0 .. Len(written) /\ Len(written) \in Nat /\ written \in Seq(Fields)
      /\ Len(marks) \in Nat \ {0}
      /\ l < Len(marks) => FieldsTo(l) = marks[l + 1]
  BY <1>1, BuffersAre
<1>3. Len(g) < Len(written)
  BY <1>0, <1>1, <1>2
<1>4. /\ f \in Fields /\ Append(g, f) \in Seq(Fields)
      /\ Len(Append(g, f)) = Len(g) + 1 /\ Prefix(Append(g, f), written)
  BY <1>0, <1>1, <1>3, GotOneMore
<1> DEFINE s == FieldBytes(bigendian, f)
           t == FieldsOf(bigendian, written, Len(g) + 1, FieldsTo(l))
<1>5. RestAt(l, p) = s \o t
  BY <1>0, <1>1, <1>2, FieldsOfNext DEF Placed
<1>6. s \in Seq(Byte) /\ t \in Seq(Byte) /\ n \in Nat /\ n = Len(s)
  BY <1>0, <1>1, <1>2, <1>4, FieldBytesType, FieldsOfType
<1> HIDE DEF s, t
<1>7. /\ p + n \in 0 .. Len(Buffers[l]) /\ RestAt(l, p + n) = t
      /\ SubSeq(RestAt(l, p), 1, n) = s /\ n <= Len(RestAt(l, p))
  <2>1. /\ p + Len(s) \in 0 .. Len(Buffers[l]) /\ RestAt(l, p + Len(s)) = t
        /\ SubSeq(RestAt(l, p), 1, Len(s)) = s /\ Len(s) <= Len(RestAt(l, p))
    BY <1>1, <1>5, <1>6, RestFurther DEF Splits
  <2> QED
    BY <2>1, <1>6
<1>8. Reading(l, p + n, Append(g, f))
  BY <1>1, <1>4, <1>7 DEF Reading
<1>9. Placed(l, p + n, Append(g, f))
  <2>1. RestAt(l, p + n) = FieldsOf(bigendian, written, Len(Append(g, f)), FieldsTo(l))
    BY <1>4, <1>7 DEF t
  <2>2. ASSUME l < Len(marks), FieldsTo(l) <= Len(Append(g, f))
        PROVE  Buffers[l + 1] = FieldsOf(bigendian, written, Len(Append(g, f)), FieldsTo(l + 1))
    <3>1. l + 1 \in 1 .. Len(marks) /\ FieldsTo(l) = marks[l + 1] /\ FieldsTo(l) = Len(g) + 1
      BY <2>2, <1>0, <1>1, <1>2, <1>4
    <3>2. Buffers[l + 1] = FieldsOf(bigendian, written, marks[l + 1], FieldsTo(l + 1))
      BY <3>1, BuffersAre
    <3> QED
      BY <3>1, <3>2, <1>4
  <2> QED
    BY <2>1, <2>2 DEF Placed
<1> QED
  BY <1>4, <1>5, <1>6, <1>7, <1>8, <1>9 DEF s, t

\* A field without bytes, past the last field of the buffer.
LEMMA ReadEmpty ==
  ASSUME BuilderInv, NEW l, NEW p, NEW g, Reading(l, p, g), Placed(l, p, g),
         FieldsTo(l) <= Len(g), Len(g) < Len(written), NEW f, f = written[Len(g) + 1],
         FieldBytes(bigendian, f) = << >>
  PROVE  Reading(l, p, Append(g, f)) /\ Placed(l, p, Append(g, f)) /\ RestAt(l, p) = << >>
<1>1. /\ l \in 1 .. Len(marks) /\ p \in 0 .. Len(Buffers[l])
      /\ g \in Seq(Fields) /\ Prefix(g, written) /\ Len(g) \in Nat
  BY LenProperties DEF Reading
<1>2. /\ FieldsTo(l) \in 0 .. Len(written) /\ Len(written) \in Nat /\ written \in Seq(Fields)
      /\ Len(marks) \in Nat \ {0}
  BY <1>1, BuffersAre
<1>3. /\ f \in Fields /\ Append(g, f) \in Seq(Fields)
      /\ Len(Append(g, f)) = Len(g) + 1 /\ Prefix(Append(g, f), written)
  BY <1>1, GotOneMore
<1>4. RestAt(l, p) = << >> /\ FieldsOf(bigendian, written, Len(g) + 1, FieldsTo(l)) = << >>
  BY <1>1, <1>2, FieldsOfEmpty DEF Placed
<1>5. ASSUME l < Len(marks)
      PROVE  Buffers[l + 1] = FieldsOf(bigendian, written, Len(g) + 1, FieldsTo(l + 1))
  <2>1. l + 1 \in 1 .. Len(marks)
    BY <1>1, <1>2, <1>5
  <2>2. FieldsTo(l + 1) \in 0 .. Len(written)
    BY <2>1, BuffersAre
  <2>3. Buffers[l + 1] = FieldsOf(bigendian, written, Len(g), FieldsTo(l + 1))
    BY <1>5 DEF Placed
  <2>4. CASE Len(g) < FieldsTo(l + 1)
    <3>1. FieldsOf(bigendian, written, Len(g), FieldsTo(l + 1))
            = << >> \o FieldsOf(bigendian, written, Len(g) + 1, FieldsTo(l + 1))
      <4>1. FieldsOf(bigendian, written, Len(g), FieldsTo(l + 1))
              = FieldBytes(bigendian, written[Len(g) + 1])
                  \o FieldsOf(bigendian, written, Len(g) + 1, FieldsTo(l + 1))
        BY <2>2, <2>4, <1>1, <1>2, FieldsOfNext
      <4> QED
        BY <4>1
    <3>2. FieldsOf(bigendian, written, Len(g) + 1, FieldsTo(l + 1)) \in Seq(Byte)
      BY <2>2, <1>1, <1>2, FieldsOfType
    <3> QED
      BY <3>1, <3>2, <2>3, ConcatEmptySeq
  <2>5. CASE ~(Len(g) < FieldsTo(l + 1))
    <3>1. /\ FieldsOf(bigendian, written, Len(g), FieldsTo(l + 1)) = << >>
          /\ FieldsOf(bigendian, written, Len(g) + 1, FieldsTo(l + 1)) = << >>
      BY <2>2, <2>5, <1>1, <1>2, FieldsOfEmpty
    <3> QED
      BY <3>1, <2>3
  <2> QED
    BY <2>4, <2>5
<1> QED
  BY <1>1, <1>3, <1>4, <1>5 DEF Reading, Placed

\* The next buffer, when all fields of this one were read.
LEMMA NextLoaded ==
  ASSUME BuilderInv, NEW l, NEW p, NEW g, Reading(l, p, g), Placed(l, p, g),
         FieldsTo(l) <= Len(g), l < Len(marks), Buffers[l + 1] # << >>
  PROVE  /\ Reading(l + 1, 0, g) /\ Placed(l + 1, 0, g) /\ Len(g) < FieldsTo(l + 1)
<1>1. /\ l \in 1 .. Len(marks) /\ p \in 0 .. Len(Buffers[l])
      /\ g \in Seq(Fields) /\ Prefix(g, written) /\ Len(g) \in Nat
  BY LenProperties DEF Reading
<1>2. Len(marks) \in Nat \ {0}
  BY <1>1, BuffersAre
<1>3. l + 1 \in 1 .. Len(marks)
  BY <1>1, <1>2
<1>4. /\ Buffers[l + 1] \in Seq(Byte) /\ Len(Buffers[l + 1]) \in Nat
      /\ FieldsTo(l + 1) \in 0 .. Len(written) /\ Len(written) \in Nat
  BY <1>3, BuffersAre
<1>5. Buffers[l + 1] = FieldsOf(bigendian, written, Len(g), FieldsTo(l + 1))
  BY DEF Placed
<1>6. Len(g) < FieldsTo(l + 1)
  <2>1. CASE FieldsTo(l + 1) <= Len(g)
    BY <2>1, <1>1, <1>4, <1>5, FieldsOfEmpty
  <2> QED
    BY <2>1, <1>1, <1>4
<1>7. RestAt(l + 1, 0) = Buffers[l + 1]
  BY <1>4, SubSeqFull DEF RestAt
<1>8. Reading(l + 1, 0, g)
  BY <1>1, <1>3, <1>4 DEF Reading
<1>9. Placed(l + 1, 0, g)
  BY <1>1, <1>4, <1>5, <1>6, <1>7 DEF Placed
<1> QED
  BY <1>6, <1>8, <1>9

-----------------------------------------------------------------------------
(* The invariant of builder and parser.  Until the payload is built the     *)
(* parser waits at the start of the first buffer.                           *)

ParserOK ==
  /\ parsing \in BOOLEAN /\ pp_ok \in BOOLEAN /\ trusting \in BOOLEAN
  /\ reads \in 0 .. MaxReads
  /\ parsing => Reading(loaded, position, got)
  /\ parsing /\ trusting => Placed(loaded, position, got)
  /\ parsing \/ (loaded = 1 /\ position = 0 /\ got = << >>)

Inv == BuilderInv /\ ParserOK

LEMMA InvStart == Init => Inv
<1> SUFFICES ASSUME Init PROVE Inv
  OBVIOUS
<1>1. BuilderInv
  BY BuilderStart DEF Init
<1>2. /\ parsing = FALSE /\ loaded = 1 /\ position = 0 /\ pp_ok = TRUE
      /\ reads = 0 /\ trusting = TRUE /\ got = << >>
  BY DEF Init
<1>3. reads \in 0 .. MaxReads
  BY <1>2, ParserAssumption
<1>4. ParserOK
  BY <1>2, <1>3 DEF ParserOK
<1> QED
  BY <1>1, <1>4 DEF Inv

\* At the start of a buffer, with the fields of the buffers before it.
LEMMA AtTheStart ==
  ASSUME BuilderInv, NEW l \in 1 .. Len(marks), NEW g \in Seq(Fields),
         Len(g) = marks[l], Prefix(g, written)
  PROVE  Reading(l, 0, g) /\ Placed(l, 0, g)
<1>1. /\ Buffers[l] \in Seq(Byte) /\ Len(Buffers[l]) \in Nat
      /\ Len(marks) \in Nat \ {0} /\ marks[l] \in 0 .. FieldsTo(l) /\ FieldsTo(l) \in Nat
      /\ Buffers[l] = FieldsOf(bigendian, written, marks[l], FieldsTo(l))
      /\ l < Len(marks) => FieldsTo(l) = marks[l + 1]
  BY BuffersAre
<1>2. RestAt(l, 0) = Buffers[l]
  BY <1>1, SubSeqFull DEF RestAt
<1>3. ASSUME l < Len(marks), FieldsTo(l) <= Len(g)
      PROVE  Buffers[l + 1] = FieldsOf(bigendian, written, Len(g), FieldsTo(l + 1))
  <2>1. l + 1 \in 1 .. Len(marks) /\ marks[l + 1] = Len(g)
    BY <1>1, <1>3
  <2> QED
    BY <2>1, BuffersAre
<1> QED
  BY <1>1, <1>2, <1>3 DEF Reading, Placed

LEMMA ReaderIs ==
  ASSUME Inv
  PROVE  /\ BuilderInv /\ Reading(loaded, position, got)
         /\ trusting => Placed(loaded, position, got)
<1>1. BuilderInv /\ ParserOK
  BY DEF Inv
<1>2. CASE parsing
  BY <1>1, <1>2 DEF ParserOK
<1>3. CASE ~parsing
  <2>1. loaded = 1 /\ position = 0 /\ got = << >>
    BY <1>1, <1>3 DEF ParserOK
  <2>2. 1 \in 1 .. Len(marks) /\ marks[1] = 0
    BY <1>1, MarksAre DEF BuilderInv, MarksOK
  <2>3. << >> \in Seq(Fields) /\ Len(<< >>) = 0 /\ Prefix(<< >>, written)
    <3>1. Len(written) \in Nat
      BY <1>1, MarksAre DEF BuilderInv
    <3> QED
      BY <3>1, EmptySeq DEF Prefix
  <2>4. Reading(1, 0, << >>) /\ Placed(1, 0, << >>)
    BY <1>1, <2>2, <2>3, AtTheStart
  <2> QED
    BY <1>1, <2>1, <2>4
<1> QED
  BY <1>2, <1>3

LEMMA BuildStep ==
  ASSUME Inv, ~parsing, PbNext, UNCHANGED ppVars
  PROVE  Inv'
<1>1. BuilderInv'
  BY BuilderStep DEF Inv
<1>2. ParserOK'
  BY DEF Inv, ParserOK, ppVars
<1> QED
  BY <1>1, <1>2 DEF Inv

\* What a step that leaves the payload alone has to show.
Arrived ==
  /\ UNCHANGED pbVars /\ parsing' = TRUE
  /\ pp_ok' \in BOOLEAN /\ trusting' \in BOOLEAN /\ reads' \in 0 .. MaxReads
  /\ Reading(loaded', position', got')
  /\ trusting' => Placed(loaded', position', got')

LEMMA ArrivedStep ==
  ASSUME Inv, Arrived
  PROVE  Inv'
<1>1. BuilderInv'
  BY BuilderStays DEF Inv, Arrived
<1>2. /\ bigendian' = bigendian /\ built' = built /\ flushed' = flushed
      /\ written' = written /\ marks' = marks
  BY DEF Arrived, pbVars
<1>3. Reading(loaded, position, got)'
  BY <1>2 DEF Arrived, Reading, Prefix, Buffers
<1>4. trusting' => Placed(loaded, position, got)'
  BY <1>2 DEF Arrived, Placed, RestAt, Buffers, FieldsTo
<1> QED
  BY <1>1, <1>3, <1>4 DEF Inv, ParserOK, Arrived

LEMMA StartStep ==
  ASSUME Inv, ~parsing, parsing' = TRUE,
         UNCHANGED <<pbVars, loaded, position, pp_ok, reads, trusting, got>>
  PROVE  Inv'
<1>1. Arrived
  BY ReaderIs DEF Arrived, Inv, ParserOK
<1> QED
  BY <1>1, ArrivedStep

-----------------------------------------------------------------------------
(* Where the check of the capacity leaves the reader.                       *)

LEMMA ReadingOn ==
  ASSUME BuilderInv, NEW l, NEW p, NEW g, Reading(l, p, g),
         NEW n \in Nat, n <= Len(RestAt(l, p))
  PROVE  Reading(l, p + n, g)
<1>1. l \in 1 .. Len(marks) /\ p \in 0 .. Len(Buffers[l])
  BY DEF Reading
<1>2. Len(RestAt(l, p)) = Len(Buffers[l]) - p /\ Len(Buffers[l]) \in Nat
  BY <1>1, RestAtType, BuffersAre
<1> QED
  BY <1>1, <1>2 DEF Reading

LEMMA SourceIs ==
  ASSUME Inv, NEW n \in Nat, NEW src, src = Source(n)
  PROVE  /\ Reading(src.loaded, src.position, got)
         /\ src.bytes = RestAt(src.loaded, src.position)
         /\ src.bytes \in Seq(Byte) /\ Len(src.bytes) \in Nat
         /\ Enough(n) => n <= Len(src.bytes)
<1>1. BuilderInv /\ Reading(loaded, position, got)
  BY ReaderIs
<1>2. /\ loaded \in 1 .. Len(marks) /\ position \in 0 .. Len(Buffers[loaded])
      /\ got \in Seq(Fields) /\ Prefix(got, written)
  BY <1>1 DEF Reading
<1>3. /\ Len(Buffers) = Len(marks) /\ Len(marks) \in Nat /\ Len(Buffers[loaded]) \in Nat
  BY <1>1, <1>2, BuffersAre
<1>4. CASE PpHelped(n)
  <2>1. src.loaded = loaded + 1 /\ src.position = 0 /\ src.bytes = Buffers[loaded + 1]
    BY <1>4 DEF Source
  <2>2. loaded + 1 \in 1 .. Len(marks) /\ n <= Len(Buffers[loaded + 1])
    BY <1>2, <1>3, <1>4 DEF PpHelped
  <2>3. Buffers[loaded + 1] \in Seq(Byte) /\ Len(Buffers[loaded + 1]) \in Nat
    BY <1>1, <2>2, BuffersAre
  <2>4. RestAt(loaded + 1, 0) = Buffers[loaded + 1]
    BY <2>3, SubSeqFull DEF RestAt
  <2>5. Reading(loaded + 1, 0, got)
    BY <2>2, <2>3, <1>2 DEF Reading
  <2> QED
    BY <2>1, <2>2, <2>3, <2>4, <2>5
<1>5. CASE ~PpHelped(n)
  <2>1. src.loaded = loaded /\ src.position = position /\ src.bytes = RestAt(loaded, position)
    BY <1>5 DEF Source, Rest, RestAt
  <2>2. /\ RestAt(loaded, position) \in Seq(Byte) /\ Len(RestAt(loaded, position)) \in Nat
        /\ Len(RestAt(loaded, position)) = Len(Buffers[loaded]) - position
    BY <1>1, <1>2, RestAtType
  <2>3. Enough(n) => position + n <= Len(Buffers[loaded])
    <3>1. Enough(n) => ~Short(n)
      BY <1>5 DEF Enough
    <3> QED
      BY <3>1, <1>2, <1>3 DEF Short
  <2>4. Enough(n) => n <= Len(RestAt(loaded, position))
    BY <2>2, <2>3, <1>2, <1>3
  <2> QED
    BY <2>1, <2>2, <2>4, <1>1
<1> QED
  BY <1>4, <1>5

\* A reader that trusts its place and asks for no more than the next field has is
\* at that field after the check.
LEMMA SourceTrusted ==
  ASSUME Inv, trusting, Len(got) < Len(written), NEW n \in Nat \ {0},
         n <= Len(FieldBytes(bigendian, written[Len(got) + 1])), Enough(n),
         NEW src, src = Source(n)
  PROVE  Placed(src.loaded, src.position, got) /\ Len(got) < FieldsTo(src.loaded)
<1>1. BuilderInv /\ Reading(loaded, position, got) /\ Placed(loaded, position, got)
  BY ReaderIs
<1>2. /\ loaded \in 1 .. Len(marks) /\ position \in 0 .. Len(Buffers[loaded])
      /\ got \in Seq(Fields) /\ Len(got) \in Nat
  BY <1>1, LenProperties DEF Reading
<1>3. /\ Len(Buffers) = Len(marks) /\ Len(marks) \in Nat /\ Len(Buffers[loaded]) \in Nat
      /\ FieldsTo(loaded) \in Nat
      /\ Len(RestAt(loaded, position)) = Len(Buffers[loaded]) - position
  <2>1. Len(RestAt(loaded, position)) = Len(Buffers[loaded]) - position
    BY <1>1, <1>2, RestAtType
  <2>2. Len(Buffers) = Len(marks) /\ Len(marks) \in Nat /\ Len(Buffers[loaded]) \in Nat
        /\ FieldsTo(loaded) \in 0 .. Len(written) /\ Len(written) \in Nat
    BY <1>1, <1>2, BuffersAre
  <2> QED
    BY <2>1, <2>2
<1>4. CASE Len(got) < FieldsTo(loaded)
  <2>1. Len(FieldBytes(bigendian, written[Len(got) + 1])) <= Len(RestAt(loaded, position))
        /\ Len(FieldBytes(bigendian, written[Len(got) + 1])) \in Nat
    <3>1. PICK f : f = written[Len(got) + 1]
      OBVIOUS
    <3>2. PICK k : k = Len(FieldBytes(bigendian, f))
      OBVIOUS
    <3>3. AtField(loaded, position, got, f, k)
      BY <3>1, <3>2, <1>1, <1>4 DEF AtField
    <3> QED
      BY <3>1, <3>2, <3>3, <1>1, ReadField
  <2>2. ~Short(n)
    BY <2>1, <1>2, <1>3 DEF Short
  <2>3. src.loaded = loaded /\ src.position = position
    BY <2>2 DEF Source, PpHelped
  <2> QED
    BY <2>3, <1>1, <1>4
<1>5. CASE FieldsTo(loaded) <= Len(got)
  <2>1. RestAt(loaded, position) = << >>
    BY <1>1, <1>2, <1>3, <1>5, FieldsOfEmpty DEF Placed
  <2>2. Short(n)
    BY <2>1, <1>2, <1>3, EmptySeq DEF Short
  <2>3. PpHelped(n)
    BY <2>2 DEF Enough
  <2>4. src.loaded = loaded + 1 /\ src.position = 0
    BY <2>3 DEF Source
  <2>5. loaded < Len(marks) /\ n <= Len(Buffers[loaded + 1])
    BY <2>3, <1>3 DEF PpHelped
  <2>6. Buffers[loaded + 1] # << >>
    BY <2>5, EmptySeq
  <2> QED
    BY <2>4, <2>5, <2>6, <1>1, <1>5, NextLoaded
<1> QED
  BY <1>2, <1>3, <1>4, <1>5

-----------------------------------------------------------------------------
(* Every read leaves the invariant in place.                                *)

\* A read of n bytes after the check, of a field the reader trusts or of anything.
LEMMA TookStep ==
  ASSUME Inv, parsing, UNCHANGED <<pbVars, parsing>>, reads' \in 0 .. MaxReads,
         pp_ok' \in BOOLEAN, NEW k \in Nat, NEW src, src = Source(k),
         NEW n \in Nat, n <= Len(src.bytes), NEW trusted \in BOOLEAN, NEW f,
         Took(src, n, trusted, f),
         trusted => /\ Reading(src.loaded, src.position + n, Append(got, f))
                    /\ Placed(src.loaded, src.position + n, Append(got, f))
  PROVE  Inv'
<1>1. /\ loaded' = src.loaded /\ position' = src.position + n /\ trusting' = trusted
      /\ got' = IF trusted THEN Append(got, f) ELSE got
  BY DEF Took
<1>2. Reading(src.loaded, src.position, got) /\ src.bytes = RestAt(src.loaded, src.position)
      /\ BuilderInv
  BY SourceIs, ReaderIs
<1>3. Reading(src.loaded, src.position + n, got)
  BY <1>2, ReadingOn
<1>4. Arrived
  BY <1>1, <1>3 DEF Arrived
<1> QED
  BY <1>4, ArrivedStep

LEMMA NumberStep ==
  ASSUME Inv, parsing, UNCHANGED <<pbVars, parsing>>, reads' \in 0 .. MaxReads,
         NEW kind \in Numbers, PpNumber(kind)
  PROVE  Inv'
<1>1. PICK n : n = Width(kind)
  OBVIOUS
<1>2. PICK src : src = Source(n)
  OBVIOUS
<1>3. PICK value : value = Coerced(kind, NumberRead(bigendian, SubSeq(src.bytes, 1, n)))
  OBVIOUS
<1>4. n \in {1, 2, 4}
  BY <1>1, WidthType
<1>5. pp_ok' \in BOOLEAN
  <2>1. pp_ok' = Enough(n)
    BY <1>1 DEF PpNumber
  <2> QED
    BY <2>1 DEF Enough, Inv, ParserOK
<1>6. \/ Enough(n) /\ Took(src, n, ExpectsKind(kind), [kind |-> kind, value |-> value])
      \/ Took(src, 0, FALSE, [kind |-> kind, value |-> 0])
  BY <1>1, <1>2, <1>3 DEF PpNumber
<1>7. /\ Len(src.bytes) \in Nat /\ src.bytes = RestAt(src.loaded, src.position)
      /\ Enough(n) => n <= Len(src.bytes)
      /\ Reading(src.loaded, src.position, got) /\ BuilderInv
  BY <1>2, <1>4, SourceIs, ReaderIs
<1>8. CASE Took(src, 0, FALSE, [kind |-> kind, value |-> 0])
  <2>1. PICK f : f = [kind |-> kind, value |-> 0]
    OBVIOUS
  <2>2. PICK trusted \in BOOLEAN : trusted = FALSE
    OBVIOUS
  <2>3. PICK z \in Nat : z = 0
    OBVIOUS
  <2>4. Took(src, z, trusted, f)
    BY <2>1, <2>2, <2>3, <1>8 DEF Took
  <2>5. z <= Len(src.bytes)
    BY <2>3, <1>7
  <2> QED
    BY <2>2, <2>4, <2>5, <1>2, <1>4, <1>5, TookStep
<1>9. CASE Enough(n) /\ Took(src, n, ExpectsKind(kind), [kind |-> kind, value |-> value])
  <2>1. PICK trusted \in BOOLEAN : trusted = ExpectsKind(kind)
    BY DEF ExpectsKind
  <2>2. PICK f : f = [kind |-> kind, value |-> value]
    OBVIOUS
  <2>3. Took(src, n, trusted, f) /\ n <= Len(src.bytes)
    BY <2>1, <2>2, <1>7, <1>9
  <2>4. ASSUME trusted
        PROVE  /\ Reading(src.loaded, src.position + n, Append(got, f))
               /\ Placed(src.loaded, src.position + n, Append(got, f))
    <3>1. PICK next : next = written[Len(got) + 1]
      OBVIOUS
    <3>2. trusting /\ Len(got) < Len(written) /\ next.kind = kind
      BY <2>1, <2>4, <3>1 DEF ExpectsKind
    <3>3. got \in Seq(Fields) /\ Prefix(got, written) /\ next \in Fields
      BY <1>7, <3>1, <3>2, GotOneMore DEF Reading
    <3>4. Len(FieldBytes(bigendian, next)) = n
          /\ Coerced(kind, NumberRead(bigendian, FieldBytes(bigendian, next))) = next.value
      BY <3>2, <3>3, <1>1, RoundTrip
    <3>5. Placed(src.loaded, src.position, got) /\ Len(got) < FieldsTo(src.loaded)
      BY <3>1, <3>2, <3>4, <1>2, <1>4, <1>9, SourceTrusted
    <3>6. /\ SubSeq(src.bytes, 1, n) = FieldBytes(bigendian, next)
          /\ Reading(src.loaded, src.position + n, Append(got, next))
          /\ Placed(src.loaded, src.position + n, Append(got, next))
      <4>1. AtField(src.loaded, src.position, got, next, n)
        BY <3>1, <3>4, <3>5, <1>7 DEF AtField
      <4> QED
        BY <4>1, <1>7, ReadField
    <3>7. f = next
      <4>1. value = next.value
        BY <3>4, <3>6, <1>3
      <4>2. next = [kind |-> next.kind, value |-> next.value]
        BY <3>3, FieldParts
      <4> QED
        BY <4>1, <4>2, <3>2, <2>2
    <3> QED
      BY <3>6, <3>7
  <2> QED
    BY <2>3, <2>4, <1>2, <1>4, <1>5, TookStep
<1> QED
  BY <1>6, <1>8, <1>9

\* Where a string ends: the first place where reading stops.
Stops(s, maxlen, i) == i = Len(s) \/ i = maxlen - 1 \/ (i > 0 /\ s[i] = 0)

LEMMA StringEndIs ==
  ASSUME NEW s \in Seq(Byte), NEW maxlen \in Nat
  PROVE  /\ StringEnd(s, maxlen) \in 0 .. Len(s) /\ Stops(s, maxlen, StringEnd(s, maxlen))
         /\ \A j \in 0 .. StringEnd(s, maxlen) - 1 : ~Stops(s, maxlen, j)
<1> DEFINE T == {i \in 0 .. Len(s) : Stops(s, maxlen, i)}
           First(i) == Stops(s, maxlen, i) /\ \A j \in 0 .. i - 1 : ~Stops(s, maxlen, j)
<1>1. Len(s) \in Nat
  BY LenProperties
<1>2. Len(s) \in T
  BY <1>1 DEF Stops
<1>3. PICK m \in T : \A k \in T : m <= k
  <2>1. T \subseteq Nat /\ T # {}
    BY <1>1, <1>2
  <2> HIDE DEF T
  <2> QED
    BY <2>1, LeastNatural
<1>4. m \in 0 .. Len(s) /\ Stops(s, maxlen, m)
  BY <1>3
<1>5. ASSUME NEW j \in 0 .. m - 1 PROVE ~Stops(s, maxlen, j)
  <2>1. j \in 0 .. Len(s) /\ ~(m <= j)
    BY <1>1, <1>4
  <2>2. j \notin T
    <3> HIDE DEF T
    <3> QED
      BY <2>1, <1>3
  <2> QED
    BY <2>1, <2>2
<1>6. StringEnd(s, maxlen) = CHOOSE i \in 0 .. Len(s) : First(i)
  BY DEF StringEnd, Stops
<1>7. \E i \in 0 .. Len(s) : First(i)
  BY <1>4, <1>5
<1> HIDE DEF First
<1>8. StringEnd(s, maxlen) \in 0 .. Len(s) /\ First(StringEnd(s, maxlen))
  BY <1>6, <1>7
<1> QED
  BY <1>8 DEF First

\* A string that ended before its target was full ended with its terminator.
StringRead(v, t, s, maxlen, n, len) ==
  /\ v \in Seq(Byte) /\ t \in Seq(Byte) /\ s \in Seq(Byte) /\ s = Append(v, 0) \o t
  /\ \A i \in 1 .. Len(v) : v[i] # 0
  /\ n = StringEnd(s, maxlen) /\ len < maxlen - 1
  /\ len = IF n > 0 /\ s[n] = 0 THEN n - 1 ELSE n

LEMMA StringWhole ==
  ASSUME NEW maxlen \in Nat, NEW v, NEW t, NEW s, NEW n, NEW len,
         StringRead(v, t, s, maxlen, n, len)
  PROVE  n = Len(v) + 1 /\ len = Len(v)
<1> DEFINE u == Append(v, 0)
           k == Len(v)
<1>0. /\ v \in Seq(Byte) /\ t \in Seq(Byte) /\ s \in Seq(Byte) /\ s = u \o t
      /\ \A i \in 1 .. k : v[i] # 0
      /\ n = StringEnd(s, maxlen) /\ len < maxlen - 1
      /\ len = IF n > 0 /\ s[n] = 0 THEN n - 1 ELSE n
  BY DEF StringRead
<1>1. 0 \in Byte
  BY BuilderAssumption DEF Byte
<1>2. /\ u \in Seq(Byte) /\ Len(u) = k + 1 /\ k \in Nat
      /\ (\A i \in 1 .. k : u[i] = v[i]) /\ u[k + 1] = 0
  BY <1>0, <1>1, AppendProperties, LenProperties
<1> HIDE DEF u
<1>3. /\ s \in Seq(Byte) /\ Len(s) = Len(u) + Len(t) /\ Len(t) \in Nat
      /\ \A i \in 1 .. Len(u) + Len(t) : s[i] = IF i <= Len(u) THEN u[i] ELSE t[i - Len(u)]
  <2>1. /\ u \o t \in Seq(Byte) /\ Len(u \o t) = Len(u) + Len(t) /\ Len(t) \in Nat
        /\ \A i \in 1 .. Len(u) + Len(t) :
             (u \o t)[i] = IF i <= Len(u) THEN u[i] ELSE t[i - Len(u)]
    <3>1. u \in Seq(Byte) /\ t \in Seq(Byte)
      BY <1>0, <1>2
    <3> QED
      BY <3>1, ConcatProperties, LenProperties
  <2>2. s = u \o t
    BY <1>0
  <2> QED
    BY <2>1, <2>2
<1>4. /\ s[k + 1] = 0 /\ k + 1 <= Len(s) /\ Len(s) \in Nat
      /\ \A i \in 1 .. k : s[i] # 0
  <2>1. s[k + 1] = u[k + 1] /\ \A i \in 1 .. k : s[i] = u[i]
    BY <1>2, <1>3
  <2>2. k + 1 <= Len(s) /\ Len(s) \in Nat
    BY <1>2, <1>3
  <2> QED
    BY <2>1, <2>2, <1>0, <1>2
<1>5. /\ n \in 0 .. Len(s) /\ Stops(s, maxlen, n)
      /\ \A j \in 0 .. n - 1 : ~Stops(s, maxlen, j)
  BY <1>0, StringEndIs
<1>6. n <= k + 1
  <2>1. Stops(s, maxlen, k + 1)
    BY <1>2, <1>4 DEF Stops
  <2> QED
    BY <2>1, <1>2, <1>5
<1>7. n = k + 1
  <2>1. SUFFICES ASSUME n <= k PROVE FALSE
    BY <1>2, <1>5, <1>6
  <2>2. ~(n > 0 /\ s[n] = 0)
    BY <2>1, <1>2, <1>4, <1>5
  <2>3. n # Len(s)
    BY <2>1, <1>2, <1>4, <1>5
  <2>4. n = maxlen - 1
    BY <2>2, <2>3, <1>5 DEF Stops
  <2>5. len = n
    BY <2>2, <1>0
  <2> QED
    BY <2>4, <2>5, <1>0, <1>5
<1> QED
  BY <1>0, <1>2, <1>4, <1>7

LEMMA StringStep ==
  ASSUME Inv, parsing, UNCHANGED <<pbVars, parsing>>, reads' \in 0 .. MaxReads,
         NEW maxlen \in Nat, PpString(maxlen)
  PROVE  Inv'
<1>1. PICK src : src = Source(1)
  OBVIOUS
<1>2. PICK n : n = StringEnd(src.bytes, maxlen)
  OBVIOUS
<1>3. PICK len : len = IF n > 0 /\ src.bytes[n] = 0 THEN n - 1 ELSE n
  OBVIOUS
<1>4. PICK f : f = [kind |-> "string", value |-> SubSeq(src.bytes, 1, len)]
  OBVIOUS
<1>5. PICK trusted \in BOOLEAN : trusted = (Enough(1) /\ len < maxlen - 1 /\ ExpectsKind("string"))
  OBVIOUS
<1>6. Took(src, n, trusted, f) /\ pp_ok' = Enough(1)
  BY <1>1, <1>2, <1>3, <1>4, <1>5 DEF PpString
<1>7. pp_ok' \in BOOLEAN
  BY <1>6 DEF Enough, Inv, ParserOK
<1>8. /\ src.bytes \in Seq(Byte) /\ Len(src.bytes) \in Nat
      /\ src.bytes = RestAt(src.loaded, src.position)
      /\ Reading(src.loaded, src.position, got) /\ BuilderInv
  BY <1>1, SourceIs, ReaderIs
<1>9. n \in Nat /\ n <= Len(src.bytes)
  <2>1. n \in 0 .. Len(src.bytes)
    BY <1>2, <1>8, StringEndIs
  <2> QED
    BY <2>1, <1>8
<1>10. ASSUME trusted
       PROVE  /\ Reading(src.loaded, src.position + n, Append(got, f))
              /\ Placed(src.loaded, src.position + n, Append(got, f))
  <2>1. PICK next : next = written[Len(got) + 1]
    OBVIOUS
  <2>2. /\ Enough(1) /\ len < maxlen - 1
        /\ trusting /\ Len(got) < Len(written) /\ next.kind = "string"
    BY <2>1, <1>5, <1>10 DEF ExpectsKind
  <2>3. got \in Seq(Fields) /\ Prefix(got, written) /\ next \in Fields
    BY <1>8, <2>1, <2>2, GotOneMore DEF Reading
  <2>4. PICK v : v = next.value
    OBVIOUS
  <2>5. /\ FieldBytes(bigendian, next) = Append(v, 0) /\ v \in Seq(Byte)
        /\ \A i \in 1 .. Len(v) : v[i] # 0
    BY <2>2, <2>3, <2>4, FieldBytesType
  <2>6. Len(Append(v, 0)) = Len(v) + 1 /\ Len(v) \in Nat
    BY <2>5, AppendProperties, LenProperties, BuilderAssumption DEF Byte
  <2>7. Placed(src.loaded, src.position, got) /\ Len(got) < FieldsTo(src.loaded)
    BY <2>1, <2>2, <2>5, <2>6, <1>1, SourceTrusted
  <2>13. PICK k : k = Len(FieldBytes(bigendian, next))
    OBVIOUS
  <2> DEFINE t == FieldsOf(bigendian, written, Len(got) + 1, FieldsTo(src.loaded))
  <2>14. /\ src.bytes = FieldBytes(bigendian, next) \o t /\ t \in Seq(Byte)
         /\ Reading(src.loaded, src.position + k, Append(got, next))
         /\ Placed(src.loaded, src.position + k, Append(got, next))
    <3>1. AtField(src.loaded, src.position, got, next, k)
      BY <2>1, <2>7, <2>13, <1>8 DEF AtField
    <3>2. RestAt(src.loaded, src.position) = FieldBytes(bigendian, next) \o t /\ t \in Seq(Byte)
      BY <3>1, <1>8, ReadField
    <3>3. /\ Reading(src.loaded, src.position + k, Append(got, next))
          /\ Placed(src.loaded, src.position + k, Append(got, next))
      BY <3>1, <1>8, ReadField
    <3> QED
      BY <3>2, <3>3, <1>8
  <2> HIDE DEF t
  <2>8. src.bytes = Append(v, 0) \o t /\ t \in Seq(Byte)
    BY <2>5, <2>14
  <2>9. n = Len(v) + 1 /\ len = Len(v)
    <3>1. StringRead(v, t, src.bytes, maxlen, n, len)
      BY <2>2, <2>5, <2>8, <1>2, <1>3, <1>8 DEF StringRead
    <3> QED
      BY <3>1, StringWhole
  <2>10. /\ Reading(src.loaded, src.position + n, Append(got, next))
         /\ Placed(src.loaded, src.position + n, Append(got, next))
    BY <2>5, <2>6, <2>9, <2>13, <2>14
  <2>11. SubSeq(src.bytes, 1, len) = v
    <3>1. src.bytes = v \o (<<0>> \o t) /\ <<0>> \o t \in Seq(Byte)
      <4>1. Append(v, 0) = v \o <<0>> /\ <<0>> \in Seq(Byte)
        BY <2>5, AppendIsConcat, BuilderAssumption DEF Byte
      <4>2. (v \o <<0>>) \o t = v \o (<<0>> \o t)
        BY <2>5, <4>1, BytesAssociative DEF Assoc
      <4> QED
        BY <4>1, <4>2, <2>8, ConcatProperties
    <3>2. Splits(src.loaded, src.position, v, <<0>> \o t)
      BY <3>1, <2>5, <1>8 DEF Splits, Reading
    <3> QED
      BY <3>2, <2>9, <1>8, RestFurther
  <2>12. f = next
    <3>1. next = [kind |-> next.kind, value |-> next.value]
      BY <2>3, FieldParts
    <3> QED
      BY <3>1, <2>2, <2>4, <2>11, <1>4
  <2> QED
    BY <2>10, <2>12
<1> QED
  BY <1>1, <1>6, <1>7, <1>9, <1>10, TookStep

LEMMA BufStep ==
  ASSUME Inv, parsing, UNCHANGED <<pbVars, parsing>>, reads' \in 0 .. MaxReads,
         NEW maxlen \in Nat, PpBuf(maxlen)
  PROVE  Inv'
<1>1. PICK src : src = Source(0)
  OBVIOUS
<1>2. PICK n : n = IF Len(Rest) < maxlen THEN Len(Rest) ELSE maxlen
  OBVIOUS
<1>3. PICK f : f = [kind |-> "buf", value |-> SubSeq(Rest, 1, n)]
  OBVIOUS
<1>4. PICK trusted \in BOOLEAN :
        trusted = (pp_ok /\ n = maxlen
                     /\ ExpectsKind("buf") /\ Len(written[Len(got) + 1].value) = maxlen)
  OBVIOUS
<1>5. Took(src, n, trusted, f) /\ pp_ok' = pp_ok
  BY <1>1, <1>2, <1>3, <1>4 DEF PpBuf
<1>6. BuilderInv /\ Reading(loaded, position, got)
  BY ReaderIs
<1>7. /\ loaded \in 1 .. Len(marks) /\ position \in 0 .. Len(Buffers[loaded])
      /\ got \in Seq(Fields) /\ Prefix(got, written) /\ Len(got) \in Nat
  BY <1>6, LenProperties DEF Reading
<1>8. Len(Buffers[loaded]) \in Nat /\ FieldsTo(loaded) \in Nat
  BY <1>6, <1>7, BuffersAre
<1>9. Rest = RestAt(loaded, position) /\ Rest \in Seq(Byte) /\ Len(Rest) \in Nat
  BY <1>6, <1>7, RestAtType DEF Rest, RestAt
<1>10. src.loaded = loaded /\ src.position = position /\ src.bytes = Rest
  <2>1. ~Short(0)
    BY <1>7, <1>8 DEF Short
  <2> QED
    BY <2>1, <1>1 DEF Source, PpHelped
<1>11. n \in Nat /\ n <= Len(src.bytes)
  BY <1>2, <1>9, <1>10
<1>12. ASSUME trusted
       PROVE  /\ Reading(loaded, position + n, Append(got, f))
              /\ Placed(loaded, position + n, Append(got, f))
  <2>1. PICK next : next = written[Len(got) + 1]
    OBVIOUS
  <2>2. /\ n = maxlen /\ trusting /\ Len(got) < Len(written)
        /\ next.kind = "buf" /\ Len(next.value) = n
    BY <2>1, <1>4, <1>12 DEF ExpectsKind
  <2>3. next \in Fields /\ Placed(loaded, position, got)
    BY <2>1, <2>2, <1>6, <1>7, GotOneMore, ReaderIs
  <2>4. /\ FieldBytes(bigendian, next) = next.value /\ next.value \in Seq(Byte)
        /\ next = [kind |-> next.kind, value |-> next.value]
    BY <2>2, <2>3, FieldBytesType, FieldParts
  <2>5. CASE Len(got) < FieldsTo(loaded)
    <3>1. AtField(loaded, position, got, next, n)
      BY <2>1, <2>2, <2>3, <2>4, <2>5, <1>6 DEF AtField
    <3>2. /\ SubSeq(RestAt(loaded, position), 1, n) = FieldBytes(bigendian, next)
          /\ Reading(loaded, position + n, Append(got, next))
          /\ Placed(loaded, position + n, Append(got, next))
      BY <3>1, <1>6, ReadField
    <3>3. f = next
      BY <3>2, <2>2, <2>4, <1>3, <1>9
    <3> QED
      BY <3>2, <3>3
  <2>6. CASE FieldsTo(loaded) <= Len(got)
    <3>1. Rest = << >>
      BY <2>3, <2>6, <1>7, <1>8, <1>9, FieldsOfEmpty DEF Placed
    <3>2. n = 0
      BY <3>1, <1>2, <1>9, <1>11, <1>10, EmptySeq
    <3>3. next.value = << >>
      BY <3>2, <2>2, <2>4, EmptySeq
    <3>4. Reading(loaded, position, Append(got, next)) /\ Placed(loaded, position, Append(got, next))
      BY <3>3, <2>1, <2>2, <2>3, <2>4, <2>6, <1>6, ReadEmpty
    <3>5. SubSeq(Rest, 1, n) = << >>
      BY <3>2, SubSeqEmpty
    <3>6. f = next
      BY <3>3, <3>5, <2>2, <2>4, <1>3
    <3>7. position + n = position
      BY <3>2, <1>7
    <3> QED
      BY <3>4, <3>6, <3>7
  <2> QED
    BY <2>5, <2>6, <1>7, <1>8
<1>13. trusted => /\ Reading(src.loaded, src.position + n, Append(got, f))
                  /\ Placed(src.loaded, src.position + n, Append(got, f))
  BY <1>10, <1>12
<1>14. pp_ok' \in BOOLEAN
  BY <1>5 DEF Inv, ParserOK
<1>15. 0 \in Nat
  OBVIOUS
<1> QED
  BY <1>1, <1>5, <1>11, <1>13, <1>14, <1>15, TookStep

LEMMA SkipStep ==
  ASSUME Inv, parsing, UNCHANGED <<pbVars, parsing>>, reads' \in 0 .. MaxReads,
         NEW num \in Nat, PpSkip(num)
  PROVE  Inv'
<1>1. PICK src : src = Source(0)
  OBVIOUS
<1>2. PICK next : next = written[Len(got) + 1]
  OBVIOUS
<1>3. PICK over \in BOOLEAN :
        over = (trusting /\ Len(got) < FieldsTo(loaded)
                  /\ num = Len(FieldBytes(bigendian, next)))
  OBVIOUS
<1>4. Took(src, num, over, next) /\ pp_ok' = pp_ok /\ num <= Len(Rest)
  BY <1>1, <1>2, <1>3 DEF PpSkip
<1>5. BuilderInv /\ Reading(loaded, position, got)
  BY ReaderIs
<1>6. loaded \in 1 .. Len(marks) /\ position \in 0 .. Len(Buffers[loaded])
  BY <1>5 DEF Reading
<1>7. Len(Buffers[loaded]) \in Nat
  BY <1>5, <1>6, BuffersAre
<1>8. src.loaded = loaded /\ src.position = position /\ src.bytes = Rest
  <2>1. ~Short(0)
    BY <1>6, <1>7 DEF Short
  <2> QED
    BY <2>1, <1>1 DEF Source, PpHelped
<1>9. ASSUME over
      PROVE  /\ Reading(loaded, position + num, Append(got, next))
             /\ Placed(loaded, position + num, Append(got, next))
  <2>1. AtField(loaded, position, got, next, num)
    BY <1>2, <1>3, <1>5, <1>9, ReaderIs DEF AtField
  <2> QED
    BY <2>1, <1>5, ReadField
<1>10. over => /\ Reading(src.loaded, src.position + num, Append(got, next))
               /\ Placed(src.loaded, src.position + num, Append(got, next))
  BY <1>8, <1>9
<1>11. num <= Len(src.bytes)
  BY <1>4, <1>8
<1>12. pp_ok' \in BOOLEAN
  BY <1>4 DEF Inv, ParserOK
<1>13. 0 \in Nat
  OBVIOUS
<1> QED
  BY <1>1, <1>4, <1>10, <1>11, <1>12, <1>13, TookStep

LEMMA TailStep ==
  ASSUME Inv, parsing, UNCHANGED <<pbVars, parsing>>, reads' \in 0 .. MaxReads, PpTail
  PROVE  Inv'
<1>1. PICK last \in BOOLEAN :
        last = (trusting /\ pp_ok /\ ~handler
                  /\ ExpectsKind("buf") /\ Len(got) + 1 = Len(written))
  OBVIOUS
<1>2. PICK f : f = [kind |-> "buf", value |-> IF pp_ok THEN Rest ELSE << >>]
  OBVIOUS
<1>3. /\ got' = IF last THEN Append(got, f) ELSE got
      /\ trusting' = FALSE /\ loaded' = loaded /\ position' = position /\ pp_ok' = pp_ok
  BY <1>1, <1>2 DEF PpTail
<1>4. BuilderInv /\ Reading(loaded, position, got)
  BY ReaderIs
<1>5. /\ loaded \in 1 .. Len(marks) /\ position \in 0 .. Len(Buffers[loaded])
      /\ got \in Seq(Fields) /\ Prefix(got, written) /\ Len(got) \in Nat
  BY <1>4, LenProperties DEF Reading
<1>6. ASSUME last PROVE Reading(loaded, position, Append(got, f))
  <2>1. PICK next : next = written[Len(got) + 1]
    OBVIOUS
  <2>2. PICK n : n = Len(FieldBytes(bigendian, next))
    OBVIOUS
  <2>3. /\ trusting /\ pp_ok /\ ~handler /\ next.kind = "buf"
        /\ Len(got) + 1 = Len(written) /\ Len(got) < Len(written)
    BY <2>1, <1>1, <1>6 DEF ExpectsKind
  <2>4. Placed(loaded, position, got)
    BY <2>3, ReaderIs
  <2>5. FieldsTo(loaded) = Len(written)
    <3>1. Len(marks) = 1
      BY <2>3, <1>4, <1>5, BuffersAre
    <3> QED
      BY <3>1, <1>5 DEF FieldsTo
  <2>6. RestAt(loaded, position) = FieldBytes(bigendian, next)
    <3>1. written \in Seq(Fields) /\ Len(written) \in 0 .. Len(written)
      BY <1>4, <1>5, BuffersAre
    <3>2. /\ FieldsOf(bigendian, written, Len(got), Len(written))
               = FieldBytes(bigendian, next)
                   \o FieldsOf(bigendian, written, Len(got) + 1, Len(written))
          /\ next \in Fields
      BY <3>1, <2>1, <2>3, <1>5, FieldsOfNext
    <3>3. FieldsOf(bigendian, written, Len(got) + 1, Len(written)) = << >>
      BY <3>1, <2>3, <1>5, FieldsOfEmpty
    <3>4. FieldBytes(bigendian, next) \in Seq(Byte)
      BY <3>2, FieldBytesType
    <3>5. FieldBytes(bigendian, next) \o << >> = FieldBytes(bigendian, next)
      BY <3>4, ConcatEmptySeq
    <3> QED
      BY <3>2, <3>3, <3>5, <2>4, <2>5 DEF Placed
  <2>7. next \in Fields /\ Append(got, next) \in Seq(Fields) /\ Prefix(Append(got, next), written)
    BY <2>1, <2>3, <1>4, <1>5, GotOneMore
  <2>8. f = next
    <3>1. next = [kind |-> next.kind, value |-> next.value]
          /\ FieldBytes(bigendian, next) = next.value
      BY <2>3, <2>7, FieldParts, FieldBytesType
    <3>2. Rest = RestAt(loaded, position)
      BY DEF Rest, RestAt
    <3> QED
      BY <3>1, <3>2, <2>3, <2>6, <1>2
  <2> QED
    BY <2>7, <2>8, <1>5 DEF Reading
<1>7. Reading(loaded', position', got')
  BY <1>3, <1>4, <1>6
<1>8. Arrived
  BY <1>3, <1>7 DEF Arrived, Inv, ParserOK
<1> QED
  BY <1>8, ArrivedStep

LEMMA ReadRewindStep ==
  ASSUME Inv, parsing, UNCHANGED <<pbVars, parsing>>, reads' \in 0 .. MaxReads, PpRewind
  PROVE  Inv'
<1>1. PICK g : g = SubSeq(written, 1, marks[loaded])
  OBVIOUS
<1>2. position' = 0 /\ got' = g /\ trusting' = pp_ok /\ loaded' = loaded /\ pp_ok' = pp_ok
  BY <1>1 DEF PpRewind
<1>3. BuilderInv /\ loaded \in 1 .. Len(marks)
  BY ReaderIs DEF Reading
<1>4. /\ written \in Seq(Fields) /\ Len(written) \in Nat
      /\ FieldsTo(loaded) \in 0 .. Len(written) /\ marks[loaded] \in 0 .. FieldsTo(loaded)
  BY <1>3, BuffersAre
<1>5. marks[loaded] \in 0 .. Len(written) /\ 0 \in Nat
  BY <1>4
<1>6. /\ g \in Seq(Fields) /\ Len(g) = marks[loaded]
      /\ \A i \in 1 .. marks[loaded] : g[i] = written[i]
  <2>1. /\ SubSeq(written, 0 + 1, marks[loaded]) \in Seq(Fields)
        /\ Len(SubSeq(written, 0 + 1, marks[loaded]))
             = IF 0 <= marks[loaded] THEN marks[loaded] - 0 ELSE 0
        /\ \A i \in 1 .. marks[loaded] - 0 :
             SubSeq(written, 0 + 1, marks[loaded])[i] = written[0 + i]
    BY <1>4, <1>5, PieceType
  <2> QED
    BY <2>1, <1>1, <1>5
<1>7. Prefix(g, written)
  BY <1>4, <1>5, <1>6 DEF Prefix
<1>8. Reading(loaded, 0, g) /\ Placed(loaded, 0, g)
  BY <1>3, <1>6, <1>7, AtTheStart
<1>9. Arrived
  BY <1>2, <1>8 DEF Arrived, Inv, ParserOK
<1> QED
  BY <1>9, ArrivedStep

LEMMA InvStep == Inv /\ [Next]_vars => Inv'
<1> SUFFICES ASSUME Inv, [Next]_vars PROVE Inv'
  OBVIOUS
<1>1. CASE ~parsing /\ PbNext /\ UNCHANGED ppVars
  BY <1>1, BuildStep
<1>2. CASE /\ ~parsing /\ parsing' = TRUE
           /\ UNCHANGED <<pbVars, loaded, position, pp_ok, reads, trusting, got>>
  BY <1>2, StartStep
<1>3. CASE /\ parsing /\ reads < MaxReads /\ reads' = reads + 1
           /\ Read /\ UNCHANGED <<pbVars, parsing>>
  <2>1. parsing /\ Read /\ UNCHANGED <<pbVars, parsing>>
    BY <1>3
  <2>2. reads' \in 0 .. MaxReads
    <3>1. reads \in 0 .. MaxReads
      BY DEF Inv, ParserOK
    <3> QED
      BY <3>1, <1>3, ParserAssumption
  <2>3. Lengths \subseteq Nat
    BY ParserAssumption
  <2>4. ASSUME NEW kind \in Kinds \ {"string", "buf"}, PpNumber(kind) PROVE Inv'
    BY <2>1, <2>2, <2>4, NumberStep DEF Numbers
  <2>5. ASSUME NEW n \in Lengths \ {0}, PpString(n) PROVE Inv'
    BY <2>1, <2>2, <2>3, <2>5, StringStep
  <2>6. ASSUME NEW n \in Lengths, PpBuf(n) PROVE Inv'
    BY <2>1, <2>2, <2>3, <2>6, BufStep
  <2>7. ASSUME NEW n \in Lengths, PpSkip(n) PROVE Inv'
    BY <2>1, <2>2, <2>3, <2>7, SkipStep
  <2>8. ASSUME PpTail PROVE Inv'
    BY <2>1, <2>2, <2>8, TailStep
  <2>9. ASSUME PpRewind PROVE Inv'
    BY <2>1, <2>2, <2>9, ReadRewindStep
  <2> QED
    BY <2>1, <2>4, <2>5, <2>6, <2>7, <2>8, <2>9 DEF Read
<1>4. CASE UNCHANGED vars
  <2>1. UNCHANGED pbVars /\ UNCHANGED ppVars
    BY <1>4 DEF vars
  <2>2. BuilderInv'
    BY <2>1, BuilderStays DEF Inv
  <2>3. ParserOK'
    <3>1. CASE parsing
      <4>1. Arrived
        BY <2>1, <3>1 DEF Arrived, Inv, ParserOK, ppVars
      <4> QED
        BY <4>1, ArrivedStep DEF Inv
    <3>2. CASE ~parsing
      BY <2>1, <3>2 DEF Inv, ParserOK, ppVars
    <3> QED
      BY <3>1, <3>2
  <2> QED
    BY <2>2, <2>3 DEF Inv
<1> QED
  BY <1>1, <1>2, <1>3, <1>4 DEF Next

-----------------------------------------------------------------------------
(* The properties of the run, for every byte range, capacity and fields.    *)

\* Payloads are built, loaded and read for as long as anybody likes: what is written
\* stays in its buffers, no buffer is longer than its capacity, and the reader's
\* position is inside the buffer it is on.
THEOREM TypeCorrect == Spec => []TypeOK
<1>1. Inv => TypeOK
  <2> SUFFICES ASSUME Inv PROVE TypeOK
    OBVIOUS
  <2>1. /\ BuilderInv /\ loaded \in 1 .. Len(marks)
        /\ position \in 0 .. Len(Buffers[loaded])
    BY ReaderIs DEF Reading
  <2>2. DOMAIN Buffers = 1 .. Len(marks)
    BY <2>1, BuffersAre
  <2>3. \A c \in 1 .. Len(marks) : Buffers[c] \in Seq(Byte) /\ Len(Buffers[c]) <= Capacity
    BY <2>1, BuffersAre
  <2>4. PbTypeOK
    BY <2>1, <2>2, <2>3 DEF PbTypeOK, BuilderInv, BytesOK, MarksOK
  <2> QED
    BY <2>1, <2>2, <2>4 DEF TypeOK, Inv, ParserOK
<1> QED
  BY <1>1, InvStart, InvStep, PTL DEF Spec

\* A field is whole in one buffer or nowhere, whether it did not fit or the full
\* handler sent the buffer off before it.
THEOREM FieldsStayWhole == Spec => []FieldsWhole
<1>1. Inv => FieldsWhole
  <2> SUFFICES ASSUME Inv, NEW c \in DOMAIN Buffers
               PROVE  Buffers[c]
                        = FieldsBytes(bigendian, SubSeq(written, marks[c] + 1, FieldsTo(c)))
    BY DEF FieldsWhole
  <2>1. BuilderInv /\ loaded \in 1 .. Len(marks)
    BY ReaderIs DEF Reading
  <2>2. DOMAIN Buffers = 1 .. Len(marks)
    BY <2>1, BuffersAre
  <2> QED
    BY <2>1, <2>2, BuffersAre DEF FieldsOf
<1> QED
  BY <1>1, InvStart, InvStep, PTL DEF Spec

\* The payload is what the user wrote up to the first field that did not fit, and
\* nothing that came after it.
THEOREM PayloadIsPrefix == Spec => []WrittenIsPrefix
<1>1. Inv => WrittenIsPrefix
  <2> SUFFICES ASSUME Inv PROVE WrittenIsPrefix
    OBVIOUS
  <2>1. /\ written \in Seq(Fields) /\ tried \in Seq(Fields)
        /\ Prefix(written, tried) /\ (pb_ok => written = tried)
    BY DEF Inv, BuilderInv, MarksOK, Taken
  <2>2. Len(written) <= Len(tried)
    BY <2>1 DEF Prefix
  <2>3. written = SubSeq(tried, 1, Len(written))
    BY <2>1, <2>2, PrefixIs
  <2> QED
    BY <2>1, <2>2, <2>3 DEF WrittenIsPrefix
<1> QED
  BY <1>1, InvStart, InvStep, PTL DEF Spec

\* Whatever a reader trusts is what was written, in both byte orders and across
\* buffers.
THEOREM WhatIsReadWasWritten == Spec => []ReadsBack
<1>1. Inv => ReadsBack
  <2> SUFFICES ASSUME Inv PROVE ReadsBack
    OBVIOUS
  <2>1. got \in Seq(Fields) /\ Prefix(got, written) /\ written \in Seq(Fields)
    BY ReaderIs DEF Reading, BuilderInv, MarksOK
  <2>2. Len(got) <= Len(written)
    BY <2>1 DEF Prefix
  <2>3. got = SubSeq(written, 1, Len(got))
    BY <2>1, <2>2, PrefixIs
  <2> QED
    BY <2>2, <2>3 DEF ReadsBack
<1> QED
  BY <1>1, InvStart, InvStep, PTL DEF Spec

\* A reader that trusts its place has the fields it has not read yet before it.
THEOREM ReaderInPlace == Spec => []AtTheNextField
<1>1. Inv => AtTheNextField
  BY ReaderIs DEF AtTheNextField, Placed, RestAt, Rest, FieldsOf
<1> QED
  BY <1>1, InvStart, InvStep, PTL DEF Spec
=============================================================================
