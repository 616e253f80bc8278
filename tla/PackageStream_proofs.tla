------------------------ MODULE PackageStream_proofs ------------------------
(***************************************************************************)
(* Lemmas about package framing, for every payload and every base and      *)
(* width of the length field: the length is read as it was written as      *)
(* long as it fits its field, an encoded package is cut out again, and     *)
(* what is cut out of some bytes does not change when more of them come.   *)
(***************************************************************************)
EXTENDS PackageStream, Lists_proofs

-----------------------------------------------------------------------------
(* The length field *)

LEMMA Width ==
  /\ Base \in Nat /\ Base >= 2
  /\ LenSize \in Nat /\ LenSize >= 1
  /\ HeaderSize = LenSize + 1
  BY StreamAssumption DEF HeaderSize

LEMMA ShiftedUnfolds ==
  ASSUME NEW n \in Nat
  PROVE  /\ Shifted(n) \in [0 .. LenSize -> Nat]
         /\ Shifted(n)[0] = n
         /\ \A i \in 1 .. LenSize : Shifted(n)[i] = Shifted(n)[i - 1] \div Base
<1> DEFINE Step == [i \in 1 .. LenSize |-> [x \in Nat |-> x \div Base]]
           Rec(f) == f = [i \in 0 .. LenSize |->
                            IF i = 0 THEN n ELSE f[i - 1] \div Base]
<1>1. Step \in [1 .. LenSize -> [Nat -> Nat]]
  BY Width
<1>2. \A i \in 1 .. LenSize, x \in Nat : Step[i][x] = x \div Base
  OBVIOUS
<1> HIDE DEF Step
<1>3. PICK f \in [0 .. LenSize -> Nat] : Follows(f, LenSize, n, Step)
  <2>1. LenSize \in Nat /\ 0 \in Nat
    BY Width
  <2> QED
    BY <1>1, <2>1, Recursion
<1>4. Rec(f)
  <2> DEFINE g(i) == IF i = 0 THEN n ELSE f[i - 1] \div Base
  <2>1. ASSUME NEW i \in 0 .. LenSize
        PROVE  f[i] = g(i)
    <3>1. CASE i = 0
      BY <1>3, <3>1 DEF Follows
    <3>2. CASE i # 0
      <4>1. i \in 1 .. LenSize /\ f[i - 1] \in Nat
        BY <3>2, Width
      <4> QED
        BY <1>2, <1>3, <3>2, <4>1 DEF Follows
    <3> QED
      BY <3>1, <3>2
  <2>2. f = [i \in 0 .. LenSize |-> f[i]]
    OBVIOUS
  <2> HIDE DEF g
  <2>3. f = [i \in 0 .. LenSize |-> g(i)]
    BY <2>1, <2>2
  <2> QED
    BY <2>3 DEF g
<1>5. Rec(Shifted(n))
  <2>1. Shifted(n) = CHOOSE left : Rec(left)
    BY Zenon DEF Shifted
  <2> HIDE DEF Rec
  <2> QED
    BY <1>4, <2>1, Zenon
<1> DEFINE s == Shifted(n)
<1>6. \A i \in 1 .. LenSize : s[i] = s[i - 1] \div Base
  BY <1>5, Width
<1>7. s[0] = n
  BY <1>5, Width
<1> HIDE DEF s
<1>8. \A i \in 0 .. LenSize : s[i] \in Nat
  <2> DEFINE P == {i \in Nat : i <= LenSize => s[i] \in Nat}
  <2>1. 0 \in P
    BY <1>7
  <2>2. ASSUME NEW i \in P PROVE i + 1 \in P
    <3>0. i \in Nat /\ (i <= LenSize => s[i] \in Nat)
      OBVIOUS
    <3>1. ASSUME i + 1 <= LenSize
          PROVE  s[i + 1] \in Nat
      <4>1. i + 1 \in 1 .. LenSize /\ (i + 1) - 1 = i
        BY <3>0, <3>1, Width
      <4>2. s[i + 1] = s[i] \div Base /\ s[i] \in Nat
        BY <1>6, <3>0, <3>1, <4>1, Width
      <4>3. \A x \in Nat : x \div Base \in Nat
        BY Width
      <4> HIDE DEF P
      <4> QED
        BY <4>2, <4>3
    <3> QED
      BY <3>0, <3>1
  <2>3. P = Nat
    <3>1. P \in SUBSET Nat
      OBVIOUS
    <3> HIDE DEF P
    <3> QED
      BY <2>1, <2>2, <3>1, Induction
  <2> QED
    BY <2>3
<1>9. s = [i \in 0 .. LenSize |-> s[i]]
  BY <1>5 DEF s
<1>10. s \in [0 .. LenSize -> Nat]
  BY <1>8, <1>9
<1> QED
  BY <1>6, <1>7, <1>10 DEF s

LEMMA LenBytesType ==
  ASSUME NEW n \in Nat
  PROVE  /\ LenBytes(n) \in Seq(Byte) /\ Len(LenBytes(n)) = LenSize
         /\ \A i \in 1 .. LenSize : LenBytes(n)[i] = Shifted(n)[LenSize - i] % Base
<1> DEFINE s == Shifted(n)
<1>1. s \in [0 .. LenSize -> Nat]
  BY ShiftedUnfolds
<1> HIDE DEF s
<1>2. ASSUME NEW i \in 1 .. LenSize
      PROVE  s[LenSize - i] % Base \in Byte
  <2>1. LenSize - i \in 0 .. LenSize
    BY Width
  <2> QED
    BY <1>1, <2>1, Width DEF Byte
<1> DEFINE b == [i \in 1 .. LenSize |-> s[LenSize - i] % Base]
<1>3. b \in [1 .. LenSize -> Byte]
  BY <1>2
<1>4. \A i \in 1 .. LenSize : b[i] = s[LenSize - i] % Base
  OBVIOUS
<1> HIDE DEF b
<1>5. b \in Seq(Byte) /\ Len(b) = LenSize
  BY <1>3, Width
<1> QED
  BY <1>4, <1>5 DEF LenBytes, s, b

LEMMA LenOfUnfolds ==
  ASSUME NEW b \in Seq(Byte), Len(b) >= LenSize
  PROVE  \E value \in [0 .. LenSize -> Nat] :
           /\ value[0] = 0
           /\ \A i \in 1 .. LenSize : value[i] = value[i - 1] * Base + b[i]
           /\ LenOf(b) = value[LenSize]
<1> DEFINE Step == [i \in 1 .. LenSize |-> [x \in Nat |-> x * Base + b[i]]]
           Rec(f) == f = [i \in 0 .. LenSize |->
                            IF i = 0 THEN 0 ELSE f[i - 1] * Base + b[i]]
<1>0. \A i \in 1 .. LenSize : b[i] \in Nat
  <2> SUFFICES ASSUME NEW i \in 1 .. LenSize PROVE b[i] \in Nat
    OBVIOUS
  <2>1. i \in 1 .. Len(b)
    BY Width, LenProperties
  <2>2. b[i] \in Byte
    BY <2>1, ElementOfSeq
  <2> QED
    BY <2>2, Width DEF Byte
<1>1. Step \in [1 .. LenSize -> [Nat -> Nat]]
  <2>1. ASSUME NEW i \in 1 .. LenSize, NEW x \in Nat
        PROVE  x * Base + b[i] \in Nat
    BY <1>0, Width
  <2> QED
    BY <2>1
<1>2. \A i \in 1 .. LenSize, x \in Nat : Step[i][x] = x * Base + b[i]
  OBVIOUS
<1> HIDE DEF Step
<1>3. PICK f \in [0 .. LenSize -> Nat] : Follows(f, LenSize, 0, Step)
  <2>1. LenSize \in Nat /\ 0 \in Nat
    BY Width
  <2> QED
    BY <1>1, <2>1, Recursion
<1>4. Rec(f)
  <2> DEFINE g(i) == IF i = 0 THEN 0 ELSE f[i - 1] * Base + b[i]
  <2>1. ASSUME NEW i \in 0 .. LenSize
        PROVE  f[i] = g(i)
    <3>1. CASE i = 0
      BY <1>3, <3>1 DEF Follows
    <3>2. CASE i # 0
      <4>1. i \in 1 .. LenSize /\ f[i - 1] \in Nat
        BY <3>2, Width
      <4> QED
        BY <1>2, <1>3, <3>2, <4>1 DEF Follows
    <3> QED
      BY <3>1, <3>2
  <2>2. f = [i \in 0 .. LenSize |-> f[i]]
    OBVIOUS
  <2> HIDE DEF g
  <2>3. f = [i \in 0 .. LenSize |-> g(i)]
    BY <2>1, <2>2
  <2> QED
    BY <2>3 DEF g
<1> DEFINE v == CHOOSE g : Rec(g)
<1>5. Rec(v)
  <2> HIDE DEF Rec
  <2> QED
    BY <1>4, Zenon
<1>6. LenOf(b) = v[LenSize]
  BY DEF LenOf
<1> HIDE DEF v
<1>7. v[0] = 0 /\ \A i \in 1 .. LenSize : v[i] = v[i - 1] * Base + b[i]
  BY <1>5, Width
<1>8. \A i \in 0 .. LenSize : v[i] \in Nat
  <2> DEFINE P == {i \in Nat : i <= LenSize => v[i] \in Nat}
  <2>1. 0 \in P
    BY <1>7
  <2>2. ASSUME NEW i \in P PROVE i + 1 \in P
    <3>0. i \in Nat /\ (i <= LenSize => v[i] \in Nat)
      OBVIOUS
    <3>1. ASSUME i + 1 <= LenSize
          PROVE  v[i + 1] \in Nat
      <4>1. i + 1 \in 1 .. LenSize /\ (i + 1) - 1 = i
        BY <3>0, <3>1, Width
      <4>2. v[i + 1] = v[i] * Base + b[i + 1] /\ v[i] \in Nat /\ b[i + 1] \in Nat
        BY <1>0, <1>7, <3>0, <3>1, <4>1, Width
      <4>3. \A x, y \in Nat : x * Base + y \in Nat
        BY Width
      <4> HIDE DEF P
      <4> QED
        BY <4>2, <4>3
    <3> QED
      BY <3>0, <3>1
  <2>3. P = Nat
    <3>1. P \in SUBSET Nat
      OBVIOUS
    <3> HIDE DEF P
    <3> QED
      BY <2>1, <2>2, <3>1, Induction
  <2> QED
    BY <2>3
<1>9. v = [i \in 0 .. LenSize |-> v[i]]
  BY <1>5
<1>10. v \in [0 .. LenSize -> Nat]
  BY <1>8, <1>9
<1> QED
  BY <1>6, <1>7, <1>10

\* A length that fits is read as it was written.
LEMMA LengthSurvives ==
  ASSUME NEW n \in Nat, LengthFits(n),
         NEW b \in Seq(Byte), Len(b) >= LenSize,
         \A i \in 1 .. LenSize : b[i] = LenBytes(n)[i]
  PROVE  LenOf(b) = n
<1> DEFINE s == Shifted(n)
<1>1. /\ s \in [0 .. LenSize -> Nat] /\ s[0] = n
      /\ \A i \in 1 .. LenSize : s[i] = s[i - 1] \div Base
  BY ShiftedUnfolds
<1>2. PICK v \in [0 .. LenSize -> Nat] :
        /\ v[0] = 0
        /\ \A i \in 1 .. LenSize : v[i] = v[i - 1] * Base + b[i]
        /\ LenOf(b) = v[LenSize]
  BY LenOfUnfolds
<1>3. \A i \in 1 .. LenSize : b[i] = s[LenSize - i] % Base
  BY LenBytesType
<1>4. s[LenSize] = 0
  BY DEF LengthFits
<1> HIDE DEF s
<1> DEFINE P == {i \in Nat : i <= LenSize => v[i] = s[LenSize - i]}
<1>5. 0 \in P
  BY <1>2, <1>4, Width
<1>6. ASSUME NEW i \in P PROVE i + 1 \in P
  <2> SUFFICES ASSUME i + 1 <= LenSize
               PROVE  v[i + 1] = s[LenSize - (i + 1)]
    OBVIOUS
  <2> DEFINE x == s[LenSize - (i + 1)]
  <2>1. /\ i \in Nat /\ i + 1 \in 1 .. LenSize /\ (i + 1) - 1 = i
        /\ LenSize - i \in 1 .. LenSize /\ (LenSize - i) - 1 = LenSize - (i + 1)
        /\ LenSize - (i + 1) \in 0 .. LenSize
        /\ v[i] = s[LenSize - i]
    BY Width
  <2>2. s[LenSize - i] = x \div Base
    BY <1>1, <2>1
  <2>3. v[i + 1] = v[i] * Base + b[i + 1]
    BY <1>2, <2>1
  <2>4. b[i + 1] = x % Base
    BY <1>3, <2>1
  <2>5. x \in Nat
    BY <1>1, <2>1
  <2> HIDE DEF x
  <2>6. (x \div Base) * Base + (x % Base) = x
    BY <2>5, Width
  <2>7. v[i + 1] = x
    BY <2>1, <2>2, <2>3, <2>4, <2>6
  <2> QED
    BY <2>7 DEF x
<1>7. P = Nat
  <2>1. P \in SUBSET Nat
    OBVIOUS
  <2> HIDE DEF P
  <2> QED
    BY <1>5, <1>6, <2>1, Induction
<1>8. v[LenSize] = s[0]
  <2>1. LenSize \in P /\ LenSize - LenSize = 0
    BY <1>7, Width
  <2> QED
    BY <2>1
<1> QED
  BY <1>1, <1>2, <1>8

-----------------------------------------------------------------------------
(* Packages in bytes *)

\* What a reader may cut out of bytes nobody encoded.
Cut == [type : Byte, payload : Seq(Byte)]

LEMMA PackageType ==
  ASSUME NEW p \in Package
  PROVE  p \in Cut /\ p.type \in Byte /\ p.payload \in Seq(Byte) /\ p.payload \in Payloads
  BY StreamAssumption DEF Package, Cut, Byte

LEMMA EncodeProperties ==
  ASSUME NEW p \in Package
  PROVE  /\ Encode(p) \in Seq(Byte)
         /\ Len(Encode(p)) = HeaderSize + Len(p.payload)
         /\ Len(p.payload) \in Nat
         /\ \A i \in 1 .. LenSize : Encode(p)[i] = LenBytes(Len(p.payload))[i]
         /\ Encode(p)[HeaderSize] = p.type
         /\ \A j \in 1 .. Len(p.payload) : Encode(p)[HeaderSize + j] = p.payload[j]
<1> DEFINE x == p.payload
           n == Len(x)
           h == LenBytes(n)
           t == <<p.type>>
           ht == h \o t
<1>1. x \in Seq(Byte) /\ n \in Nat /\ p.type \in Byte
  BY PackageType, LenProperties
<1>2. h \in Seq(Byte) /\ Len(h) = LenSize
  BY <1>1, LenBytesType
<1>3. t \in Seq(Byte) /\ Len(t) = 1 /\ t[1] = p.type
  BY <1>1
<1> HIDE DEF x, n, h, t
<1>4. /\ ht \in Seq(Byte) /\ Len(ht) = Len(h) + Len(t)
      /\ \A i \in 1 .. Len(h) + Len(t) :
           ht[i] = IF i <= Len(h) THEN h[i] ELSE t[i - Len(h)]
  BY <1>2, <1>3, ConcatProperties
<1> HIDE DEF ht
<1>5. /\ Len(ht) = HeaderSize
      /\ \A i \in 1 .. LenSize : ht[i] = h[i]
      /\ ht[HeaderSize] = p.type
  BY <1>2, <1>3, <1>4, Width
<1>6. /\ ht \o x \in Seq(Byte) /\ Len(ht \o x) = Len(ht) + Len(x)
      /\ \A i \in 1 .. Len(ht) + Len(x) :
           (ht \o x)[i] = IF i <= Len(ht) THEN ht[i] ELSE x[i - Len(ht)]
  <2>1. ht \in Seq(Byte) /\ x \in Seq(Byte)
    BY <1>1, <1>4
  <2> QED
    BY <2>1, ConcatProperties
<1> DEFINE e == ht \o x
<1>7. e \in Seq(Byte) /\ Len(e) = HeaderSize + n
  BY <1>5, <1>6 DEF n
<1>8. \A i \in 1 .. HeaderSize + n : e[i] = IF i <= HeaderSize THEN ht[i] ELSE x[i - HeaderSize]
  BY <1>5, <1>6 DEF n
<1> HIDE DEF e
<1>9. \A i \in 1 .. LenSize : e[i] = h[i]
  BY <1>1, <1>5, <1>8, Width
<1>10. e[HeaderSize] = p.type
  BY <1>1, <1>5, <1>8, Width
<1>11. \A j \in 1 .. n : e[HeaderSize + j] = x[j]
  <2> SUFFICES ASSUME NEW j \in 1 .. n PROVE e[HeaderSize + j] = x[j]
    OBVIOUS
  <2>1. /\ HeaderSize + j \in 1 .. HeaderSize + n /\ ~(HeaderSize + j <= HeaderSize)
        /\ (HeaderSize + j) - HeaderSize = j
    BY <1>1, Width
  <2> QED
    BY <1>8, <2>1
<1>12. Encode(p) = e
  BY DEF Encode, e, ht, h, t, x, n
<1> QED
  BY <1>1, <1>7, <1>9, <1>10, <1>11, <1>12 DEF x, n, h

LEMMA LenOfType ==
  ASSUME NEW b \in Seq(Byte), Len(b) >= LenSize
  PROVE  LenOf(b) \in Nat /\ SizeOfFirst(b) \in Nat /\ SizeOfFirst(b) >= HeaderSize
<1>1. LenOf(b) \in Nat
  <2>1. LenSize \in 0 .. LenSize
    BY Width
  <2> QED
    BY <2>1, LenOfUnfolds
<1> QED
  BY <1>1, Width DEF SizeOfFirst

\* Only the first LenSize bytes say what the length is.
LEMMA LenOfPrefix ==
  ASSUME NEW b \in Seq(Byte), Len(b) >= LenSize,
         NEW c \in Seq(Byte), Len(c) >= LenSize,
         \A i \in 1 .. LenSize : b[i] = c[i]
  PROVE  LenOf(b) = LenOf(c)
<1>1. PICK v \in [0 .. LenSize -> Nat] :
        /\ v[0] = 0
        /\ \A i \in 1 .. LenSize : v[i] = v[i - 1] * Base + b[i]
        /\ LenOf(b) = v[LenSize]
  BY LenOfUnfolds
<1>2. PICK w \in [0 .. LenSize -> Nat] :
        /\ w[0] = 0
        /\ \A i \in 1 .. LenSize : w[i] = w[i - 1] * Base + c[i]
        /\ LenOf(c) = w[LenSize]
  BY LenOfUnfolds
<1> DEFINE P == {i \in Nat : i <= LenSize => v[i] = w[i]}
<1>3. 0 \in P
  BY <1>1, <1>2
<1>4. ASSUME NEW i \in P PROVE i + 1 \in P
  <2>0. i \in Nat /\ (i <= LenSize => v[i] = w[i])
    OBVIOUS
  <2>1. ASSUME i + 1 <= LenSize
        PROVE  v[i + 1] = w[i + 1]
    <3>1. i + 1 \in 1 .. LenSize /\ (i + 1) - 1 = i /\ v[i] = w[i]
      BY <2>0, <2>1, Width
    <3>2. v[i + 1] = v[i] * Base + b[i + 1] /\ w[i + 1] = w[i] * Base + c[i + 1]
      BY <1>1, <1>2, <3>1
    <3>3. b[i + 1] = c[i + 1]
      BY <3>1
    <3> QED
      BY <3>1, <3>2, <3>3
  <2> QED
    BY <2>0, <2>1
<1>5. P = Nat
  <2>1. P \in SUBSET Nat
    OBVIOUS
  <2> HIDE DEF P
  <2> QED
    BY <1>3, <1>4, <2>1, Induction
<1>6. v[LenSize] = w[LenSize]
  BY <1>5, Width
<1> QED
  BY <1>1, <1>2, <1>6

LEMMA CutProperties ==
  ASSUME NEW b \in Seq(Byte), HasWhole(b)
  PROVE  /\ Len(b) \in Nat /\ SizeOfFirst(b) \in HeaderSize .. Len(b)
         /\ FirstOf(b) \in Cut
         /\ FirstOf(b).type = b[HeaderSize]
         /\ Len(FirstOf(b).payload) = SizeOfFirst(b) - HeaderSize
         /\ \A j \in 1 .. SizeOfFirst(b) - HeaderSize :
              FirstOf(b).payload[j] = b[HeaderSize + j]
         /\ DropFirst(b) \in Seq(Byte)
         /\ Len(DropFirst(b)) = Len(b) - SizeOfFirst(b)
         /\ Len(DropFirst(b)) < Len(b)
         /\ \A j \in 1 .. Len(b) - SizeOfFirst(b) :
              DropFirst(b)[j] = b[SizeOfFirst(b) + j]
<1> DEFINE n == Len(b)
           z == SizeOfFirst(b)
<1>1. n \in Nat /\ \A i \in 1 .. n : b[i] \in Byte
  BY LenProperties, ElementOfSeq
<1>2. z \in Nat /\ z >= HeaderSize /\ z <= n
  BY LenOfType, LenProperties DEF HasWhole
<1> HIDE DEF n, z
<1> DEFINE x == SubSeq(b, HeaderSize + 1, z)
           d == SubSeq(b, z + 1, n)
<1>3. /\ x \in Seq(Byte) /\ Len(x) = z - HeaderSize
      /\ \A j \in 1 .. z - HeaderSize : x[j] = b[HeaderSize + j]
  <2>1. HeaderSize + 1 \in Int /\ z \in Int /\ \A i \in HeaderSize + 1 .. z : b[i] \in Byte
    BY <1>1, <1>2, Width
  <2>2. /\ x \in Seq(Byte)
        /\ Len(x) = IF HeaderSize + 1 <= z THEN z - (HeaderSize + 1) + 1 ELSE 0
        /\ \A i \in 1 .. z - (HeaderSize + 1) + 1 : x[i] = b[(HeaderSize + 1) + i - 1]
    BY <2>1, SubSeqProperties
  <2> HIDE DEF x
  <2>3. z - (HeaderSize + 1) + 1 = z - HeaderSize
    BY <1>2, Width
  <2>4. \A i \in 1 .. z - HeaderSize : (HeaderSize + 1) + i - 1 = HeaderSize + i
    BY Width
  <2>5. Len(x) = z - HeaderSize
    BY <1>2, <2>2, Width
  <2> QED
    BY <2>2, <2>3, <2>4, <2>5
<1>4. /\ d \in Seq(Byte) /\ Len(d) = n - z
      /\ \A j \in 1 .. n - z : d[j] = b[z + j]
  <2>1. z + 1 \in Int /\ n \in Int /\ \A i \in z + 1 .. n : b[i] \in Byte
    BY <1>1, <1>2, Width
  <2>2. /\ d \in Seq(Byte)
        /\ Len(d) = IF z + 1 <= n THEN n - (z + 1) + 1 ELSE 0
        /\ \A i \in 1 .. n - (z + 1) + 1 : d[i] = b[(z + 1) + i - 1]
    BY <2>1, SubSeqProperties
  <2> HIDE DEF d
  <2>3. n - (z + 1) + 1 = n - z
    BY <1>1, <1>2
  <2>4. \A i \in 1 .. n - z : (z + 1) + i - 1 = z + i
    BY <1>2
  <2>5. Len(d) = n - z
    BY <1>1, <1>2, <2>2
  <2> QED
    BY <2>2, <2>3, <2>4, <2>5
<1>5. HeaderSize \in 1 .. n
  BY <1>1, <1>2, Width
<1> HIDE DEF x, d
<1>6. FirstOf(b) = [type |-> b[HeaderSize], payload |-> x]
  BY DEF FirstOf, x, z
<1>7. DropFirst(b) = d
  BY DEF DropFirst, d, z, n
<1>8. FirstOf(b) \in Cut /\ FirstOf(b).type = b[HeaderSize] /\ FirstOf(b).payload = x
  BY <1>1, <1>3, <1>5, <1>6 DEF Cut
<1>9. n - z < n /\ z \in HeaderSize .. n
  BY <1>1, <1>2, Width
<1> QED
  BY <1>1, <1>3, <1>4, <1>7, <1>8, <1>9 DEF n, z

\* More bytes change nothing of the package in front.
LEMMA WholeExtends ==
  ASSUME NEW b \in Seq(Byte), NEW t \in Seq(Byte), HasWhole(b)
  PROVE  /\ b \o t \in Seq(Byte)
         /\ HasWhole(b \o t)
         /\ FirstOf(b \o t) = FirstOf(b)
         /\ DropFirst(b \o t) = DropFirst(b) \o t
<1> DEFINE c == b \o t
           n == Len(b)
           m == Len(t)
           z == SizeOfFirst(b)
<1>1. /\ c \in Seq(Byte) /\ Len(c) = n + m
      /\ \A i \in 1 .. n + m : c[i] = IF i <= n THEN b[i] ELSE t[i - n]
  BY ConcatProperties
<1>2. n \in Nat /\ m \in Nat /\ z \in HeaderSize .. n /\ n >= LenSize
  BY LenProperties, CutProperties DEF HasWhole
<1> HIDE DEF c, n, m
<1>3. Len(c) >= LenSize /\ \A i \in 1 .. LenSize : c[i] = b[i]
  BY <1>1, <1>2, Width
<1>4. SizeOfFirst(c) = z
  <2>1. LenOf(c) = LenOf(b)
    BY <1>1, <1>2, <1>3, LenOfPrefix DEF n
  <2> QED
    BY <2>1 DEF SizeOfFirst
<1> HIDE DEF z
<1>5. HasWhole(c)
  BY <1>1, <1>2, <1>3, <1>4, Width DEF HasWhole
<1>6. FirstOf(c) = FirstOf(b)
  <2> DEFINE f == FirstOf(b)
             g == FirstOf(c)
  <2>1. /\ f \in Cut /\ f.type = b[HeaderSize] /\ Len(f.payload) = z - HeaderSize
        /\ \A j \in 1 .. z - HeaderSize : f.payload[j] = b[HeaderSize + j]
    BY CutProperties DEF z
  <2>2. /\ g \in Cut /\ g.type = c[HeaderSize] /\ Len(g.payload) = z - HeaderSize
        /\ \A j \in 1 .. z - HeaderSize : g.payload[j] = c[HeaderSize + j]
    BY <1>1, <1>4, <1>5, CutProperties
  <2> HIDE DEF f, g
  <2>3. f.type = g.type
    BY <1>1, <1>2, <2>1, <2>2, Width
  <2>4. ASSUME NEW j \in 1 .. z - HeaderSize
        PROVE  f.payload[j] = g.payload[j]
    <3>1. HeaderSize + j \in 1 .. n + m /\ HeaderSize + j <= n
      BY <1>2, Width
    <3>2. c[HeaderSize + j] = b[HeaderSize + j]
      BY <1>1, <3>1
    <3> QED
      BY <2>1, <2>2, <3>2
  <2>5. f.payload \in Seq(Byte) /\ g.payload \in Seq(Byte)
    BY <2>1, <2>2 DEF Cut
  <2>6. f.payload = g.payload
    BY <2>1, <2>2, <2>4, <2>5, SeqEqual
  <2> QED
    BY <2>1, <2>2, <2>3, <2>6 DEF Cut, f, g
<1>7. DropFirst(c) = DropFirst(b) \o t
  <2> DEFINE d == DropFirst(b)
             e == DropFirst(c)
  <2>1. /\ d \in Seq(Byte) /\ Len(d) = n - z
        /\ \A j \in 1 .. n - z : d[j] = b[z + j]
    BY CutProperties DEF z, n
  <2>2. /\ e \in Seq(Byte) /\ Len(e) = (n + m) - z
        /\ \A j \in 1 .. (n + m) - z : e[j] = c[z + j]
    BY <1>1, <1>4, <1>5, CutProperties
  <2> HIDE DEF d, e
  <2>3. /\ d \o t \in Seq(Byte) /\ Len(d \o t) = Len(d) + m
        /\ \A i \in 1 .. Len(d) + m : (d \o t)[i] = IF i <= Len(d) THEN d[i] ELSE t[i - Len(d)]
    BY <2>1, ConcatProperties DEF m
  <2>4. ASSUME NEW i \in 1 .. (n + m) - z
        PROVE  e[i] = (d \o t)[i]
    <3>1. /\ i \in 1 .. Len(d) + m /\ z + i \in 1 .. n + m
          /\ (i <= Len(d)) = (z + i <= n) /\ (z + i) - n = i - Len(d)
      BY <1>2, <2>1, Width
    <3>2. e[i] = IF z + i <= n THEN b[z + i] ELSE t[(z + i) - n]
      BY <1>1, <2>2, <3>1
    <3>3. (d \o t)[i] = IF i <= Len(d) THEN d[i] ELSE t[i - Len(d)]
      BY <2>3, <3>1
    <3>4. i <= Len(d) => i \in 1 .. n - z
      BY <1>2, <2>1, Width
    <3> QED
      BY <2>1, <3>1, <3>2, <3>3, <3>4
  <2>5. Len(e) = Len(d \o t)
    BY <1>2, <2>1, <2>2, <2>3, Width
  <2>6. e = d \o t
    BY <2>2, <2>3, <2>4, <2>5, SeqEqual
  <2> QED
    BY <2>6 DEF d, e
<1> QED
  BY <1>1, <1>5, <1>6, <1>7 DEF c

\* An encoded package is cut out again, and what is behind it is left.
LEMMA EncodedIsCut ==
  ASSUME LengthsFit, NEW p \in Package
  PROVE  /\ HasWhole(Encode(p))
         /\ FirstOf(Encode(p)) = p
         /\ DropFirst(Encode(p)) = <<>>
<1> DEFINE b == Encode(p)
           x == p.payload
           n == Len(x)
<1>1. /\ b \in Seq(Byte) /\ Len(b) = HeaderSize + n /\ n \in Nat
      /\ \A i \in 1 .. LenSize : b[i] = LenBytes(n)[i]
      /\ b[HeaderSize] = p.type
      /\ \A j \in 1 .. n : b[HeaderSize + j] = x[j]
  BY EncodeProperties
<1>2. p \in Cut /\ x \in Seq(Byte) /\ LengthFits(n)
  BY PackageType DEF LengthsFit
<1>3. x \in Seq(Byte) /\ Len(x) = n
  BY <1>2
<1> HIDE DEF b, x, n
<1>4. Len(b) >= LenSize
  BY <1>1, Width
<1>5. LenOf(b) = n
  BY <1>1, <1>2, <1>4, LengthSurvives
<1>6. SizeOfFirst(b) = HeaderSize + n /\ HasWhole(b)
  BY <1>1, <1>4, <1>5, Width DEF SizeOfFirst, HasWhole
<1> DEFINE f == FirstOf(b)
<1>7. /\ f \in Cut /\ f.type = b[HeaderSize]
      /\ Len(f.payload) = SizeOfFirst(b) - HeaderSize
      /\ \A j \in 1 .. SizeOfFirst(b) - HeaderSize : f.payload[j] = b[HeaderSize + j]
      /\ DropFirst(b) \in Seq(Byte)
      /\ Len(DropFirst(b)) = Len(b) - SizeOfFirst(b)
  BY <1>1, <1>6, CutProperties
<1> HIDE DEF f
<1>8. SizeOfFirst(b) - HeaderSize = n
  BY <1>1, <1>6, Width
<1>9. f.payload = x
  <2>1. f.payload \in Seq(Byte) /\ Len(f.payload) = Len(x)
    BY <1>3, <1>7, <1>8 DEF Cut
  <2>2. \A j \in 1 .. Len(x) : f.payload[j] = x[j]
    BY <1>1, <1>3, <1>7, <1>8
  <2> QED
    BY <1>3, <2>1, <2>2, SeqEqual
<1>10. f = p
  BY <1>1, <1>2, <1>7, <1>9 DEF Cut, x
<1>11. DropFirst(b) = <<>>
  <2>1. Len(DropFirst(b)) = 0
    BY <1>1, <1>6, <1>7, Width
  <2> QED
    BY <1>7, <2>1, EmptySeq
<1> QED
  BY <1>6, <1>10, <1>11 DEF b, f

-----------------------------------------------------------------------------
(* Frames *)

\* f answers what is cut out of bytes in at most n steps, for n up to N.
CutsUp(f, N) ==
  \A n \in 0 .. N, b \in Seq(Byte) :
    f[n][b] = IF n > 0 /\ HasWhole(b)
                THEN <<FirstOf(b)>> \o f[n - 1][DropFirst(b)] ELSE <<>>

LEMMA CutsUpExists ==
  ASSUME NEW N \in Nat
  PROVE  \E f \in [0 .. N -> [Seq(Byte) -> Seq(Cut)]] : CutsUp(f, N)
<1> DEFINE B == Seq(Byte)
           C == Seq(Cut)
           Further(g, b) == IF HasWhole(b) THEN <<FirstOf(b)>> \o g[DropFirst(b)] ELSE <<>>
           Step == [i \in 1 .. N |-> [g \in [B -> C] |-> [b \in B |-> Further(g, b)]]]
           none == [b \in B |-> <<>>]
<1>1. ASSUME NEW g \in [B -> C], NEW b \in B
      PROVE  Further(g, b) \in C
  <2>1. CASE ~HasWhole(b)
    BY <2>1
  <2>2. CASE HasWhole(b)
    <3>1. FirstOf(b) \in Cut /\ DropFirst(b) \in Seq(Byte)
      BY <2>2, CutProperties
    <3>2. g[DropFirst(b)] \in Seq(Cut) /\ <<FirstOf(b)>> \in Seq(Cut)
      BY <3>1
    <3>3. <<FirstOf(b)>> \o g[DropFirst(b)] \in Seq(Cut)
      BY <3>2, ConcatProperties
    <3> QED
      BY <2>2, <3>3
  <2> QED
    BY <2>1, <2>2
<1>2. none \in [B -> C]
  OBVIOUS
<1> HIDE DEF Further, B, C
<1>3. Step \in [1 .. N -> [[B -> C] -> [B -> C]]]
  BY <1>1
<1>4. \A i \in 1 .. N, g \in [B -> C], b \in B : Step[i][g][b] = Further(g, b)
  OBVIOUS
<1>5. \A b \in B : none[b] = <<>>
  OBVIOUS
<1> HIDE DEF Step, none
<1> DEFINE S == [B -> C]
<1>6. none \in S /\ Step \in [1 .. N -> [S -> S]]
  BY <1>2, <1>3
<1> HIDE DEF S
<1>7. PICK f \in [0 .. N -> S] : Follows(f, N, none, Step)
  BY <1>6, Recursion
<1>8. f \in [0 .. N -> [Seq(Byte) -> Seq(Cut)]]
  BY <1>7 DEF S, B, C
<1>9. ASSUME NEW n \in 0 .. N, NEW b \in Seq(Byte)
      PROVE  f[n][b] = IF n > 0 /\ HasWhole(b)
                         THEN <<FirstOf(b)>> \o f[n - 1][DropFirst(b)] ELSE <<>>
  <2>1. b \in B
    BY DEF B
  <2>2. CASE n = 0
    <3>1. f[0] = none
      BY <1>7 DEF Follows
    <3>2. f[n][b] = <<>>
      BY <1>5, <2>1, <2>2, <3>1
    <3> QED
      BY <2>2, <3>2
  <2>3. CASE n > 0
    <3>1. n \in 1 .. N /\ n - 1 \in 0 .. N
      BY <2>3
    <3>2. f[n] = Step[n][f[n - 1]]
      BY <1>7, <3>1 DEF Follows
    <3>3. f[n - 1] \in [B -> C]
      BY <1>8, <3>1 DEF B, C
    <3>4. f[n][b] = Further(f[n - 1], b)
      BY <1>4, <2>1, <3>1, <3>2, <3>3
    <3> QED
      BY <2>3, <3>4 DEF Further
  <2> QED
    BY <2>2, <2>3
<1>10. CutsUp(f, N)
  BY <1>9 DEF CutsUp
<1> QED
  BY <1>8, <1>10

\* As many steps as there are bytes are enough.
LEMMA CutsUpAgree ==
  ASSUME NEW N \in Nat, NEW M \in Nat, NEW f, NEW g, CutsUp(f, N), CutsUp(g, M),
         NEW n \in 0 .. N, NEW m \in 0 .. M, NEW b \in Seq(Byte),
         Len(b) <= n, Len(b) <= m
  PROVE  f[n][b] = g[m][b]
<1> DEFINE Same(k) ==
             \A i \in 0 .. N, j \in 0 .. M, c \in Seq(Byte) :
               Len(c) <= k /\ Len(c) <= i /\ Len(c) <= j => f[i][c] = g[j][c]
           P == {k \in Nat : Same(k)}
<1>0. \A c \in Seq(Byte) : Len(c) \in Nat /\ (HasWhole(c) => Len(c) > 0)
  BY LenProperties, Width DEF HasWhole
<1>1. Same(0)
  <2> SUFFICES ASSUME NEW i \in 0 .. N, NEW j \in 0 .. M, NEW c \in Seq(Byte),
                      Len(c) <= 0
               PROVE  f[i][c] = g[j][c]
    OBVIOUS
  <2>1. ~HasWhole(c)
    BY <1>0
  <2> QED
    BY <2>1 DEF CutsUp
<1>2. ASSUME NEW k \in Nat, Same(k)
      PROVE  Same(k + 1)
  <2> SUFFICES ASSUME NEW i \in 0 .. N, NEW j \in 0 .. M, NEW c \in Seq(Byte),
                      Len(c) <= k + 1, Len(c) <= i, Len(c) <= j
               PROVE  f[i][c] = g[j][c]
    OBVIOUS
  <2>1. CASE ~HasWhole(c)
    BY <2>1 DEF CutsUp
  <2>2. CASE HasWhole(c)
    <3> DEFINE d == DropFirst(c)
    <3>1. d \in Seq(Byte) /\ Len(d) < Len(c) /\ Len(c) \in Nat /\ Len(d) \in Nat /\ Len(c) > 0
      BY <1>0, <2>2, CutProperties
    <3>2. f[i][c] = <<FirstOf(c)>> \o f[i - 1][d] /\ g[j][c] = <<FirstOf(c)>> \o g[j - 1][d]
      <4>1. i > 0 /\ j > 0
        BY <3>1
      <4> QED
        BY <2>2, <4>1 DEF CutsUp
    <3> HIDE DEF d
    <3>3. i - 1 \in 0 .. N /\ j - 1 \in 0 .. M /\ Len(d) <= k /\ Len(d) <= i - 1 /\ Len(d) <= j - 1
      BY <3>1
    <3>4. f[i - 1][d] = g[j - 1][d]
      BY <1>2, <3>1, <3>3
    <3> QED
      BY <3>2, <3>4
  <2> QED
    BY <2>1, <2>2
<1>3. P = Nat
  <2>1. P \in SUBSET Nat /\ 0 \in P /\ \A k \in P : k + 1 \in P
    <3> HIDE DEF Same
    <3> QED
      BY <1>1, <1>2
  <2> HIDE DEF P
  <2> QED
    BY <2>1, Induction
<1>4. Same(Len(b))
  BY <1>0, <1>3
<1> QED
  BY <1>0, <1>4

\* Frames cuts off packages as long as there is a whole one in front.
LEMMA FramesUnfold ==
  ASSUME NEW b \in Seq(Byte)
  PROVE  /\ Frames(b) \in Seq(Cut)
         /\ Frames(b) = IF HasWhole(b) THEN <<FirstOf(b)>> \o Frames(DropFirst(b))
                                       ELSE <<>>
<1> DEFINE Rec(f, N) ==
             f = [n \in 0 .. N |->
                    [c \in Seq(Byte) |->
                       IF n > 0 /\ HasWhole(c)
                         THEN <<FirstOf(c)>> \o f[n - 1][DropFirst(c)] ELSE <<>>]]
           cut(N) == CHOOSE f : Rec(f, N)
<1>1. ASSUME NEW N \in Nat
      PROVE  CutsUp(cut(N), N)
  <2>1. PICK f \in [0 .. N -> [Seq(Byte) -> Seq(Cut)]] : CutsUp(f, N)
    BY CutsUpExists
  <2>2. Rec(f, N)
    <3> DEFINE e(n, c) == IF n > 0 /\ HasWhole(c)
                            THEN <<FirstOf(c)>> \o f[n - 1][DropFirst(c)] ELSE <<>>
    <3>1. \A n \in 0 .. N, c \in Seq(Byte) : f[n][c] = e(n, c)
      BY <2>1, Zenon DEF CutsUp
    <3> HIDE DEF e
    <3>2. \A n \in 0 .. N : f[n] = [c \in Seq(Byte) |-> e(n, c)]
      BY <3>1
    <3>3. f = [n \in 0 .. N |-> [c \in Seq(Byte) |-> e(n, c)]]
      BY <3>2
    <3> QED
      BY <3>3, Zenon DEF e
  <2> DEFINE v == cut(N)
  <2>3. Rec(v, N)
    <3> HIDE DEF Rec
    <3> QED
      BY <2>2, Zenon
  <2> HIDE DEF v
  <2>4. ASSUME NEW n \in 0 .. N, NEW c \in Seq(Byte)
        PROVE  v[n][c] = IF n > 0 /\ HasWhole(c)
                           THEN <<FirstOf(c)>> \o v[n - 1][DropFirst(c)] ELSE <<>>
    <3> DEFINE e(i, d) == IF i > 0 /\ HasWhole(d)
                            THEN <<FirstOf(d)>> \o v[i - 1][DropFirst(d)] ELSE <<>>
    <3>1. v = [i \in 0 .. N |-> [d \in Seq(Byte) |-> e(i, d)]]
      BY <2>3, Zenon
    <3> HIDE DEF e
    <3>2. v[n][c] = e(n, c)
      BY <3>1
    <3> QED
      BY <3>2, Zenon DEF e
  <2>5. CutsUp(v, N)
    BY <2>4, Zenon DEF CutsUp
  <2> QED
    BY <2>5 DEF v
<1>2. \A c \in Seq(Byte) : Frames(c) = cut(Len(c))[Len(c)][c]
  BY Zenon DEF Frames
<1> HIDE DEF cut
<1>3. Len(b) \in Nat
  BY LenProperties
<1>4. Frames(b) \in Seq(Cut)
  <2>1. PICK f \in [0 .. Len(b) -> [Seq(Byte) -> Seq(Cut)]] : CutsUp(f, Len(b))
    BY <1>3, CutsUpExists
  <2>2. Len(b) \in 0 .. Len(b) /\ Len(b) <= Len(b)
    BY <1>3
  <2>3. f[Len(b)][b] = cut(Len(b))[Len(b)][b]
    BY <1>1, <1>3, <2>1, <2>2, CutsUpAgree
  <2>4. f[Len(b)][b] \in Seq(Cut)
    BY <2>1, <2>2
  <2> QED
    BY <1>2, <2>3, <2>4
<1> DEFINE g == cut(Len(b))
<1>5. g[Len(b)][b] = IF Len(b) > 0 /\ HasWhole(b)
                       THEN <<FirstOf(b)>> \o g[Len(b) - 1][DropFirst(b)] ELSE <<>>
  <2>1. CutsUp(g, Len(b)) /\ Len(b) \in 0 .. Len(b)
    BY <1>1, <1>3
  <2> HIDE DEF g
  <2> QED
    BY <2>1, Zenon DEF CutsUp
<1>6. CASE ~HasWhole(b)
  <2>1. g[Len(b)][b] = <<>>
    BY <1>6, <1>5, Zenon
  <2> QED
    BY <1>2, <1>4, <1>6, <2>1
<1>7. CASE HasWhole(b)
  <2> DEFINE d == DropFirst(b)
             n == Len(b)
             m == Len(d)
  <2>1. d \in Seq(Byte) /\ m < n /\ m \in Nat
    BY <1>7, CutProperties, LenProperties
  <2>2. n \in Nat
    BY <1>3
  <2>3. cut(n)[n][b] = <<FirstOf(b)>> \o cut(n)[n - 1][d]
    <3>1. Len(b) > 0
      BY <2>1, <2>2
    <3> QED
      BY <1>7, <1>5, <3>1, Zenon
  <2>4. Frames(b) = cut(n)[n][b] /\ Frames(d) = cut(m)[m][d]
    BY <1>2, <2>1
  <2>5. cut(n)[n - 1][d] = cut(m)[m][d]
    <3>1. n - 1 \in 0 .. n /\ m \in 0 .. m /\ Len(d) <= n - 1 /\ Len(d) <= m
      BY <2>1, <2>2
    <3>2. CutsUp(cut(n), n) /\ CutsUp(cut(m), m)
      BY <1>1, <2>1, <2>2
    <3> HIDE DEF n, m, d
    <3> QED
      BY <2>1, <2>2, <3>1, <3>2, CutsUpAgree
  <2> HIDE DEF n, m, d
  <2>6. Frames(b) = <<FirstOf(b)>> \o Frames(d)
    BY <2>3, <2>4, <2>5
  <2> QED
    BY <1>4, <1>7, <2>6 DEF d
<1> QED
  BY <1>6, <1>7

-----------------------------------------------------------------------------
(* Whole packages and nothing else *)

LEMMA FirstBefore ==
  ASSUME NEW S, NEW x \in S, NEW s \in Seq(S)
  PROVE  /\ <<x>> \o s \in Seq(S) /\ <<x>> \o s # <<>>
         /\ Len(<<x>> \o s) = Len(s) + 1
         /\ Head(<<x>> \o s) = x /\ Tail(<<x>> \o s) = s
         /\ \A i \in 1 .. Len(s) : (<<x>> \o s)[i + 1] = s[i]
<1> DEFINE q == <<x>> \o s
           n == Len(s)
<1>1. /\ q \in Seq(S) /\ Len(q) = 1 + n /\ n \in Nat
      /\ \A i \in 1 .. 1 + n : q[i] = IF i <= 1 THEN x ELSE s[i - 1]
  <2>1. <<x>> \in Seq(S) /\ Len(<<x>>) = 1 /\ <<x>>[1] = x
    OBVIOUS
  <2> DEFINE w == <<x>>
  <2> HIDE DEF w
  <2>2. w \in Seq(S) /\ Len(w) = 1 /\ w[1] = x
    BY <2>1 DEF w
  <2>3. /\ w \o s \in Seq(S) /\ Len(w \o s) = Len(w) + Len(s)
        /\ \A i \in 1 .. Len(w) + Len(s) :
             (w \o s)[i] = IF i <= Len(w) THEN w[i] ELSE s[i - Len(w)]
    BY <2>2, ConcatProperties
  <2>4. n \in Nat
    BY LenProperties
  <2>5. q = w \o s
    BY DEF w
  <2> HIDE DEF q
  <2> QED
    BY <2>2, <2>3, <2>4, <2>5
<1> HIDE DEF q
<1>2. q # <<>> /\ \A i \in 1 .. n : q[i + 1] = s[i]
  BY <1>1, EmptySeq
<1>3. /\ Head(q) = q[1] /\ Tail(q) \in Seq(S) /\ Len(Tail(q)) = n
      /\ \A i \in 1 .. n : Tail(q)[i] = q[i + 1]
  BY <1>1, <1>2, HeadTailProperties
<1>4. Tail(q) = s
  BY <1>2, <1>3, SeqEqual
<1>5. Head(q) = x
  BY <1>1, <1>3
<1> QED
  BY <1>1, <1>2, <1>4, <1>5 DEF q

LEMMA FirstBeforePrefix ==
  ASSUME NEW S, NEW x \in S, NEW s \in Seq(S), NEW n \in 0 .. Len(s)
  PROVE  <<x>> \o SubSeq(s, 1, n) = SubSeq(<<x>> \o s, 1, n + 1)
<1> DEFINE q == <<x>> \o s
           m == Len(s)
<1>1. /\ q \in Seq(S) /\ Len(q) = m + 1 /\ m \in Nat /\ Head(q) = x /\ q # <<>>
      /\ \A i \in 1 .. m : q[i + 1] = s[i]
  BY FirstBefore, LenProperties
<1>2. q[1] = x
  BY <1>1
<1> HIDE DEF q
<1>3. n + 1 \in 1 .. Len(q) /\ 1 \in 1 .. Len(q) /\ n \in Nat
  BY <1>1
<1>4. SubSeq(q, 1, n + 1) = <<q[1]>> \o SubSeq(q, 2, n + 1)
  BY <1>1, <1>3, SubSeqRecursiveFirst
<1> DEFINE a == SubSeq(q, 2, n + 1)
           b == SubSeq(s, 1, n)
<1>5. /\ a \in Seq(S) /\ Len(a) = n
      /\ \A i \in 1 .. n : a[i] = q[i + 1]
  <2>1. \A i \in 2 .. n + 1 : q[i] \in S
    BY <1>1, <1>3, ElementOfSeq
  <2>2. /\ a \in Seq(S)
        /\ Len(a) = IF 2 <= n + 1 THEN (n + 1) - 2 + 1 ELSE 0
        /\ \A i \in 1 .. (n + 1) - 2 + 1 : a[i] = q[2 + i - 1]
    <3>1. 2 \in Int /\ n + 1 \in Int
      BY <1>3
    <3> QED
      BY <2>1, <3>1, SubSeqProperties
  <2> HIDE DEF a
  <2>3. (n + 1) - 2 + 1 = n /\ \A i \in 1 .. n : 2 + i - 1 = i + 1
    BY <1>3
  <2> QED
    BY <1>3, <2>2, <2>3
<1>6. /\ b \in Seq(S) /\ Len(b) = n
      /\ \A i \in 1 .. n : b[i] = s[i]
  BY <1>1, <1>3
<1> HIDE DEF a, b
<1>7. a = b
  <2>1. \A i \in 1 .. n : a[i] = b[i]
    BY <1>1, <1>3, <1>5, <1>6
  <2> QED
    BY <1>5, <1>6, <2>1, SeqEqual
<1> QED
  BY <1>2, <1>4, <1>7 DEF a, b, q

\* Cutting the bytes into packages leaves nothing.
Exact(b) ==
  \E n \in Nat : \E rest \in [0 .. n -> Seq(Byte)] :
    /\ rest[0] = b
    /\ rest[n] = <<>>
    /\ \A i \in 1 .. n : HasWhole(rest[i - 1]) /\ rest[i] = DropFirst(rest[i - 1])

LEMMA ExactNothing ==
  /\ <<>> \in Seq(Byte) /\ ~HasWhole(<<>>) /\ Frames(<<>>) = <<>> /\ Exact(<<>>)
<1>1. <<>> \in Seq(Byte) /\ Len(<<>>) = 0
  OBVIOUS
<1>2. ~HasWhole(<<>>)
  BY <1>1, Width DEF HasWhole
<1>3. Frames(<<>>) = <<>>
  BY <1>1, <1>2, FramesUnfold
<1>4. Exact(<<>>)
  <2> DEFINE rest == [i \in 0 .. 0 |-> <<>>]
  <2>1. rest \in [0 .. 0 -> Seq(Byte)] /\ rest[0] = <<>> /\ 1 .. 0 = {} /\ 0 \in Nat
    BY <1>1
  <2> HIDE DEF rest
  <2> QED
    BY <2>1 DEF Exact
<1> QED
  BY <1>1, <1>2, <1>3, <1>4

LEMMA ExactPull ==
  ASSUME NEW b \in Seq(Byte), Exact(b), HasWhole(b)
  PROVE  Exact(DropFirst(b))
<1>1. PICK n \in Nat : \E rest \in [0 .. n -> Seq(Byte)] :
        /\ rest[0] = b
        /\ rest[n] = <<>>
        /\ \A i \in 1 .. n : HasWhole(rest[i - 1]) /\ rest[i] = DropFirst(rest[i - 1])
  BY DEF Exact
<1>2. PICK rest \in [0 .. n -> Seq(Byte)] :
        /\ rest[0] = b
        /\ rest[n] = <<>>
        /\ \A i \in 1 .. n : HasWhole(rest[i - 1]) /\ rest[i] = DropFirst(rest[i - 1])
  BY <1>1
<1>3. n # 0
  BY <1>2, ExactNothing
<1> DEFINE k == n - 1
           less == [i \in 0 .. k |-> rest[i + 1]]
<1>4. k \in Nat /\ less \in [0 .. k -> Seq(Byte)]
  BY <1>3
<1>5. less[0] = DropFirst(b) /\ less[k] = <<>>
  BY <1>2, <1>3
<1>6. ASSUME NEW i \in 1 .. k
      PROVE  HasWhole(less[i - 1]) /\ less[i] = DropFirst(less[i - 1])
  <2>1. i + 1 \in 1 .. n /\ less[i] = rest[i + 1] /\ less[i - 1] = rest[(i + 1) - 1]
    BY <1>3
  <2> HIDE DEF less
  <2> QED
    BY <1>2, <2>1
<1> HIDE DEF k, less
<1> QED
  BY <1>4, <1>5, <1>6 DEF Exact

LEMMA ExactPush ==
  ASSUME LengthsFit, NEW b \in Seq(Byte), Exact(b), NEW p \in Package
  PROVE  /\ Exact(b \o Encode(p))
         /\ Frames(b \o Encode(p)) = Append(Frames(b), p)
<1> DEFINE e == Encode(p)
<1>1. e \in Seq(Byte) /\ HasWhole(e) /\ FirstOf(e) = p /\ DropFirst(e) = <<>> /\ p \in Cut
  BY EncodeProperties, EncodedIsCut, PackageType
<1> HIDE DEF e
<1>2. PICK n \in Nat : \E rest \in [0 .. n -> Seq(Byte)] :
        /\ rest[0] = b
        /\ rest[n] = <<>>
        /\ \A i \in 1 .. n : HasWhole(rest[i - 1]) /\ rest[i] = DropFirst(rest[i - 1])
  BY DEF Exact
<1>3. PICK rest \in [0 .. n -> Seq(Byte)] :
        /\ rest[0] = b
        /\ rest[n] = <<>>
        /\ \A i \in 1 .. n : HasWhole(rest[i - 1]) /\ rest[i] = DropFirst(rest[i - 1])
  BY <1>2
<1>4. rest[n] \o e = e
  BY <1>1, <1>3, ConcatEmptySeq
<1>5. ASSUME NEW i \in 1 .. n
      PROVE  /\ rest[i - 1] \o e \in Seq(Byte)
             /\ HasWhole(rest[i - 1] \o e)
             /\ FirstOf(rest[i - 1] \o e) = FirstOf(rest[i - 1])
             /\ DropFirst(rest[i - 1] \o e) = rest[i] \o e
  <2>1. rest[i - 1] \in Seq(Byte) /\ HasWhole(rest[i - 1]) /\ rest[i] = DropFirst(rest[i - 1])
    BY <1>3
  <2> QED
    BY <1>1, <2>1, WholeExtends
<1>6. Exact(b \o e)
  <2> DEFINE k == n + 1
             more == [i \in 0 .. k |-> IF i <= n THEN rest[i] \o e ELSE <<>>]
  <2>1. \A i \in 0 .. n : rest[i] \o e \in Seq(Byte)
    BY <1>1, ConcatProperties
  <2>2. k \in Nat /\ more \in [0 .. k -> Seq(Byte)]
    BY <2>1, ExactNothing
  <2>3. more[0] = b \o e /\ more[k] = <<>>
    <3>1. 0 \in 0 .. k /\ k \in 0 .. k /\ 0 <= n /\ ~(k <= n)
      OBVIOUS
    <3> QED
      BY <1>3, <3>1
  <2>4. ASSUME NEW i \in 1 .. k
        PROVE  HasWhole(more[i - 1]) /\ more[i] = DropFirst(more[i - 1])
    <3>1. CASE i \in 1 .. n
      <4>0. i \in 0 .. k /\ i - 1 \in 0 .. k /\ i <= n /\ i - 1 <= n
        BY <3>1
      <4>1. more[i - 1] = rest[i - 1] \o e /\ more[i] = rest[i] \o e
        BY <4>0
      <4> HIDE DEF more
      <4> QED
        BY <1>5, <3>1, <4>1
    <3>2. CASE i = n + 1
      <4>1. more[i - 1] = rest[n] \o e /\ more[i] = <<>>
        BY <3>2
      <4> HIDE DEF more
      <4> QED
        BY <1>1, <1>4, <4>1
    <3> QED
      BY <3>1, <3>2
  <2> HIDE DEF k, more
  <2> QED
    BY <2>2, <2>3, <2>4 DEF Exact
<1>7. Frames(b \o e) = Frames(b) \o <<p>>
  <2> DEFINE Grows(i) == Frames(rest[i] \o e) = Frames(rest[i]) \o <<p>>
             P == {j \in Nat : j <= n => Grows(n - j)}
  <2>1. Grows(n)
    <3>1. Frames(e) = <<p>> \o <<>>
      BY <1>1, ExactNothing, FramesUnfold
    <3>2. <<p>> \o <<>> = <<p>> /\ <<>> \o <<p>> = <<p>>
      BY <1>1, ConcatEmptySeq
    <3> QED
      BY <1>3, <1>4, <3>1, <3>2, ExactNothing
  <2>2. ASSUME NEW i \in 1 .. n, Grows(i)
        PROVE  Grows(i - 1)
    <3> DEFINE a == rest[i - 1]
               c == rest[i]
    <3>1. /\ a \in Seq(Byte) /\ c \in Seq(Byte) /\ HasWhole(a) /\ DropFirst(a) = c
          /\ a \o e \in Seq(Byte) /\ HasWhole(a \o e) /\ FirstOf(a \o e) = FirstOf(a)
          /\ DropFirst(a \o e) = c \o e
      <4>1. i - 1 \in 0 .. n /\ i \in 0 .. n
        OBVIOUS
      <4> QED
        BY <1>3, <1>5, <4>1
    <3>2. Frames(c \o e) = Frames(c) \o <<p>>
      BY <2>2
    <3> HIDE DEF a, c
    <3>3. Frames(a \o e) = <<FirstOf(a)>> \o Frames(c \o e)
      BY <3>1, FramesUnfold
    <3>4. Frames(a) = <<FirstOf(a)>> \o Frames(c)
      BY <3>1, FramesUnfold
    <3>5. <<FirstOf(a)>> \in Seq(Cut) /\ Frames(c) \in Seq(Cut) /\ <<p>> \in Seq(Cut)
      <4>1. FirstOf(a) \in Cut
        BY <3>1, CutProperties
      <4>2. Frames(c) \in Seq(Cut)
        BY <3>1, FramesUnfold
      <4> QED
        BY <1>1, <4>1, <4>2
    <3>6. <<FirstOf(a)>> \o (Frames(c) \o <<p>>) = (<<FirstOf(a)>> \o Frames(c)) \o <<p>>
      BY <3>5, ConcatAssociative
    <3>7. Frames(a \o e) = Frames(a) \o <<p>>
      BY <3>2, <3>3, <3>4, <3>6
    <3> QED
      BY <3>7 DEF a
  <2> HIDE DEF Grows
  <2>3. 0 \in P
    BY <2>1
  <2>4. ASSUME NEW j \in P PROVE j + 1 \in P
    <3>0. j \in Nat /\ (j <= n => Grows(n - j))
      OBVIOUS
    <3>1. ASSUME j + 1 <= n
          PROVE  Grows(n - (j + 1))
      <4>1. n - j \in 1 .. n /\ (n - j) - 1 = n - (j + 1) /\ j <= n
        BY <3>0, <3>1
      <4> QED
        BY <2>2, <3>0, <4>1
    <3> QED
      BY <3>0, <3>1
  <2>5. P = Nat
    <3>1. P \in SUBSET Nat
      OBVIOUS
    <3> HIDE DEF P
    <3> QED
      BY <2>3, <2>4, <3>1, Induction
  <2>6. Grows(0)
    <3>1. n \in P /\ n - n = 0 /\ n <= n /\ n \in Nat
      <4> HIDE DEF P
      <4> QED
        BY <2>5
    <3>2. Grows(n - n)
      BY <3>1
    <3> QED
      BY <3>1, <3>2
  <2> QED
    BY <1>3, <2>6 DEF Grows
<1>8. Append(Frames(b), p) = Frames(b) \o <<p>>
  BY <1>1, FramesUnfold, AppendIsConcat
<1> QED
  BY <1>6, <1>7, <1>8 DEF e

\* Fewer bytes hold a prefix of the packages.
LEMMA FramesOfPrefix ==
  ASSUME NEW b \in Seq(Byte), NEW t \in Seq(Byte)
  PROVE  \E n \in 0 .. Len(Frames(b \o t)) : Frames(b) = SubSeq(Frames(b \o t), 1, n)
<1> DEFINE Holds(c) ==
             \E n \in 0 .. Len(Frames(c \o t)) : Frames(c) = SubSeq(Frames(c \o t), 1, n)
           P == {k \in Nat : \A c \in Seq(Byte) : Len(c) <= k => Holds(c)}
<1>1. ASSUME NEW c \in Seq(Byte), ~HasWhole(c)
      PROVE  Holds(c)
  <2>1. Frames(c) = <<>>
    BY <1>1, FramesUnfold
  <2>2. c \o t \in Seq(Byte)
    BY ConcatProperties
  <2>3. Frames(c \o t) \in Seq(Cut)
    BY <2>2, FramesUnfold
  <2>4. 0 \in 0 .. Len(Frames(c \o t))
    BY <2>3, LenProperties
  <2>5. SubSeq(Frames(c \o t), 1, 0) = <<>>
    BY SubSeqEmpty
  <2> QED
    BY <2>1, <2>4, <2>5
<1>2. ASSUME NEW c \in Seq(Byte), HasWhole(c), Holds(DropFirst(c))
      PROVE  Holds(c)
  <2> DEFINE d == DropFirst(c)
             f == FirstOf(c)
             s == Frames(d \o t)
  <2>1. d \in Seq(Byte) /\ f \in Cut
    BY <1>2, CutProperties
  <2>2. c \o t \in Seq(Byte) /\ HasWhole(c \o t) /\ FirstOf(c \o t) = f /\ DropFirst(c \o t) = d \o t
    BY <1>2, WholeExtends
  <2>3. d \o t \in Seq(Byte)
    BY <2>1, ConcatProperties
  <2>4. s \in Seq(Cut)
    BY <2>3, FramesUnfold
  <2>5. PICK n \in 0 .. Len(s) : Frames(d) = SubSeq(s, 1, n)
    BY <1>2
  <2>6. Frames(c \o t) = <<f>> \o s
    BY <2>2, FramesUnfold
  <2>7. Frames(c) = <<f>> \o Frames(d)
    BY <1>2, FramesUnfold
  <2> HIDE DEF d, f, s
  <2>8. Frames(c) = SubSeq(<<f>> \o s, 1, n + 1)
    BY <2>1, <2>4, <2>5, <2>7, FirstBeforePrefix
  <2>9. n + 1 \in 0 .. Len(<<f>> \o s)
    <3>1. Len(<<f>> \o s) = Len(s) + 1 /\ Len(s) \in Nat
      BY <2>1, <2>4, FirstBefore, LenProperties
    <3> QED
      BY <3>1
  <2> QED
    BY <2>6, <2>8, <2>9
<1> HIDE DEF Holds
<1>3. 0 \in P
  <2>1. \A c \in Seq(Byte) : Len(c) <= 0 => ~HasWhole(c)
    BY LenProperties, Width DEF HasWhole
  <2> QED
    BY <1>1, <2>1
<1>4. ASSUME NEW k \in P PROVE k + 1 \in P
  <2>0. k \in Nat /\ \A c \in Seq(Byte) : Len(c) <= k => Holds(c)
    OBVIOUS
  <2>1. ASSUME NEW c \in Seq(Byte), Len(c) <= k + 1
        PROVE  Holds(c)
    <3>1. CASE HasWhole(c)
      <4>1. DropFirst(c) \in Seq(Byte) /\ Len(DropFirst(c)) <= k
        BY <2>0, <2>1, <3>1, CutProperties, LenProperties
      <4> QED
        BY <1>2, <2>0, <3>1, <4>1
    <3> QED
      BY <1>1, <3>1
  <2> QED
    BY <2>0, <2>1
<1>5. P = Nat
  <2>1. P \in SUBSET Nat
    OBVIOUS
  <2> HIDE DEF P
  <2> QED
    BY <1>3, <1>4, <2>1, Induction
<1>6. Holds(b)
  <2>1. Len(b) \in P /\ Len(b) <= Len(b)
    BY <1>5, LenProperties
  <2> QED
    BY <2>1
<1> QED
  BY <1>6 DEF Holds

-----------------------------------------------------------------------------
(* What was pushed, what was pulled, and what the bytes in between hold *)

\* Of the packages ps pushed, rs were pulled, the bytes b hold the next ones,
\* and only a connection that is down has lost the rest.
Ordered(ps, rs, b, isUp) ==
  \E lost \in Seq(Cut) :
    /\ ps = rs \o (Frames(b) \o lost)
    /\ isUp => lost = <<>>

LEMMA CutsAssociate ==
  \A x, y, z \in Seq(Cut) : (x \o y) \o z = x \o (y \o z)
  BY ConcatAssociative

LEMMA OrderedStart == Ordered(<<>>, <<>>, <<>>, TRUE)
<1>1. <<>> \in Seq(Cut) /\ <<>> = <<>> \o (<<>> \o <<>>)
  OBVIOUS
<1> QED
  BY <1>1, ExactNothing DEF Ordered

LEMMA OrderedPush ==
  ASSUME LengthsFit, NEW b \in Seq(Byte), Exact(b), NEW p \in Package,
         NEW ps \in Seq(Cut), NEW rs \in Seq(Cut), Ordered(ps, rs, b, TRUE)
  PROVE  Ordered(Append(ps, p), rs, b \o Encode(p), TRUE)
<1> DEFINE q == Frames(b)
           r == Frames(b \o Encode(p))
<1>1. q \in Seq(Cut) /\ p \in Cut /\ r = Append(q, p) /\ <<>> \in Seq(Cut)
  <2>1. q \in Seq(Cut)
    BY FramesUnfold
  <2>2. p \in Cut
    BY PackageType
  <2>3. r = Append(q, p)
    BY ExactPush
  <2> QED
    BY <2>1, <2>2, <2>3
<1>2. ps = rs \o q
  <2>1. ps = rs \o (q \o <<>>)
    BY DEF Ordered
  <2> HIDE DEF q
  <2>2. q \o <<>> = q
    BY <1>1, ConcatEmptySeq
  <2> QED
    BY <2>1, <2>2
<1>3. Append(ps, p) = rs \o (r \o <<>>)
  <2> HIDE DEF q, r
  <2>1. rs \o Append(q, p) = Append(rs \o q, p)
    BY <1>1, AppendBehind
  <2>2. r \in Seq(Cut)
    BY <1>1
  <2>3. r \o <<>> = r
    BY <2>2, ConcatEmptySeq
  <2> QED
    BY <1>1, <1>2, <2>1, <2>3
<1> QED
  BY <1>1, <1>3 DEF Ordered

LEMMA OrderedPull ==
  ASSUME NEW b \in Seq(Byte), HasWhole(b), NEW isUp,
         NEW ps \in Seq(Cut), NEW rs \in Seq(Cut), Ordered(ps, rs, b, isUp)
  PROVE  Ordered(ps, Append(rs, FirstOf(b)), DropFirst(b), isUp)
<1> DEFINE f == FirstOf(b)
           q == Frames(DropFirst(b))
<1>1. f \in Cut /\ q \in Seq(Cut)
  BY CutProperties, FramesUnfold
<1>2. Frames(b) = <<f>> \o q
  BY FramesUnfold
<1>3. PICK lost \in Seq(Cut) : ps = rs \o (Frames(b) \o lost) /\ (isUp => lost = <<>>)
  BY DEF Ordered
<1> HIDE DEF f, q
<1>4. ps = Append(rs, f) \o (q \o lost)
  <2> DEFINE w == <<f>>
             x == q \o lost
  <2>1. w \in Seq(Cut) /\ Append(rs, f) = rs \o w
    BY <1>1, AppendIsConcat
  <2>2. x \in Seq(Cut)
    BY <1>1, ConcatProperties
  <2>3. (w \o q) \o lost = w \o x
    BY <1>1, <2>1, ConcatAssociative
  <2> HIDE DEF w, x
  <2>4. (rs \o w) \o x = rs \o (w \o x)
    <3>1. rs \in Seq(Cut) /\ w \in Seq(Cut) /\ x \in Seq(Cut)
      BY <2>1, <2>2
    <3> QED
      BY ONLY <3>1, CutsAssociate, Zenon
  <2> QED
    BY <1>2, <1>3, <2>1, <2>3, <2>4 DEF w, x
<1> QED
  BY <1>1, <1>3, <1>4 DEF Ordered, f, q

LEMMA OrderedLoss ==
  ASSUME NEW b \in Seq(Byte), NEW t \in Seq(Byte), NEW isUp,
         NEW ps \in Seq(Cut), NEW rs \in Seq(Cut), Ordered(ps, rs, b \o t, isUp)
  PROVE  Ordered(ps, rs, b, FALSE)
<1> DEFINE q == Frames(b \o t)
<1>1. q \in Seq(Cut)
  BY ConcatProperties, FramesUnfold
<1>2. PICK n \in 0 .. Len(q) : Frames(b) = SubSeq(q, 1, n)
  BY FramesOfPrefix
<1>3. PICK lost \in Seq(Cut) : ps = rs \o (q \o lost)
  BY DEF Ordered
<1> HIDE DEF q
<1> DEFINE a == SubSeq(q, 1, n)
           z == SubSeq(q, n + 1, Len(q))
<1>4. a \in Seq(Cut) /\ z \in Seq(Cut)
  <2>1. Len(q) \in Nat /\ n \in 0 .. Len(q)
    BY <1>1, LenProperties
  <2> QED
    BY <1>1, <2>1
<1>5. a \o z = q
  <2>1. Len(q) \in Nat
    BY <1>1, LenProperties
  <2>2. 1 \in 1 .. Len(q) + 1 /\ n \in 1 - 1 .. Len(q) /\ Len(q) \in n .. Len(q)
    BY <2>1
  <2>3. a \o z = SubSeq(q, 1, Len(q))
    BY <1>1, <2>2, ConcatAdjacentSubSeq
  <2> QED
    BY <1>1, <2>3, SubSeqFull
<1> HIDE DEF a, z
<1>6. z \o lost \in Seq(Cut) /\ a \o (z \o lost) = q \o lost
  <2>1. z \o lost \in Seq(Cut)
    BY <1>4, ConcatProperties
  <2>2. (a \o z) \o lost = a \o (z \o lost)
    <3>1. a \in Seq(Cut) /\ z \in Seq(Cut) /\ lost \in Seq(Cut)
      BY <1>4
    <3> QED
      BY ONLY <3>1, CutsAssociate, ZenonT(30)
  <2> QED
    BY <1>5, <2>1, <2>2
<1>7. ps = rs \o (Frames(b) \o (z \o lost))
  BY <1>2, <1>3, <1>6 DEF a
<1> QED
  BY <1>6, <1>7 DEF Ordered

LEMMA OrderedPulled ==
  ASSUME NEW b \in Seq(Byte), NEW isUp,
         NEW ps \in Seq(Cut), NEW rs \in Seq(Cut), Ordered(ps, rs, b, isUp)
  PROVE  IsPrefix(rs, ps)
<1>1. PICK lost \in Seq(Cut) : ps = rs \o (Frames(b) \o lost)
  BY DEF Ordered
<1> DEFINE x == Frames(b) \o lost
           n == Len(rs)
<1>2. x \in Seq(Cut)
  BY FramesUnfold, ConcatProperties
<1> HIDE DEF x
<1>3. /\ ps \in Seq(Cut) /\ Len(ps) = n + Len(x) /\ n \in Nat /\ Len(x) \in Nat
      /\ \A i \in 1 .. n + Len(x) : ps[i] = IF i <= n THEN rs[i] ELSE x[i - n]
  BY <1>1, <1>2, ConcatProperties, LenProperties DEF x
<1> HIDE DEF n
<1> DEFINE p == SubSeq(ps, 1, n)
<1>4. p \in Seq(Cut) /\ Len(p) = n /\ \A i \in 1 .. n : p[i] = ps[i]
  <2>1. n \in 0 .. Len(ps)
    BY <1>3
  <2> QED
    BY <1>3, <2>1
<1> HIDE DEF p
<1>5. p = rs
  <2>1. \A i \in 1 .. Len(p) : p[i] = rs[i]
    BY <1>3, <1>4
  <2>2. Len(p) = Len(rs)
    BY <1>4 DEF n
  <2> QED
    BY <1>4, <2>1, <2>2, SeqEqual
<1>6. SubSeq(rs, 1, Len(rs)) = rs
  BY SubSeqFull
<1>7. Len(rs) <= Len(ps)
  BY <1>3 DEF n
<1> QED
  BY <1>5, <1>6, <1>7 DEF IsPrefix, p, n

-----------------------------------------------------------------------------
(* push and pull *)

Typed ==
  /\ wire \in Seq(Byte) /\ m_buf \in Seq(Byte)
  /\ pushed \in Seq(Cut) /\ pulled \in Seq(Cut)

\* A package taken whole is one more in flight.
LEMMA PushStep ==
  ASSUME LengthsFit, Typed, NEW p \in Package, push(p, Len(Encode(p))),
         Exact(m_buf \o wire), Ordered(pushed, pulled, m_buf \o wire, TRUE)
  PROVE  /\ Typed'
         /\ Exact((m_buf \o wire)')
         /\ Ordered(pushed', pulled', (m_buf \o wire)', TRUE)
         /\ Frames((m_buf \o wire)') = Append(Frames(m_buf \o wire), p)
         /\ pulled' = pulled
<1> DEFINE e == Encode(p)
           b == m_buf \o wire
<1>1. e \in Seq(Byte) /\ p \in Cut
  BY EncodeProperties, PackageType
<1>2. wire' = wire \o e /\ pushed' = Append(pushed, p) /\ m_buf' = m_buf /\ pulled' = pulled
  <2>1. SubSeq(e, 1, Len(e)) = e
    BY <1>1, SubSeqFull
  <2> QED
    BY <2>1 DEF push
<1>3. b \in Seq(Byte) /\ wire' \in Seq(Byte)
  BY <1>1, <1>2, ConcatProperties DEF Typed
<1>4. (m_buf \o wire)' = b \o e
  <2>1. m_buf \in Seq(Byte) /\ wire \in Seq(Byte)
    BY DEF Typed
  <2>2. (m_buf \o wire) \o e = m_buf \o (wire \o e)
    <3>1. m_buf \in Seq(Byte) /\ wire \in Seq(Byte) /\ e \in Seq(Byte)
      BY <1>1, <2>1
    <3> HIDE DEF e
    <3> QED
      BY <3>1, ConcatAssociative
  <2> QED
    BY <1>2, <2>2
<1>5. pushed' \in Seq(Cut)
  BY <1>1, <1>2, AppendProperties DEF Typed
<1>6. Exact(b \o e) /\ Frames(b \o e) = Append(Frames(b), p)
  BY <1>3, ExactPush
<1>7. Ordered(Append(pushed, p), pulled, b \o e, TRUE)
  BY <1>3, OrderedPush DEF Typed
<1> QED
  BY <1>2, <1>3, <1>4, <1>5, <1>6, <1>7 DEF Typed

\* Moving bytes into the ring keeps their order.
LEMMA PullView ==
  ASSUME Typed, NEW k \in 0 .. Len(wire)
  PROVE  /\ SubSeq(wire, 1, k) \in Seq(Byte) /\ Len(SubSeq(wire, 1, k)) = k
         /\ SubSeq(wire, k + 1, Len(wire)) \in Seq(Byte)
         /\ Len(SubSeq(wire, k + 1, Len(wire))) = Len(wire) - k
         /\ (m_buf \o SubSeq(wire, 1, k)) \o SubSeq(wire, k + 1, Len(wire)) = m_buf \o wire
<1> DEFINE n == Len(wire)
           x == SubSeq(wire, 1, k)
           y == SubSeq(wire, k + 1, n)
<1>1. n \in Nat /\ wire \in Seq(Byte) /\ m_buf \in Seq(Byte)
  BY LenProperties DEF Typed
<1>2. x \in Seq(Byte) /\ y \in Seq(Byte) /\ Len(x) = k /\ Len(y) = n - k
  BY <1>1
<1>3. x \o y = wire
  <2>1. 1 \in 1 .. n + 1 /\ k \in 1 - 1 .. n /\ n \in k .. n
    BY <1>1
  <2>2. x \o y = SubSeq(wire, 1, n)
    BY <1>1, <2>1, ConcatAdjacentSubSeq
  <2> QED
    BY <1>1, <2>2, SubSeqFull
<1> HIDE DEF x, y
<1>4. (m_buf \o x) \o y = m_buf \o (x \o y)
  <2>1. m_buf \in Seq(Byte) /\ x \in Seq(Byte) /\ y \in Seq(Byte)
    BY <1>1, <1>2
  <2> QED
    BY ONLY <2>1, ConcatAssociative
<1> QED
  BY <1>2, <1>3, <1>4 DEF x, y, n

\* A pull hands out the oldest package in flight or none.  What is behind the
\* ring may be what is left of the wire or nothing at all.
LEMMA PullStep ==
  ASSUME Typed, NEW k \in 0 .. Len(wire), pull(k), NEW t \in Seq(Byte), NEW b,
         b = (m_buf \o SubSeq(wire, 1, k)) \o t,
         NEW isUp \in BOOLEAN, isUp => Exact(b)
  PROVE  /\ Typed'
         /\ isUp => Exact(m_buf' \o t)
         /\ Ordered(pushed, pulled, b, isUp)
              => Ordered(pushed', pulled', m_buf' \o t, isUp)
         /\ \/ pulled' = pulled /\ Frames(m_buf' \o t) = Frames(b)
            \/ /\ Frames(b) # <<>>
               /\ pulled' = Append(pulled, Head(Frames(b)))
               /\ Frames(m_buf' \o t) = Tail(Frames(b))
         /\ Len(m_buf') <= Len(m_buf) + k
<1> DEFINE a == m_buf \o SubSeq(wire, 1, k)
<1>1. /\ a \in Seq(Byte) /\ Len(a) = Len(m_buf) + k /\ Len(m_buf) \in Nat
      /\ wire' \in Seq(Byte) /\ pushed' = pushed
  <2>1. /\ SubSeq(wire, 1, k) \in Seq(Byte) /\ Len(SubSeq(wire, 1, k)) = k
        /\ SubSeq(wire, k + 1, Len(wire)) \in Seq(Byte)
    BY PullView
  <2>2. m_buf \in Seq(Byte) /\ Len(m_buf) \in Nat
    BY LenProperties DEF Typed
  <2>3. a \in Seq(Byte) /\ Len(a) = Len(m_buf) + Len(SubSeq(wire, 1, k))
    BY <2>1, <2>2, ConcatProperties
  <2> QED
    BY <2>1, <2>2, <2>3 DEF pull
<1>2. \/ HasWhole(a) /\ pulled' = Append(pulled, FirstOf(a)) /\ m_buf' = DropFirst(a)
      \/ ~HasWhole(a) /\ m_buf' = a /\ pulled' = pulled
  BY DEF pull
<1> HIDE DEF a
<1>3. b = a \o t /\ b \in Seq(Byte)
  BY <1>1, ConcatProperties DEF a
<1>4. CASE ~HasWhole(a)
  <2>1. m_buf' = a /\ pulled' = pulled
    BY <1>2, <1>4
  <2>2. m_buf' \o t = b
    BY <1>3, <2>1
  <2>3. Typed'
    BY <1>1, <2>1 DEF Typed
  <2>4. Len(m_buf') <= Len(m_buf) + k
    BY <1>1, <2>1
  <2> QED
    BY <1>1, <2>1, <2>2, <2>3, <2>4
<1>5. CASE HasWhole(a)
  <2> DEFINE f == FirstOf(a)
             d == DropFirst(a)
  <2>1. pulled' = Append(pulled, f) /\ m_buf' = d
    BY <1>2, <1>5
  <2>2. f \in Cut /\ d \in Seq(Byte) /\ Len(d) < Len(a) /\ Len(d) \in Nat
    BY <1>1, <1>5, CutProperties, LenProperties
  <2>3. HasWhole(b) /\ FirstOf(b) = f /\ DropFirst(b) = d \o t
    BY <1>1, <1>3, <1>5, WholeExtends
  <2> HIDE DEF f, d
  <2>4. Frames(b) = <<f>> \o Frames(d \o t)
    BY <1>3, <2>3, FramesUnfold
  <2>5. d \o t \in Seq(Byte)
    BY <2>2, ConcatProperties
  <2>6. Frames(d \o t) \in Seq(Cut)
    BY <2>5, FramesUnfold
  <2>7. Frames(b) # <<>> /\ Head(Frames(b)) = f /\ Tail(Frames(b)) = Frames(d \o t)
    <3> DEFINE q == Frames(d \o t)
    <3>1. f \in Cut /\ q \in Seq(Cut)
      BY <2>2, <2>6
    <3> HIDE DEF q
    <3>2. <<f>> \o q # <<>> /\ Head(<<f>> \o q) = f /\ Tail(<<f>> \o q) = q
      BY <3>1, FirstBefore, Zenon
    <3> QED
      BY <2>4, <3>2 DEF q
  <2>8. isUp => Exact(d \o t)
    BY <1>3, <2>3, ExactPull
  <2>9. ASSUME Ordered(pushed, pulled, b, isUp)
        PROVE  Ordered(pushed, Append(pulled, f), d \o t, isUp)
    <3>1. pushed \in Seq(Cut) /\ pulled \in Seq(Cut)
      BY DEF Typed
    <3>2. Ordered(pushed, Append(pulled, FirstOf(b)), DropFirst(b), isUp)
      BY <1>3, <2>3, <2>9, <3>1, OrderedPull
    <3> QED
      BY <2>3, <3>2
  <2>10. Append(pulled, f) \in Seq(Cut)
    BY <2>2, AppendProperties DEF Typed
  <2>11. Typed'
    BY <1>1, <2>1, <2>2, <2>10 DEF Typed
  <2>12. Len(m_buf') <= Len(m_buf) + k
    BY <1>1, <2>1, <2>2
  <2> QED
    BY <1>1, <2>1, <2>7, <2>8, <2>9, <2>11, <2>12
<1> QED
  BY <1>4, <1>5
=============================================================================
