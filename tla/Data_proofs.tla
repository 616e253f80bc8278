---------------------------- MODULE Data_proofs -----------------------------
(***************************************************************************)
(* Of data: that the edges of a matrix meet, for every size, rule and      *)
(* pattern (CellularAutomaton); that numbers are read from the bytes they  *)
(* are written to (Buffer); and that what the program sees of keys, mouse  *)
(* and text is what the events it was sent come to, for all events and any *)
(* number of clients (Input).                                              *)
(***************************************************************************)
EXTENDS CellularAutomaton, Input, Lists_proofs, FiniteSetTheorems


-----------------------------------------------------------------------------
(* Quotients and rests *)

(***************************************************************************)
(* Division, for any divisor: quotient and rest are what they must be.     *)
(***************************************************************************)
LEMMA SmallMultiple ==
  ASSUME NEW w \in Nat \ {0}, NEW k \in Int, 0 - w < w * k, w * k < w
  PROVE  k = 0
<1>1. CASE k >= 1
  <2>1. w * k = w * (k - 1) + w
    OBVIOUS
  <2>2. k - 1 \in Nat
    BY <1>1
  <2>3. w * (k - 1) >= 0
    BY <2>2
  <2> QED
    BY <2>1, <2>3
<1>2. CASE k <= 0 - 1
  <2>1. w * k = w * (k + 1) - w
    OBVIOUS
  <2>2. 0 - (k + 1) \in Nat
    BY <1>2
  <2>3. w * (0 - (k + 1)) >= 0
    BY <2>2
  <2> QED
    BY <2>1, <2>3
<1> QED
  BY <1>1, <1>2

LEMMA Division ==
  ASSUME NEW w \in Nat \ {0}, NEW q \in Int, NEW r \in 0 .. w - 1
  PROVE  (q * w + r) \div w = q /\ (q * w + r) % w = r
<1> DEFINE a == q * w + r  p == a \div w  m == a % w
<1>1. a \in Int
  OBVIOUS
<1> HIDE DEF a
<1>2. p \in Int /\ m \in 0 .. w - 1 /\ a = w * p + m
  BY <1>1
<1> HIDE DEF p, m
<1>3. w * (p - q) = r - m
  <2>1. w * (p - q) = w * p - w * q
    BY <1>2
  <2>2. w * p + m = q * w + r
    BY <1>2 DEF a
  <2>3. q * w = w * q /\ w * p \in Int /\ w * q \in Int
    BY <1>2
  <2> QED
    BY <1>2, <2>1, <2>2, <2>3
<1>4. p - q = 0
  BY <1>2, <1>3, SmallMultiple
<1>5. p = q
  BY <1>2, <1>4
<1>6. m = r
  BY <1>2, <1>3, <1>4
<1> QED
  BY <1>5, <1>6 DEF p, m, a

LEMMA DivisionOf ==
  ASSUME NEW w \in Nat \ {0}, NEW a \in Int
  PROVE  a \div w \in Int /\ a % w \in 0 .. w - 1 /\ a = (a \div w) * w + (a % w)
OBVIOUS

LEMMA RestOfSum ==
  ASSUME NEW w \in Nat \ {0}, NEW a \in Int, NEW b \in Int
  PROVE  ((a % w) + b) % w = (a + b) % w
<1> DEFINE p == a \div w  m == a % w  s == m + b  q == s \div w  r == s % w
<1>1. p \in Int /\ m \in 0 .. w - 1 /\ a = p * w + m
  BY DivisionOf
<1> HIDE DEF p, m
<1>2. s \in Int /\ s = m + b
  BY <1>1
<1> HIDE DEF s
<1>3. q \in Int /\ r \in 0 .. w - 1 /\ s = q * w + r
  BY <1>2, DivisionOf
<1> HIDE DEF q, r
<1>4. a + b = (p + q) * w + r
  <2>1. (p + q) * w = p * w + q * w
    BY <1>1, <1>3
  <2>2. p * w \in Int /\ q * w \in Int
    BY <1>1, <1>3
  <2> QED
    BY <1>1, <1>2, <1>3, <2>1, <2>2
<1>5. (a + b) % w = r
  <2>1. p + q \in Int
    BY <1>1, <1>3
  <2> QED
    BY <1>3, <1>4, <2>1, Division
<1> QED
  BY <1>5 DEF r, s, m

LEMMA RestOfRest ==
  ASSUME NEW w \in Nat \ {0}, NEW n \in Nat \ {0}, n % w = 0, NEW a \in Int
  PROVE  (a % n) % w = a % w
<1> DEFINE k == n \div w  p == a \div n  m == a % n  q == m \div w  r == m % w
<1>1. k \in Int /\ n = k * w
  BY DivisionOf
<1>2. p \in Int /\ m \in 0 .. n - 1 /\ a = p * n + m
  BY DivisionOf
<1> HIDE DEF p, m
<1>3. q \in Int /\ r \in 0 .. w - 1 /\ m = q * w + r
  BY <1>2, DivisionOf
<1> HIDE DEF k, q, r
<1>4. a = (p * k + q) * w + r
  <2>1. p * n = (p * k) * w
    BY <1>1, <1>2
  <2>2. p * k \in Int
    BY <1>1, <1>2
  <2> DEFINE u == p * k
  <2> HIDE DEF u
  <2>3. (u + q) * w = u * w + q * w /\ u * w \in Int /\ q * w \in Int
    BY <1>3, <2>2 DEF u
  <2>4. a = u * w + (q * w + r)
    BY <1>2, <1>3, <2>1 DEF u
  <2>5. a = (u + q) * w + r
    BY <1>3, <2>3, <2>4
  <2> QED
    BY <2>5 DEF u
<1>5. p * k + q \in Int
  BY <1>1, <1>2, <1>3
<1>6. a % w = r
  BY <1>3, <1>4, <1>5, Division
<1> QED
  BY <1>6 DEF r, m

LEMMA RestOfSmall ==
  ASSUME NEW w \in Nat \ {0}, NEW a \in 0 .. w - 1
  PROVE  a % w = a
<1>1. (0 * w + a) % w = a
  BY Division
<1> QED
  BY <1>1

(***************************************************************************)
(* One coordinate of a neighbour, further along: the same, if size_t wraps *)
(* where the matrix does or the pattern is not moved that way.             *)
(***************************************************************************)
LEMMA Coordinate ==
  ASSUME NEW w \in Nat \ {0}, NEW n \in Nat \ {0}, NEW u \in 0 .. w - 1, NEW a \in Int,
         NEW e \in Int, a # 0 => n % w = 0
  PROVE  ((((u + e) % n) % w) + a) % w = ((((u + a) % w) + e) % n) % w
<1>1. CASE n % w = 0
  <2>1. ((u + e) % n) % w = (u + e) % w
    <3>1. u + e \in Int
      OBVIOUS
    <3> QED
      BY <1>1, <3>1, RestOfRest
  <2>2. (((u + e) % w) + a) % w = (u + e + a) % w
    <3>1. u + e \in Int
      OBVIOUS
    <3> QED
      BY <3>1, RestOfSum
  <2>3. ((((u + a) % w) + e) % n) % w = (((u + a) % w) + e) % w
    <3>1. ((u + a) % w) + e \in Int
      BY DivisionOf
    <3> QED
      BY <1>1, <3>1, RestOfRest
  <2>4. (((u + a) % w) + e) % w = (u + a + e) % w
    <3>1. u + a \in Int
      OBVIOUS
    <3> QED
      BY <3>1, RestOfSum
  <2>5. u + e + a = u + a + e
    OBVIOUS
  <2> QED
    BY <2>1, <2>2, <2>3, <2>4, <2>5
<1>2. CASE a = 0
  <2>1. u % w = u
    BY RestOfSmall
  <2> DEFINE t == ((u + e) % n) % w
  <2>2. t \in 0 .. w - 1
    <3>1. (u + e) % n \in Int
      BY DivisionOf
    <3> QED
      BY <3>1, DivisionOf
  <2>3. t % w = t
    BY <2>2, RestOfSmall
  <2>4. t + a = t /\ u + a = u
    BY <1>2, <2>2
  <2> QED
    BY <2>1, <2>3, <2>4
<1> QED
  BY <1>1, <1>2

\* The cell in a column and a row.
LEMMA CellOf ==
  ASSUME NEW w \in Nat \ {0}, NEW h \in Nat \ {0}, NEW s, s[1] = w, s[2] = h,
         NEW c \in 0 .. w - 1, NEW r \in 0 .. h - 1
  PROVE  r * w + c \in Cells(s) /\ x(s, r * w + c) = c /\ y(s, r * w + c) = r
<1>1. x(s, r * w + c) = c /\ y(s, r * w + c) = r
  <2>1. (r * w + c) \div w = r /\ (r * w + c) % w = c
    <3>1. r \in Int /\ c \in 0 .. w - 1
      OBVIOUS
    <3> QED
      BY <3>1, Division
  <2>2. x(s, r * w + c) = (r * w + c) % w /\ y(s, r * w + c) = (r * w + c) \div w
    BY DEF x, y
  <2> QED
    BY <2>1, <2>2
<1>2. r * w + c >= 0 /\ r * w + c \in Int
  <2>1. r * w \in Nat
    OBVIOUS
  <2> QED
    BY <2>1
<1>3. r * w + c <= w * h - 1
  <2>1. w * h = w * (h - 1 - r) + r * w + w
    OBVIOUS
  <2>2. h - 1 - r \in Nat
    OBVIOUS
  <2>3. w * (h - 1 - r) \in Nat
    BY <2>2
  <2>4. r * w \in Int
    OBVIOUS
  <2> QED
    BY <2>1, <2>3, <2>4
<1>4. w * h \in Int
  OBVIOUS
<1> QED
  BY <1>1, <1>2, <1>3, <1>4 DEF Cells

LEMMA OfCell ==
  ASSUME NEW w \in Nat \ {0}, NEW h \in Nat \ {0}, NEW s, s[1] = w, s[2] = h, NEW i \in Cells(s)
  PROVE  x(s, i) \in 0 .. w - 1 /\ y(s, i) \in 0 .. h - 1
<1> DEFINE q == i \div w  r == i % w
<1>1. i \in Nat /\ i < w * h
  BY DEF Cells
<1>2. q \in Int /\ r \in 0 .. w - 1 /\ i = q * w + r
  <2>1. i \in Int
    BY <1>1
  <2> QED
    BY <2>1, DivisionOf
<1>3. x(s, i) = r /\ y(s, i) = q
  BY DEF x, y
<1> HIDE DEF q, r
<1>4. q >= 0
  <2> SUFFICES ASSUME q <= 0 - 1
               PROVE  FALSE
    BY <1>2
  <2>1. q * w = w - w * (0 - (q + 1)) - 2 * w
    BY <1>2
  <2>2. 0 - (q + 1) \in Nat
    BY <1>2
  <2>3. w * (0 - (q + 1)) \in Nat /\ q * w \in Int
    BY <1>2, <2>2
  <2> QED
    BY <1>1, <1>2, <2>1, <2>3
<1>5. q <= h - 1
  <2> SUFFICES ASSUME q >= h
               PROVE  FALSE
    BY <1>2
  <2>1. q * w = w * h + w * (q - h)
    BY <1>2
  <2>2. q - h \in Nat
    BY <1>2
  <2>3. w * (q - h) \in Nat /\ q * w \in Int /\ w * h \in Int
    BY <1>2, <2>2
  <2> QED
    BY <1>1, <1>2, <2>1, <2>3
<1> QED
  BY <1>2, <1>3, <1>4, <1>5

Fits == \A k \in 1 .. 2 : along[k] # 0 => 2 ^ SizeBits % shape[k] = 0

EdgesInv ==
  /\ shape[1] \in Nat \ {0} /\ shape[2] \in Nat \ {0}
  /\ along[1] \in Int /\ along[2] \in Int
  /\ neighborhood \subseteq Int \X Int
  /\ EdgesMeet

\* Where the twin has what the matrix has in this cell.
Moved(i) ==
  ((y(shape, i) + along[2]) % shape[2]) * shape[1] + ((x(shape, i) + along[1]) % shape[1])

LEMMA MovedCell ==
  ASSUME EdgesInv, NEW i \in Cells(shape)
  PROVE  /\ Moved(i) \in Cells(shape)
         /\ x(shape, Moved(i)) = (x(shape, i) + along[1]) % shape[1]
         /\ y(shape, Moved(i)) = (y(shape, i) + along[2]) % shape[2]
<1> DEFINE w == shape[1]  h == shape[2]  c == (x(shape, i) + along[1]) % w
           r == (y(shape, i) + along[2]) % h
<1>1. w \in Nat \ {0} /\ h \in Nat \ {0} /\ along[1] \in Int /\ along[2] \in Int
  BY DEF EdgesInv
<1>2. x(shape, i) \in Int /\ y(shape, i) \in Int
  BY <1>1, OfCell
<1>3. c \in 0 .. w - 1 /\ r \in 0 .. h - 1
  <2>1. x(shape, i) + along[1] \in Int /\ y(shape, i) + along[2] \in Int
    BY <1>1, <1>2
  <2> QED
    BY <1>1, <2>1, DivisionOf
<1>4. Moved(i) = r * w + c
  BY DEF Moved
<1> HIDE DEF c, r
<1>5. r * w + c \in Cells(shape) /\ x(shape, r * w + c) = c /\ y(shape, r * w + c) = r
  BY <1>1, <1>3, CellOf
<1> QED
  BY <1>4, <1>5 DEF c, r

(***************************************************************************)
(* A cell of the twin has the neighbours of the cell it stands for.        *)
(***************************************************************************)
LEMMA SameNeighbour ==
  ASSUME EdgesInv, Fits, twin = moved(matrix, shape, along), NEW i \in Cells(shape),
         NEW d \in neighborhood
  PROVE  at(twin, shape, neighbour(i, d)) = at(matrix, shape, neighbour(Moved(i), d))
<1> DEFINE w == shape[1]  h == shape[2]  n == 2 ^ SizeBits  u == x(shape, i)  v == y(shape, i)
           a == along[1]  b == along[2]  e == d[1]  f == d[2]
           c == ((u + e) % n) % w  r == ((v + f) % n) % h
           cc == ((((u + a) % w) + e) % n) % w  rr == ((((v + b) % h) + f) % n) % h
           j == r * w + c
<1>1. /\ w \in Nat \ {0} /\ h \in Nat \ {0} /\ a \in Int /\ b \in Int /\ e \in Int /\ f \in Int
      /\ n \in Nat \ {0} /\ (a # 0 => n % w = 0) /\ (b # 0 => n % h = 0)
  BY CellularAutomatonAssumption DEF EdgesInv, Fits
<1>2. u \in 0 .. w - 1 /\ v \in 0 .. h - 1
  BY <1>1, OfCell
<1>3. neighbour(i, d)[1] = (u + e) % n /\ neighbour(i, d)[2] = (v + f) % n
  BY DEF neighbour
<1>4. at(twin, shape, neighbour(i, d)) = twin[j]
  BY <1>3 DEF at
<1>5. /\ x(shape, Moved(i)) = (u + a) % w
      /\ y(shape, Moved(i)) = (v + b) % h
  BY MovedCell
<1>6. /\ neighbour(Moved(i), d)[1] = (((u + a) % w) + e) % n
      /\ neighbour(Moved(i), d)[2] = (((v + b) % h) + f) % n
  BY <1>5 DEF neighbour
<1>7. at(matrix, shape, neighbour(Moved(i), d)) = matrix[rr * w + cc]
  BY <1>6 DEF at
<1>8. (c + a) % w = cc /\ (r + b) % h = rr
  <2> HIDE DEF w, h, n, u, v, a, b, e, f
  <2>1. ((((u + e) % n) % w) + a) % w = ((((u + a) % w) + e) % n) % w
    <3>1. /\ w \in Nat \ {0} /\ n \in Nat \ {0} /\ u \in 0 .. w - 1
          /\ a \in Int /\ e \in Int /\ (a # 0 => n % w = 0)
      BY <1>1, <1>2
    <3> QED
      BY ONLY <3>1, Coordinate
  <2>2. ((((v + f) % n) % h) + b) % h = ((((v + b) % h) + f) % n) % h
    <3>1. /\ h \in Nat \ {0} /\ n \in Nat \ {0} /\ v \in 0 .. h - 1
          /\ b \in Int /\ f \in Int /\ (b # 0 => n % h = 0)
      BY <1>1, <1>2
    <3> QED
      BY ONLY <3>1, Coordinate
  <2> QED
    BY <2>1, <2>2
<1>9. c \in 0 .. w - 1 /\ r \in 0 .. h - 1
  <2> HIDE DEF w, h, n, u, v, a, b, e, f
  <2>1. u + e \in Int /\ v + f \in Int
    BY <1>1, <1>2
  <2>2. (u + e) % n \in Int /\ (v + f) % n \in Int
    BY <1>1, <2>1, DivisionOf
  <2> QED
    BY <1>1, <2>2, DivisionOf
<1> HIDE DEF c, r, cc, rr
<1>10. j \in Cells(shape) /\ x(shape, j) = c /\ y(shape, j) = r
  BY <1>1, <1>9, CellOf
<1> HIDE DEF j
<1>11. twin[j] = matrix[((r + b) % h) * w + ((c + a) % w)]
  BY <1>10 DEF moved
<1> QED
  BY <1>4, <1>7, <1>8, <1>11

LEMMA SameGeneration ==
  ASSUME EdgesInv, Fits, twin = moved(matrix, shape, along)
  PROVE  next(twin) = moved(next(matrix), shape, along)
<1>1. ASSUME NEW i \in Cells(shape)
      PROVE  next(twin)[i] = next(matrix)[Moved(i)]
  <2> DEFINE j == Moved(i)
  <2>1. j \in Cells(shape)
    BY MovedCell
  <2>2. twin[i] = matrix[j]
    BY DEF moved, Moved
  <2>3. \A d \in neighborhood : at(twin, shape, neighbour(i, d)) = at(matrix, shape, neighbour(j, d))
    BY SameNeighbour
  <2>4. next(twin)[i] = IF rule.kind = "simple" THEN becomes(twin, i) ELSE becomesExtended(twin, i)
    BY DEF next
  <2>5. next(matrix)[j] = IF rule.kind = "simple" THEN becomes(matrix, j) ELSE becomesExtended(matrix, j)
    BY <2>1 DEF next
  <2> HIDE DEF j
  <2>6. \A value : count(twin, i, value) = count(matrix, j, value)
    <3> TAKE value
    <3>1. {d \in neighborhood : at(twin, shape, neighbour(i, d)) = value}
            = {d \in neighborhood : at(matrix, shape, neighbour(j, d)) = value}
      BY <2>3
    <3> QED
      BY <3>1 DEF count
  <2>7. becomes(twin, i) = becomes(matrix, j)
    BY <2>2, <2>6 DEF becomes
  <2>8. becomesExtended(twin, i) = becomesExtended(matrix, j)
    BY <2>2, <2>6 DEF becomesExtended
  <2> QED
    BY <2>4, <2>5, <2>7, <2>8 DEF j
<1>2. moved(next(matrix), shape, along) = [i \in Cells(shape) |-> next(matrix)[Moved(i)]]
  BY DEF moved, Moved
<1>3. next(twin) = [i \in Cells(shape) |-> next(twin)[i]]
  BY DEF next
<1> QED
  BY <1>1, <1>2, <1>3

(***************************************************************************)
(* For matrices of any size and every rule: a pattern goes through the     *)
(* same generations wherever it is, along what divides the range of        *)
(* size_t.                                                                 *)
(***************************************************************************)
THEOREM EdgesAlwaysMeet == SpecAutomaton => []EdgesMeet
<1>1. ASSUME InitAutomaton
      PROVE  EdgesInv
  <2>1. /\ shape = <<1, 1>> /\ along = <<0, 0>> /\ neighborhood = mooreNeighborhood
        /\ matrix = [i \in {0} |-> Empty] /\ twin = matrix
    BY <1>1 DEF InitAutomaton
  <2>2. mooreNeighborhood \subseteq Int \X Int
    BY DEF mooreNeighborhood
  <2>3. twin = moved(matrix, shape, along)
    <3>1. Cells(shape) = {0}
      BY <2>1 DEF Cells
    <3>2. \A i \in {0} : ((y(shape, i) + along[2]) % shape[2]) * shape[1] + ((x(shape, i) + along[1]) % shape[1]) = 0
      BY <2>1 DEF x, y
    <3>3. moved(matrix, shape, along) = [i \in {0} |-> matrix[0]]
      BY <3>1, <3>2 DEF moved
    <3> QED
      BY <2>1, <3>3
  <2> QED
    BY <2>1, <2>2, <2>3 DEF EdgesInv, EdgesMeet
<1>2. ASSUME EdgesInv, [NextAutomaton]_automatonVars
      PROVE  EdgesInv'
  <2>1. CASE UNCHANGED automatonVars
    BY <1>2, <2>1 DEF EdgesInv, EdgesMeet, automatonVars, moved, x, y, Cells
  <2>2. CASE Proceed
    <3>1. /\ matrix' = next(matrix) /\ twin' = next(twin) /\ shape' = shape /\ along' = along
          /\ neighborhood' = neighborhood
      BY <2>2 DEF Proceed
    <3>2. Fits => next(twin) = moved(next(matrix), shape, along)
      BY <1>2, SameGeneration DEF EdgesInv, EdgesMeet, Fits
    <3>3. EdgesMeet'
      BY <3>1, <3>2 DEF EdgesMeet, Fits
    <3> QED
      BY <1>2, <3>1, <3>3 DEF EdgesInv
  <2>3. CASE \E s \in Shape, r \in Rules, n \in {mooreNeighborhood, vonNeumannNeighborhood} :
               \E alive \in SUBSET Cells(s), d \in {<<1, 0>>, <<0, 1>>} : Begin(s, r, n, alive, d)
    <3>1. PICK s \in Shape, n \in {mooreNeighborhood, vonNeumannNeighborhood},
               d \in {<<1, 0>>, <<0, 1>>} :
            shape' = s /\ neighborhood' = n /\ along' = d /\ twin' = moved(matrix', s, d)
      BY <2>3 DEF Begin
    <3>2. s[1] \in Nat \ {0} /\ s[2] \in Nat \ {0}
      BY CellularAutomatonAssumption
    <3>3. n \subseteq Int \X Int
      BY DEF mooreNeighborhood, vonNeumannNeighborhood
    <3>4. d[1] \in Int /\ d[2] \in Int
      OBVIOUS
    <3>5. EdgesMeet'
      BY <3>1 DEF EdgesMeet
    <3> QED
      BY <3>1, <3>2, <3>3, <3>4, <3>5 DEF EdgesInv
  <2> QED
    BY <1>2, <2>1, <2>2, <2>3 DEF NextAutomaton
<1>3. EdgesInv => EdgesMeet
  BY DEF EdgesInv
<1> QED
  BY <1>1, <1>2, <1>3, PTL DEF SpecAutomaton

-----------------------------------------------------------------------------
(* Numbers in a buffer *)

LEMMA ByteWidth == Base \in Nat \ {0} /\ Base = 256
  BY DEF Base

\* The recursion in Shifted defines what it says.
LEMMA ShiftedUnfolds ==
  ASSUME NEW n \in Nat, NEW size \in Nat
  PROVE  /\ Shifted(n, size) \in [0 .. size -> Nat]
         /\ Shifted(n, size)[0] = n
         /\ \A i \in 1 .. size : Shifted(n, size)[i] = Shifted(n, size)[i - 1] \div Base
<1> DEFINE Step == [i \in 1 .. size |-> [m \in Nat |-> m \div Base]]
           Rec(f) == f = [i \in 0 .. size |-> IF i = 0 THEN n ELSE f[i - 1] \div Base]
<1>1. PICK f \in [0 .. size -> Nat] : Follows(f, size, n, Step)
  <2>1. Step \in [1 .. size -> [Nat -> Nat]]
    BY ByteWidth
  <2> HIDE DEF Step
  <2> QED
    BY <2>1, Recursion
<1>2. ASSUME NEW i \in 0 .. size
      PROVE  f[i] = IF i = 0 THEN n ELSE f[i - 1] \div Base
  <2>1. CASE i = 0
    BY <1>1, <2>1 DEF Follows
  <2>2. CASE i # 0
    <3>1. i \in 1 .. size /\ i - 1 \in 0 .. size
      BY <2>2
    <3>2. f[i] = Step[i][f[i - 1]] /\ f[i - 1] \in Nat
      BY <1>1, <3>1 DEF Follows
    <3>3. Step[i][f[i - 1]] = f[i - 1] \div Base
      BY <3>1, <3>2
    <3> QED
      BY <2>2, <3>2, <3>3
  <2> QED
    BY <2>1, <2>2
<1>3. Rec(f)
  <2>1. f = [i \in 0 .. size |-> f[i]]
    OBVIOUS
  <2> QED
    BY <1>2, <2>1
<1>4. ASSUME NEW g, Rec(g)
      PROVE  g = f
  <2>1. /\ DOMAIN g = 0 .. size /\ g[0] = n
        /\ \A i \in 1 .. size : g[i] = g[i - 1] \div Base
    BY <1>4
  <2> DEFINE P == {i \in Nat : i <= size => g[i] = f[i]}
  <2>2. 0 \in P
    BY <1>2, <2>1
  <2>3. ASSUME NEW i \in P
        PROVE  i + 1 \in P
    <3> SUFFICES ASSUME i + 1 <= size
                 PROVE  g[i + 1] = f[i + 1]
      OBVIOUS
    <3>1. /\ i + 1 \in 1 .. size /\ i + 1 \in 0 .. size /\ i + 1 # 0
          /\ (i + 1) - 1 = i /\ g[i] = f[i]
      OBVIOUS
    <3> HIDE DEF P
    <3> QED
      BY <1>2, <2>1, <3>1
  <2>4. P = Nat
    <3>1. P \in SUBSET Nat
      OBVIOUS
    <3> HIDE DEF P
    <3> QED
      BY <2>2, <2>3, <3>1, Induction
  <2>5. \A i \in 0 .. size : g[i] = f[i]
    BY <2>4
  <2>6. g = [i \in 0 .. size |-> g[i]]
    BY <1>4
  <2>7. f = [i \in 0 .. size |-> f[i]]
    OBVIOUS
  <2> HIDE DEF Rec, P
  <2> QED
    BY <2>5, <2>6, <2>7
<1>5. Shifted(n, size) = f
  <2>1. Shifted(n, size) = CHOOSE left : Rec(left)
    BY Zenon DEF Shifted
  <2> HIDE DEF Rec
  <2> QED
    BY <1>3, <1>4, <2>1, Zenon
<1>6. f[0] = n
  BY <1>2
<1>7. \A i \in 1 .. size : f[i] = f[i - 1] \div Base
  <2> SUFFICES ASSUME NEW i \in 1 .. size PROVE f[i] = f[i - 1] \div Base
    OBVIOUS
  <2>1. i \in 0 .. size /\ i # 0
    OBVIOUS
  <2> QED
    BY <1>2, <2>1
<1> QED
  BY <1>5, <1>6, <1>7

\* A number that fits the bytes it is given is read as it was written.
FitsBytes(n, size) == n \in Nat /\ Shifted(n, size)[size] = 0

LEMMA InMemoryType ==
  ASSUME NEW n \in Nat, NEW size \in Nat
  PROVE  /\ inMemory(n, size) \in Seq(0 .. Base - 1) /\ Len(inMemory(n, size)) = size
         /\ \A i \in 1 .. size : inMemory(n, size)[i] = Shifted(n, size)[i - 1] % Base
<1> DEFINE left == Shifted(n, size)
           b == [i \in 1 .. size |-> left[i - 1] % Base]
<1>1. left \in [0 .. size -> Nat]
  BY ShiftedUnfolds
<1> HIDE DEF left
<1>2. ASSUME NEW i \in 1 .. size PROVE left[i - 1] % Base \in 0 .. Base - 1
  <2>1. left[i - 1] \in Nat
    BY <1>1
  <2> QED
    BY <2>1, ByteWidth
<1>3. b \in Seq(0 .. Base - 1) /\ Len(b) = size
  BY <1>2
<1>4. inMemory(n, size) = b
  BY DEF inMemory, left
<1> QED
  BY <1>3, <1>4 DEF left

LEMMA MemorySurvives ==
  ASSUME NEW n, NEW size \in Nat, FitsBytes(n, size)
  PROVE  fromMemory(inMemory(n, size)) = n
<1> DEFINE left == Shifted(n, size)
           b == inMemory(n, size)
           Rec(g) == g = [i \in 0 .. size |->
                            IF i = 0 THEN 0 ELSE Base * g[i - 1] + b[size + 1 - i]]
           f == [i \in 0 .. size |-> left[size - i]]
<1>1. /\ n \in Nat /\ left \in [0 .. size -> Nat] /\ left[0] = n /\ left[size] = 0
      /\ \A i \in 1 .. size : left[i] = left[i - 1] \div Base
  <2>1. n \in Nat /\ left[size] = 0
    BY DEF FitsBytes
  <2> HIDE DEF left
  <2> QED
    BY <2>1, ShiftedUnfolds DEF left
<1>2. Len(b) = size /\ \A i \in 1 .. size : b[i] = left[i - 1] % Base
  BY <1>1, InMemoryType
<1> HIDE DEF left, b
<1>3. ASSUME NEW i \in 1 .. size
      PROVE  left[size - i] = Base * left[size - (i - 1)] + b[size + 1 - i]
  <2> DEFINE v == left[size - i]
  <2>1. /\ size - i \in 0 .. size /\ size + 1 - i \in 1 .. size
        /\ (size + 1 - i) - 1 = size - i /\ size - (i - 1) = size + 1 - i
    OBVIOUS
  <2>2. left[size - (i - 1)] = v \div Base /\ b[size + 1 - i] = v % Base /\ v \in Nat
    BY <1>1, <1>2, <2>1
  <2> HIDE DEF v
  <2>3. v = Base * (v \div Base) + (v % Base)
    BY <2>2, ByteWidth
  <2> QED
    BY <2>2, <2>3 DEF v
<1>4. ASSUME NEW i \in 0 .. size
      PROVE  f[i] = IF i = 0 THEN 0 ELSE Base * f[i - 1] + b[size + 1 - i]
  <2>1. CASE i = 0
    BY <1>1, <2>1
  <2>2. CASE i # 0
    <3>1. i \in 1 .. size /\ i - 1 \in 0 .. size
      BY <2>2
    <3>2. f[i] = left[size - i] /\ f[i - 1] = left[size - (i - 1)]
      BY <3>1
    <3> QED
      BY <1>3, <2>2, <3>1, <3>2
  <2> QED
    BY <2>1, <2>2
<1>5. Rec(f)
  <2>1. f = [i \in 0 .. size |-> f[i]]
    OBVIOUS
  <2> HIDE DEF f
  <2> QED
    BY <1>4, <2>1
<1>6. f[size] = n
  BY <1>1
<1>7. DOMAIN f = 0 .. size
  OBVIOUS
<1> HIDE DEF f
<1>8. ASSUME NEW g, Rec(g)
      PROVE  g[size] = n
  <2>1. g[0] = 0 /\ \A i \in 1 .. size : g[i] = Base * g[i - 1] + b[size + 1 - i]
    BY <1>8
  <2>2. f[0] = 0 /\ \A i \in 1 .. size : f[i] = Base * f[i - 1] + b[size + 1 - i]
    BY <1>4
  <2> DEFINE P == {i \in Nat : i <= size => g[i] = f[i]}
  <2>3. 0 \in P
    BY <2>1, <2>2
  <2>4. ASSUME NEW i \in P
        PROVE  i + 1 \in P
    <3> SUFFICES ASSUME i + 1 <= size
                 PROVE  g[i + 1] = f[i + 1]
      OBVIOUS
    <3>1. i + 1 \in 1 .. size /\ (i + 1) - 1 = i /\ g[i] = f[i]
      OBVIOUS
    <3> HIDE DEF P
    <3> QED
      BY <2>1, <2>2, <3>1
  <2>5. P = Nat
    <3>1. P \in SUBSET Nat
      OBVIOUS
    <3> HIDE DEF P
    <3> QED
      BY <2>3, <2>4, <3>1, Induction
  <2> QED
    BY <1>6, <2>5
<1> DEFINE number == CHOOSE g : Rec(g)
<1>9. Rec(number)
  <2> HIDE DEF Rec
  <2> QED
    BY <1>5, Zenon
<1>10. fromMemory(b) = number[size]
  BY <1>2 DEF fromMemory
<1> HIDE DEF number, Rec
<1> QED
  BY <1>8, <1>9, <1>10 DEF b

\* Numbers of one byte and of two, and those of four: that TLC's integers end
\* before the last of them is no matter here.
LEMMA FitsInOne ==
  ASSUME NEW n \in 0 .. 255
  PROVE  FitsBytes(n, 1)
<1>1. n \in Nat /\ 1 \in 1 .. 1 /\ 1 - 1 = 0
  OBVIOUS
<1>2. Shifted(n, 1)[0] = n /\ Shifted(n, 1)[1] = Shifted(n, 1)[0] \div Base
  <2>1. \A i \in 1 .. 1 : Shifted(n, 1)[i] = Shifted(n, 1)[i - 1] \div Base
    BY <1>1, ShiftedUnfolds
  <2>2. Shifted(n, 1)[0] = n
    BY <1>1, ShiftedUnfolds
  <2> QED
    BY <1>1, <2>1, <2>2
<1> QED
  BY <1>1, <1>2, ByteWidth DEF FitsBytes

LEMMA TwoDigits ==
  ASSUME NEW w \in Nat \ {0}, NEW n \in Nat, n < w * w
  PROVE  (n \div w) \div w = 0
<1> DEFINE q == n \div w  r == n % w
<1>1. q \in Int /\ r \in 0 .. w - 1 /\ n = q * w + r
  BY DivisionOf
<1> HIDE DEF q, r
<1>2. CASE q < 0
  <2> DEFINE d == (0 - 1) - q
  <2>1. d \in Nat /\ q = (0 - 1) - d
    BY <1>1, <1>2
  <2> HIDE DEF d
  <2>2. q * w = (0 - w) - d * w /\ d * w \in Nat
    BY <2>1
  <2> QED
    BY <1>1, <2>2
<1>3. CASE q >= w
  <2> DEFINE d == q - w
  <2>1. d \in Nat /\ q = w + d
    BY <1>1, <1>3
  <2> HIDE DEF d
  <2>2. q * w = w * w + d * w /\ d * w \in Nat /\ w * w \in Nat
    BY <2>1
  <2> QED
    BY <1>1, <2>2
<1>4. CASE q \in 0 .. w - 1
  <2>1. (0 * w + q) \div w = 0
    BY <1>4, Division
  <2>2. 0 * w + q = q
    BY <1>4
  <2> QED
    BY <2>1, <2>2 DEF q
<1> QED
  BY <1>1, <1>2, <1>3, <1>4

LEMMA TopWidth == Base * Base \in Nat /\ Top \in Nat /\ Top = Base * Base - 1
<1>1. Top = Base * Base - 1
  BY DEF Top
<1>2. Base - 1 \in Nat /\ Base \in Nat
  BY ByteWidth
<1> DEFINE m == Base - 1
<1>3. Base * Base = m * Base + Base /\ m * Base \in Nat
  <2>1. Base = m + 1
    BY <1>2
  <2> HIDE DEF m
  <2>2. (m + 1) * Base = m * Base + Base /\ m * Base \in Nat
    BY <1>2 DEF m
  <2> QED
    BY <2>1, <2>2
<1> HIDE DEF m
<1> QED
  BY <1>1, <1>2, <1>3

LEMMA FitsInTwo ==
  ASSUME NEW n \in 0 .. Top
  PROVE  FitsBytes(n, 2)
<1> DEFINE left == Shifted(n, 2)
<1>1. n \in Nat /\ n < Base * Base
  <2> DEFINE z == Base * Base
  <2>1. z \in Nat /\ Top \in Nat /\ Top = z - 1
    BY TopWidth
  <2> HIDE DEF z
  <2>2. n \in Nat /\ n < z
    BY <2>1
  <2> QED
    BY <2>2 DEF z
<1>2. left[0] = n /\ left[1] = left[0] \div Base /\ left[2] = left[1] \div Base
  <2>1. n \in Nat /\ 2 \in Nat
    BY <1>1
  <2>2. left[0] = n /\ \A i \in 1 .. 2 : left[i] = left[i - 1] \div Base
    <3> DEFINE size == 2
    <3>1. size \in Nat
      OBVIOUS
    <3> HIDE DEF size
    <3>2. /\ Shifted(n, size)[0] = n
          /\ \A i \in 1 .. size : Shifted(n, size)[i] = Shifted(n, size)[i - 1] \div Base
      BY <2>1, <3>1, ShiftedUnfolds, Zenon
    <3> QED
      BY <3>2, Zenon DEF size
  <2> HIDE DEF left
  <2> QED
    BY <2>2
<1> HIDE DEF left
<1>3. left[2] = (n \div Base) \div Base
  BY <1>2
<1>4. (n \div Base) \div Base = 0
  BY <1>1, ByteWidth, TwoDigits
<1>5. left[2] = 0
  BY <1>3, <1>4
<1> QED
  BY <1>1, <1>5 DEF FitsBytes, left

LEMMA MakesSequence ==
  ASSUME NEW S, NEW n \in Nat, NEW f \in [1 .. n -> S]
  PROVE  f \in Seq(S) /\ Len(f) = n
  OBVIOUS

LEMMA FlipType ==
  ASSUME NEW d \in Bytes, NEW p \in Nat, NEW size \in Nat, p + size <= Len(d)
  PROVE  /\ flipEndian(d, p, size) \in Bytes /\ Len(flipEndian(d, p, size)) = Len(d)
         /\ \A i \in 1 .. size : flipEndian(d, p, size)[p + i] = d[p + size + 1 - i]
         /\ \A i \in p + size + 1 .. Len(d) : flipEndian(d, p, size)[i] = d[i]
<1> DEFINE n == Len(d)
           f == [i \in 1 .. n |-> IF i \in p + 1 .. p + size THEN d[2 * p + size + 1 - i]
                                  ELSE d[i]]
<1>1. n \in Nat /\ DOMAIN d = 1 .. n /\ \A i \in 1 .. n : d[i] \in 0 .. Base - 1
  BY LenProperties, ElementOfSeq DEF Bytes
<1>2. p + size <= n
  OBVIOUS
<1>3. flipEndian(d, p, size) = f
  BY <1>1 DEF flipEndian
<1> HIDE DEF n
<1>4. ASSUME NEW i \in 1 .. n
      PROVE  f[i] \in 0 .. Base - 1
  <2>1. CASE i \in p + 1 .. p + size
    <3>1. 2 * p + size + 1 - i \in 1 .. n
      BY <1>1, <1>2, <2>1
    <3> QED
      BY <1>1, <2>1, <3>1
  <2> QED
    BY <1>1, <2>1
<1>5. f \in Seq(0 .. Base - 1) /\ Len(f) = n
  <2>1. f \in [1 .. n -> 0 .. Base - 1]
    <3> HIDE DEF f
    <3>1. f = [i \in 1 .. n |-> f[i]]
      BY DEF f
    <3> QED
      BY <1>4, <3>1
  <2> HIDE DEF f
  <2> QED
    BY <1>1, <2>1, MakesSequence
<1>6. ASSUME NEW i \in 1 .. size
      PROVE  f[p + i] = d[p + size + 1 - i]
  <2>1. p + i \in 1 .. n /\ p + i \in p + 1 .. p + size
    BY <1>1, <1>2
  <2>2. 2 * p + size + 1 - (p + i) = p + size + 1 - i
    BY <1>1
  <2>3. f[p + i] = d[2 * p + size + 1 - (p + i)]
    BY <2>1
  <2> QED
    BY <2>2, <2>3
<1>7. ASSUME NEW i \in p + size + 1 .. n
      PROVE  f[i] = d[i]
  <2>1. i \in 1 .. n /\ i \notin p + 1 .. p + size
    BY <1>1, <1>2
  <2> QED
    BY <2>1
<1> HIDE DEF f
<1> QED
  BY <1>3, <1>5, <1>6, <1>7 DEF n, Bytes

LEMMA WriteType ==
  ASSUME NEW n \in Nat, NEW size \in Nat
  PROVE  /\ write(n, size) \in Bytes /\ Len(write(n, size)) = size
         /\ \A i \in 1 .. size : write(n, size)[i] = inMemory(n, size)[size + 1 - i]
<1> DEFINE b == inMemory(n, size)
<1>1. b \in Bytes /\ Len(b) = size
  BY InMemoryType DEF Bytes
<1>2. write(n, size) = flipEndian(b, 0, size)
  BY DEF write
<1> HIDE DEF b
<1>3. \A i \in 1 .. size : 0 + i = i /\ 0 + size + 1 - i = size + 1 - i
  OBVIOUS
<1>4. /\ flipEndian(b, 0, size) \in Bytes /\ Len(flipEndian(b, 0, size)) = size
      /\ \A i \in 1 .. size : flipEndian(b, 0, size)[0 + i] = b[0 + size + 1 - i]
  <2>1. 0 \in Nat /\ 0 + size <= Len(b)
    BY <1>1
  <2> QED
    BY <1>1, <2>1, FlipType
<1> QED
  BY <1>2, <1>3, <1>4 DEF b

\* A ReadBuffer between two reads.
At(d, p, v) == [data |-> d, pos |-> p, value |-> v, ok |-> TRUE]

\* A number is read where it was written, whatever is before and behind it.
LEMMA PrimitiveRead ==
  ASSUME NEW d \in Bytes, NEW p \in Nat, NEW v, NEW n, NEW size \in Nat,
         FitsBytes(n, size), p + size <= Len(d),
         \A i \in 1 .. size : d[p + i] = write(n, size)[i]
  PROVE  readPrimitive(At(d, p, v), size)
           = At(flipEndian(d, p, size), p + size, n)
<1> DEFINE f == flipEndian(d, p, size)
           r == At(d, p, v)
           c == SubSeq(f, p + 1, p + size)
           b == inMemory(n, size)
<1>1. n \in Nat /\ Len(d) \in Nat
  BY DEF FitsBytes, Bytes
<1>2. /\ f \in Bytes /\ Len(f) = Len(d)
      /\ \A i \in 1 .. size : f[p + i] = d[p + size + 1 - i]
  BY FlipType
<1>3. b \in Bytes /\ Len(b) = size
  BY <1>1, InMemoryType DEF Bytes
<1>4. \A i \in 1 .. size : write(n, size)[i] = b[size + 1 - i]
  BY <1>1, WriteType
<1> HIDE DEF f, b
<1>5. c = b
  <2>1. c \in Bytes /\ Len(c) = size /\ \A i \in 1 .. size : c[i] = f[p + i]
    <3>1. p + 1 \in 1 .. Len(f) + 1 /\ p + size \in p .. Len(f) /\ Len(f) \in Nat
      BY <1>1, <1>2
    <3>2. \A i \in 1 .. size : i + (p + 1) - 1 = p + i
      OBVIOUS
    <3>3. c \in Seq(0 .. Base - 1) /\ Len(c) = size
      <4>1. \A i \in p + 1 .. p + size : f[i] \in 0 .. Base - 1
        <5> SUFFICES ASSUME NEW i \in p + 1 .. p + size PROVE f[i] \in 0 .. Base - 1
          OBVIOUS
        <5>1. i \in 1 .. Len(f)
          BY <3>1
        <5> QED
          BY <1>2, <5>1, ElementOfSeq DEF Bytes
      <4>2. p + 1 \in Int /\ p + size \in Int
        OBVIOUS
      <4>3. /\ c \in Seq(0 .. Base - 1)
            /\ Len(c) = IF p + 1 <= p + size THEN (p + size) - (p + 1) + 1 ELSE 0
        BY <4>1, <4>2, SubSeqProperties
      <4> QED
        BY <4>3
    <3>4. \A i \in 1 .. size : c[i] = f[p + i]
      <4>1. \A i \in 1 .. (p + size) - (p + 1) + 1 : c[i] = f[(p + 1) + i - 1]
        OBVIOUS
      <4> HIDE DEF c
      <4>2. \A i \in 1 .. size : i \in 1 .. (p + size) - (p + 1) + 1 /\ (p + 1) + i - 1 = p + i
        OBVIOUS
      <4> QED
        BY <4>1, <4>2
    <3> QED
      BY <3>3, <3>4 DEF Bytes
  <2>2. ASSUME NEW i \in 1 .. size
        PROVE  c[i] = b[i]
    <3>1. size + 1 - i \in 1 .. size /\ size + 1 - (size + 1 - i) = i
          /\ p + size + 1 - i = p + (size + 1 - i)
      OBVIOUS
    <3>2. f[p + i] = d[p + (size + 1 - i)]
      BY <1>2, <3>1
    <3>3. d[p + (size + 1 - i)] = b[i]
      BY <1>4, <3>1
    <3> QED
      BY <2>1, <3>2, <3>3
  <2> HIDE DEF c
  <2>3. c = [i \in 1 .. size |-> c[i]] /\ b = [i \in 1 .. size |-> b[i]]
    BY <1>3, <2>1 DEF Bytes
  <2> QED
    BY <2>2, <2>3
<1>6. fromMemory(c) = n
  BY <1>5, MemorySurvives DEF b
<1>7. ~(available(r) < size)
  BY <1>1 DEF available, At
<1>8. readPrimitive(r, size) = [[[r EXCEPT !.data = f] EXCEPT !.pos = p + size] EXCEPT !.value = fromMemory(c)]
  BY <1>7 DEF readPrimitive, At, f
<1> QED
  BY <1>6, <1>8 DEF At, f

\* What comes back of an optional number: the top one is lost.
Lossy(v) == IF v = Top THEN Nullopt ELSE v
Raised(v) == IF v = Nullopt THEN 0 ELSE (v + 1) % (Top + 1)

LEMMA RaisedFits ==
  ASSUME NEW v \in Nullopt .. Top
  PROVE  /\ FitsBytes(Raised(v), 2) /\ Raised(v) \in Nat
         /\ Lossy(v) = IF Raised(v) = 0 THEN Nullopt ELSE Raised(v) - 1
<1>1. Top \in Nat /\ Nullopt = 0 - 1 /\ v \in Int /\ 0 - 1 <= v /\ v <= Top
  BY TopWidth DEF Nullopt
<1>2. Raised(v) \in 0 .. Top /\ Lossy(v) = IF Raised(v) = 0 THEN Nullopt ELSE Raised(v) - 1
  <2>1. CASE v = 0 - 1
    <3>1. Raised(v) = 0 /\ Lossy(v) = v
      BY <1>1, <2>1 DEF Raised, Lossy
    <3> QED
      BY <1>1, <2>1, <3>1
  <2>2. CASE v = Top
    <3>1. Raised(v) = (Top + 1) % (Top + 1) /\ Lossy(v) = Nullopt
      BY <1>1, <2>2 DEF Raised, Lossy
    <3>2. (Top + 1) % (Top + 1) = 0
      BY <1>1
    <3> QED
      BY <1>1, <3>1, <3>2
  <2>3. CASE v # 0 - 1 /\ v # Top
    <3>1. Raised(v) = (v + 1) % (Top + 1) /\ Lossy(v) = v
      BY <1>1, <2>3 DEF Raised, Lossy
    <3>2. (v + 1) % (Top + 1) = v + 1
      BY <1>1, <2>3
    <3>3. Raised(v) = v + 1
      BY <3>1, <3>2
    <3> QED
      BY <1>1, <2>3, <3>1, <3>3
  <2> QED
    BY <2>1, <2>2, <2>3
<1>3. Raised(v) \in Nat
  BY <1>1, <1>2
<1> HIDE DEF Raised
<1> QED
  BY <1>2, <1>3, FitsInTwo

LEMMA LossyRead ==
  ASSUME NEW d \in Bytes, NEW p \in Nat, NEW w, NEW v \in Nullopt .. Top, p + 2 <= Len(d),
         \A i \in 1 .. 2 : d[p + i] = writeWithLoss(v)[i]
  PROVE  readWithLoss(At(d, p, w))
           = At(flipEndian(d, p, 2), p + 2, Lossy(v))
<1> DEFINE f == flipEndian(d, p, 2)
           r == At(d, p, w)
           n == Raised(v)
<1>1. writeWithLoss(v) = write(n, 2)
  BY DEF writeWithLoss, Raised
<1>2. FitsBytes(n, 2) /\ Lossy(v) = IF n = 0 THEN Nullopt ELSE n - 1
  BY RaisedFits
<1> HIDE DEF n
<1>3. \A i \in 1 .. 2 : d[p + i] = write(n, 2)[i]
  BY <1>1
<1>4. readPrimitive(r, 2) = At(f, p + 2, n)
  BY <1>2, <1>3, PrimitiveRead
<1> HIDE DEF f, r
<1> DEFINE q == At(f, p + 2, n)
<1>5. q.ok /\ q.value = n
  BY DEF At
<1>6. readWithLoss(r) = [q EXCEPT !.value = IF n = 0 THEN Nullopt ELSE n - 1]
  <2> HIDE DEF q
  <2>1. readPrimitive(r, 2) = q
    BY <1>4 DEF q
  <2> QED
    BY <1>5, <2>1 DEF readWithLoss
<1>7. readWithLoss(r) = [q EXCEPT !.value = Lossy(v)]
  <2> HIDE DEF q
  <2> QED
    BY <1>2, <1>5, <1>6
<1> QED
  BY <1>7 DEF At, f, r

LEMMA Joined ==
  ASSUME NEW s \in Bytes, NEW t \in Bytes
  PROVE  /\ s \o t \in Bytes /\ Len(s \o t) = Len(s) + Len(t)
         /\ \A i \in 1 .. Len(s) : (s \o t)[i] = s[i]
         /\ \A i \in 1 .. Len(t) : (s \o t)[Len(s) + i] = t[i]
  BY ConcatProperties, LenProperties DEF Bytes

\* An event as it comes out of its bytes.
Received(e) ==
  [client |-> owner(e), type |-> e.type, code |-> IF e.type = Quit THEN 0 ELSE e.code]

Event == [client : Nobody .. Top, type : KeyDown .. Quit, code : 0 .. Top]

LEMMA EventSurvives ==
  ASSUME NEW e \in Event
  PROVE  deserialize(serialize(e)) = {Received(e)}
<1> DEFINE a == writeWithLoss(e.client)
           b == write(e.type, 1)
           c == IF e.type = Quit THEN <<>> ELSE write(e.code, 2)
           d == a \o b \o c
           m == Len(c)
           d1 == flipEndian(d, 0, 2)
           d2 == flipEndian(d1, 2, 1)
           d3 == flipEndian(d2, 3, 2)
           code == IF e.type = Quit THEN 0 ELSE e.code
<1>1. /\ e.client \in Nullopt .. Top /\ e.type \in 0 .. 255 /\ e.code \in 0 .. Top
      /\ FitsBytes(e.type, 1) /\ FitsBytes(e.code, 2) /\ e.type \in Nat /\ e.code \in Nat
      /\ Raised(e.client) \in Nat /\ a = write(Raised(e.client), 2)
  <2>1. e.client \in Nullopt .. Top /\ e.type \in 0 .. 255 /\ e.code \in 0 .. Top
    BY DEF Event, Nobody, KeyDown, Quit
  <2>2. Top \in Nat
    BY TopWidth
  <2> QED
    BY <2>1, <2>2, RaisedFits, FitsInOne, FitsInTwo, SMTT(20) DEF writeWithLoss, Raised
<1>2. /\ a \in Bytes /\ Len(a) = 2 /\ b \in Bytes /\ Len(b) = 1
      /\ c \in Bytes /\ m \in Nat /\ (e.type # Quit => m = 2)
  <2>1. <<>> \in Bytes /\ Len(<<>>) = 0
    BY EmptySeq DEF Bytes
  <2>3. a \in Bytes /\ Len(a) = 2 /\ b \in Bytes /\ Len(b) = 1
    <3>1. 2 \in Nat /\ 1 \in Nat
      OBVIOUS
    <3> HIDE DEF a
    <3> QED
      BY <1>1, <3>1, WriteType
  <2>2. write(e.code, 2) \in Bytes /\ Len(write(e.code, 2)) = 2
    BY <1>1, WriteType
  <2> QED
    <3> HIDE DEF a, b
    <3> QED
      BY <2>1, <2>2, <2>3
<1>3. serialize(e) = d
  BY DEF serialize
<1>4. /\ d \in Bytes /\ Len(d) = 3 + m
      /\ d[1] = a[1] /\ d[2] = a[2] /\ d[3] = b[1]
      /\ (e.type # Quit => d[4] = c[1] /\ d[5] = c[2])
  <2> DEFINE ab == a \o b
  <2> HIDE DEF a, b, c
  <2>1. ab \in Bytes /\ Len(ab) = 3 /\ ab[1] = a[1] /\ ab[2] = a[2] /\ ab[3] = b[1]
    <3>1. /\ ab \in Bytes /\ Len(ab) = Len(a) + Len(b)
          /\ \A i \in 1 .. Len(a) : ab[i] = a[i]
          /\ \A i \in 1 .. Len(b) : ab[Len(a) + i] = b[i]
      BY <1>2, Joined
    <3>2. /\ Len(ab) = 2 + 1 /\ \A i \in 1 .. 2 : ab[i] = a[i]
          /\ \A i \in 1 .. 1 : ab[2 + i] = b[i]
      BY <1>2, <3>1
    <3> HIDE DEF ab
    <3>3. ab[2 + 1] = b[1] /\ 2 + 1 = 3 /\ 1 \in 1 .. 2 /\ 2 \in 1 .. 2
      BY <3>2
    <3>4. ab[1] = a[1] /\ ab[2] = a[2]
      BY <3>2
    <3> QED
      BY <3>1, <3>2, <3>3, <3>4
  <2> HIDE DEF ab
  <2>2. d = ab \o c
    BY DEF ab
  <2> HIDE DEF d
  <2>3. /\ d \in Bytes /\ Len(d) = Len(ab) + m
        /\ \A i \in 1 .. Len(ab) : d[i] = ab[i]
        /\ \A i \in 1 .. m : d[Len(ab) + i] = c[i]
    BY <1>2, <2>1, <2>2, Joined
  <2> HIDE DEF m
  <2>4. Len(d) = 3 + m /\ \A i \in 1 .. 3 : d[i] = ab[i]
    BY <1>2, <2>1, <2>3
  <2>5. \A i \in 1 .. m : d[3 + i] = c[i]
    BY <1>2, <2>1, <2>3
  <2>6. e.type # Quit => d[3 + 1] = c[1] /\ d[3 + 2] = c[2]
    BY <1>2, <2>5
  <2> QED
    BY <2>1, <2>3, <2>4, <2>6
<1> HIDE DEF a, b, d
<1>5. /\ readWithLoss(Reader(d, 0)) = At(d1, 2, owner(e))
      /\ d1 \in Bytes /\ Len(d1) = 3 + m /\ \A i \in 3 .. 3 + m : d1[i] = d[i]
  <2>1. Reader(d, 0) = At(d, 0, Nullopt)
    BY DEF Reader, At
  <2>2. \A i \in 1 .. 2 : d[0 + i] = writeWithLoss(e.client)[i]
    BY <1>4 DEF a
  <2>3. owner(e) = Lossy(e.client)
    BY DEF owner, Lossy, Nobody
  <2>4. 0 \in Nat /\ 0 + 2 <= Len(d) /\ 0 + 2 = 2 /\ 2 \in Nat
    BY <1>2, <1>4
  <2>5. readWithLoss(At(d, 0, Nullopt)) = At(d1, 0 + 2, Lossy(e.client))
    <3> HIDE DEF d1
    <3> QED
      BY <1>1, <1>4, <2>2, <2>4, LossyRead DEF d1
  <2>6. d1 \in Bytes /\ Len(d1) = Len(d) /\ \A i \in 0 + 2 + 1 .. Len(d) : d1[i] = d[i]
    BY <1>4, <2>4, FlipType
  <2> HIDE DEF d1
  <2> QED
    BY <1>4, <2>1, <2>3, <2>4, <2>5, <2>6
<1> HIDE DEF d1
<1>6. /\ readPrimitive(At(d1, 2, owner(e)), 1) = At(d2, 3, e.type)
      /\ d2 \in Bytes /\ Len(d2) = 3 + m /\ \A i \in 4 .. 3 + m : d2[i] = d1[i]
  <2>1. d1[2 + 1] = b[1] /\ 2 + 1 <= Len(d1) /\ 2 \in Nat /\ 1 \in Nat /\ 2 + 1 = 3
    BY <1>2, <1>4, <1>5
  <2>2. \A i \in 1 .. 1 : d1[2 + i] = write(e.type, 1)[i]
    BY <2>1 DEF b
  <2>3. readPrimitive(At(d1, 2, owner(e)), 1) = At(d2, 2 + 1, e.type)
    <3> HIDE DEF d2
    <3> QED
      BY <1>1, <1>5, <2>1, <2>2, PrimitiveRead DEF d2
  <2>4. d2 \in Bytes /\ Len(d2) = Len(d1) /\ \A i \in 2 + 1 + 1 .. Len(d1) : d2[i] = d1[i]
    BY <1>5, <2>1, FlipType
  <2> HIDE DEF d2
  <2> QED
    BY <1>5, <2>1, <2>3, <2>4
<1> HIDE DEF d2
<1>7. e.type # Quit => readPrimitive(At(d2, 3, e.type), 2) = At(d3, 5, e.code)
  <2> SUFFICES ASSUME e.type # Quit
               PROVE  readPrimitive(At(d2, 3, e.type), 2) = At(d3, 5, e.code)
    OBVIOUS
  <2>1. /\ d2[3 + 1] = c[1] /\ d2[3 + 2] = c[2] /\ 3 + 2 <= Len(d2)
        /\ 3 \in Nat /\ 2 \in Nat /\ 3 + 2 = 5
    BY <1>2, <1>4, <1>5, <1>6
  <2>2. \A i \in 1 .. 2 : d2[3 + i] = write(e.code, 2)[i]
    BY <2>1
  <2> HIDE DEF d3, c
  <2> QED
    BY <1>1, <1>6, <2>1, <2>2, PrimitiveRead DEF d3
<1> HIDE DEF c, d3
<1>8. LET client == At(d1, 2, owner(e))
          type == At(d2, 3, e.type)
          q == IF e.type = Quit THEN [type EXCEPT !.value = 0] ELSE At(d3, 5, e.code)
      IN /\ client.ok /\ type.ok /\ q.ok
         /\ client.value = owner(e) /\ type.value = e.type /\ q.value = code
  BY DEF At
<1> QED
  BY <1>3, <1>5, <1>6, <1>7, <1>8 DEF deserialize, Received, At

-----------------------------------------------------------------------------
(* What a key types *)

LEMMA LowerCases == \A j \in 1 .. 26 : LowerSyms[j] = InLowerCase[LetterNames[j]]
<1>1. \A j \in 1 .. 13 : LowerSyms[j] = InLowerCase[LetterNames[j]]
  BY DEF LowerSyms, InLowerCase, LetterNames
<1>2. \A j \in 14 .. 26 : LowerSyms[j] = InLowerCase[LetterNames[j]]
  BY DEF LowerSyms, InLowerCase, LetterNames
<1> QED
  BY <1>1, <1>2

LEMMA UpperCases == \A j \in 1 .. 26 : j # 21 => UpperSyms[j] = LetterNames[j]
<1>1. \A j \in 1 .. 20 : UpperSyms[j] = LetterNames[j]
  BY DEF UpperSyms, LetterNames
<1>2. \A j \in 22 .. 26 : UpperSyms[j] = LetterNames[j]
  BY DEF UpperSyms, LetterNames
<1> QED
  BY <1>1, <1>2

\* keySym gives what the key is named for.
LEMMA NameIsTyped ==
  ASSUME NEW k, NEW upper \in BOOLEAN
  PROVE  TypesItsName(keySym(k, upper), k, upper)
<1>1. ASSUME k \in LetterCodes, ~upper
      PROVE  keySym(k, upper) = InLowerCase[LetterNames[k - 3]]
  <2>1. k - 3 \in 1 .. 26
    BY <1>1 DEF LetterCodes
  <2>2. keySym(k, upper) = LowerSyms[k - 3]
    BY <1>1, <2>1 DEF keySym, LetterCodes, DigitCodes
  <2> QED
    BY <2>1, <2>2, LowerCases
<1>2. ASSUME k \in LetterCodes \ {ScancodeU}, upper
      PROVE  keySym(k, upper) = LetterNames[k - 3]
  <2>1. k - 3 \in 1 .. 26 /\ k - 3 # 21
    BY <1>2 DEF LetterCodes, ScancodeU
  <2>2. keySym(k, upper) = UpperSyms[k - 3]
    BY <1>2, <2>1 DEF keySym, LetterCodes, DigitCodes
  <2> QED
    BY <2>1, <2>2, UpperCases
<1>3. ASSUME k \in DigitCodes, ~upper
      PROVE  keySym(k, upper) = DigitNames[k - 29]
  <2>1. k \notin LetterCodes
    BY <1>3 DEF LetterCodes, DigitCodes
  <2>2. keySym(k, upper) = DigitSyms[k - 29]
    BY <1>3, <2>1 DEF keySym
  <2> QED
    BY <2>2 DEF DigitSyms, DigitNames
<1> QED
  BY <1>1, <1>2, <1>3 DEF TypesItsName

-----------------------------------------------------------------------------
(* What the events of a client come to *)

Codes == 0 .. BufferSize - 1

\* Of the first n events of s.
Of(s, j, c, type) == owner(s[j]) = c /\ s[j].type = type
Pressed(s, j, c) == Of(s, j, c, KeyDown) /\ s[j].code < BufferSize
Down(s, n, c, k) ==
  \E j \in 1 .. n :
    /\ Pressed(s, j, c) /\ s[j].code = k
    /\ \A l \in j + 1 .. n : ~(Of(s, l, c, KeyUp) /\ s[l].code = k)
Owners(s, n) == {owner(s[j]) : j \in 1 .. n}

TypedAt(s, c) == {j \in DOMAIN s : Pressed(s, j, c) /\ s[j].code # ScancodeLShift}
Sym(s, c) == [j \in DOMAIN s |-> keySym(s[j].code, Down(s, j, c, ScancodeLShift))]
Numbers1(n) == [i \in 1 .. n |-> i]
Typing(s, n, c) == Select(Numbers1(n), TypedAt(s, c))
Typed(s, n, c) == [i \in DOMAIN Typing(s, n, c) |-> Sym(s, c)[Typing(s, n, c)[i]]]

LEMMA DownGrows ==
  ASSUME NEW s, NEW n \in Nat, NEW c, NEW k
  PROVE  Down(s, n + 1, c, k) <=>
           IF Pressed(s, n + 1, c) /\ s[n + 1].code = k THEN TRUE
           ELSE Down(s, n, c, k) /\ ~(Of(s, n + 1, c, KeyUp) /\ s[n + 1].code = k)
<1> DEFINE Here(j) == Pressed(s, j, c) /\ s[j].code = k
           Ends(l) == Of(s, l, c, KeyUp) /\ s[l].code = k
<1>1. Down(s, n + 1, c, k) <=>
        \E j \in 1 .. n + 1 : Here(j) /\ \A l \in j + 1 .. n + 1 : ~Ends(l)
  BY DEF Down
<1>2. Down(s, n, c, k) <=> \E j \in 1 .. n : Here(j) /\ \A l \in j + 1 .. n : ~Ends(l)
  BY DEF Down
<1> HIDE DEF Here, Ends
<1>3. CASE Here(n + 1)
  <2>1. n + 1 \in 1 .. n + 1 /\ \A l \in (n + 1) + 1 .. n + 1 : ~Ends(l)
    OBVIOUS
  <2>2. Down(s, n + 1, c, k)
    BY <1>1, <1>3, <2>1
  <2> QED
    BY <1>3, <2>2 DEF Here
<1>4. CASE ~Here(n + 1)
  <2>1. ASSUME Down(s, n + 1, c, k)
        PROVE  Down(s, n, c, k) /\ ~Ends(n + 1)
    <3>1. PICK j \in 1 .. n + 1 : Here(j) /\ \A l \in j + 1 .. n + 1 : ~Ends(l)
      BY <1>1, <2>1
    <3>2. j \in 1 .. n /\ n + 1 \in j + 1 .. n + 1
      BY <1>4, <3>1
    <3>3. \A l \in j + 1 .. n : ~Ends(l)
      BY <3>1, <3>2
    <3> QED
      BY <1>2, <3>1, <3>2, <3>3
  <2>2. ASSUME Down(s, n, c, k), ~Ends(n + 1)
        PROVE  Down(s, n + 1, c, k)
    <3>1. PICK j \in 1 .. n : Here(j) /\ \A l \in j + 1 .. n : ~Ends(l)
      BY <1>2, <2>2
    <3>2. j \in 1 .. n + 1 /\ \A l \in j + 1 .. n + 1 : ~Ends(l)
      <4>1. \A l \in j + 1 .. n + 1 : l \in j + 1 .. n \/ l = n + 1
        OBVIOUS
      <4> QED
        BY <2>2, <3>1, <4>1
    <3> QED
      BY <1>1, <3>1, <3>2
  <2> QED
    BY <1>4, <2>1, <2>2 DEF Here, Ends
<1> QED
  BY <1>3, <1>4

\* The first n events are what matters.
LEMMA DownSame ==
  ASSUME NEW s, NEW t, NEW n \in Nat, NEW c, NEW k, \A j \in 1 .. n : s[j] = t[j]
  PROVE  Down(s, n, c, k) <=> Down(t, n, c, k)
<1> DEFINE Ends(u, l) == Of(u, l, c, KeyUp) /\ u[l].code = k
           Starts(u, j) == Pressed(u, j, c) /\ u[j].code = k
<1>2. \A j \in 1 .. n : (Ends(s, j) <=> Ends(t, j)) /\ (Starts(s, j) <=> Starts(t, j))
  BY DEF Pressed, Of
<1> DEFINE Stays(u) == \E j \in 1 .. n : Starts(u, j) /\ \A l \in j + 1 .. n : ~Ends(u, l)
<1>3. (Down(s, n, c, k) <=> Stays(s)) /\ (Down(t, n, c, k) <=> Stays(t))
  BY DEF Down
<1> HIDE DEF Ends, Starts
<1>4. ASSUME NEW j \in 1 .. n, NEW l \in j + 1 .. n
      PROVE  l \in 1 .. n
  OBVIOUS
<1>5. Stays(s) <=> Stays(t)
  BY <1>2, <1>4
<1> QED
  BY <1>3, <1>5

LEMMA DownNone ==
  ASSUME NEW s, NEW n \in Nat, NEW c, NEW k, c \notin Owners(s, n)
  PROVE  ~Down(s, n, c, k)
  BY DEF Down, Pressed, Of, Owners

LEMMA NumbersGrow ==
  ASSUME NEW n \in Nat
  PROVE  /\ Numbers1(n) \in Seq(Nat) /\ Len(Numbers1(n)) = n
         /\ \A i \in 1 .. n : Numbers1(n)[i] = i
         /\ Numbers1(n + 1) = Append(Numbers1(n), n + 1)
<1>1. \A m \in Nat : /\ Numbers1(m) \in Seq(Nat) /\ Len(Numbers1(m)) = m
                     /\ \A i \in 1 .. m : Numbers1(m)[i] = i
  <2> SUFFICES ASSUME NEW m \in Nat
               PROVE  /\ Numbers1(m) \in Seq(Nat) /\ Len(Numbers1(m)) = m
                      /\ \A i \in 1 .. m : Numbers1(m)[i] = i
    OBVIOUS
  <2>1. Numbers1(m) \in [1 .. m -> Nat]
    BY DEF Numbers1
  <2> QED
    BY <2>1, MakesSequence DEF Numbers1
<1> DEFINE a == Append(Numbers1(n), n + 1)
           b == Numbers1(n + 1)
<1>2. /\ a \in Seq(Nat) /\ Len(a) = n + 1 /\ a[n + 1] = n + 1
      /\ \A i \in 1 .. n : a[i] = i
  BY <1>1, AppendProperties
<1>3. b \in Seq(Nat) /\ Len(b) = n + 1 /\ \A i \in 1 .. n + 1 : b[i] = i
  BY <1>1
<1> HIDE DEF a, b
<1>4. \A i \in 1 .. n + 1 : a[i] = b[i]
  BY <1>2, <1>3
<1>5. a = b
  BY <1>2, <1>3, <1>4, SeqEqual
<1> QED
  BY <1>1, <1>5 DEF a, b

LEMMA TypingType ==
  ASSUME NEW s, NEW n \in Nat, NEW c
  PROVE  /\ Typing(s, n, c) \in Seq(TypedAt(s, c))
         /\ DOMAIN Typing(s, n, c) = 1 .. Len(Typing(s, n, c))
         /\ Len(Typing(s, n, c)) \in Nat
<1>1. Typing(s, n, c) \in Seq(Nat \cap TypedAt(s, c))
  BY NumbersGrow, SelectPicks DEF Typing
<1>2. Nat \cap TypedAt(s, c) \subseteq TypedAt(s, c)
  OBVIOUS
<1>3. Typing(s, n, c) \in Seq(TypedAt(s, c))
  <2> HIDE DEF Typing, TypedAt
  <2> QED
    BY <1>1, <1>2
<1> QED
  BY <1>3, LenProperties

LEMMA TypedGrows ==
  ASSUME NEW s, NEW n \in Nat, NEW c
  PROVE  Typed(s, n + 1, c) =
           IF n + 1 \in TypedAt(s, c) THEN Append(Typed(s, n, c), Sym(s, c)[n + 1])
           ELSE Typed(s, n, c)
<1> DEFINE t == Typing(s, n, c)
           f == Sym(s, c)
           m == Len(t)
<1>1. /\ t \in Seq(TypedAt(s, c)) /\ DOMAIN t = 1 .. m /\ m \in Nat
  BY TypingType
<1>2. Typing(s, n + 1, c) = IF n + 1 \in TypedAt(s, c) THEN Append(t, n + 1) ELSE t
  <2> DEFINE S == TypedAt(s, c)
             q == Numbers1(n)
  <2>1. q \in Seq(Nat) /\ n + 1 \in Nat /\ Numbers1(n + 1) = Append(q, n + 1)
    <3>1. q \in Seq(Nat)
      BY NumbersGrow
    <3>2. Numbers1(n + 1) = Append(q, n + 1)
      BY NumbersGrow
    <3> QED
      BY <3>1, <3>2
  <2>2. t = Select(q, S) /\ Typing(s, n + 1, c) = Select(Numbers1(n + 1), S)
    BY DEF Typing
  <2> HIDE DEF q, S, t
  <2>3. Select(Append(q, n + 1), S) = IF n + 1 \in S THEN Append(Select(q, S), n + 1)
                                      ELSE Select(q, S)
    <3> DEFINE z == n + 1
    <3>1. z \in Nat
      BY <2>1
    <3> HIDE DEF z
    <3>2. Select(Append(q, z), S) = IF z \in S THEN Append(Select(q, S), z) ELSE Select(q, S)
      BY <2>1, <3>1, SelectAppend, Zenon
    <3> QED
      BY <3>2 DEF z
  <2> QED
    BY <2>1, <2>2, <2>3 DEF S
<1> HIDE DEF t, f, m
<1>3. CASE n + 1 \in TypedAt(s, c)
  <2> DEFINE a == Append(t, n + 1)
             b == [i \in 1 .. m |-> f[t[i]]]
             d == Append(b, f[n + 1])
  <2>1. /\ DOMAIN a = 1 .. m + 1 /\ a[m + 1] = n + 1 /\ \A i \in 1 .. m : a[i] = t[i]
    BY <1>1, <1>3, AppendProperties DEF m
  <2>2. b \in Seq({f[t[i]] : i \in 1 .. m}) /\ Len(b) = m
    <3>1. b \in [1 .. m -> {f[t[i]] : i \in 1 .. m}]
      OBVIOUS
    <3> QED
      BY <1>1, <3>1, MakesSequence
  <2>3. d = [i \in 1 .. m + 1 |-> f[a[i]]]
    <3> DEFINE e == [i \in 1 .. m + 1 |-> f[a[i]]]
               S == {f[t[i]] : i \in 1 .. m} \cup {f[n + 1]}
    <3>1. b \in Seq(S)
      <4>1. b \in [1 .. m -> S]
        OBVIOUS
      <4> QED
        BY <1>1, <4>1, MakesSequence
    <3>2. d \in Seq(S) /\ Len(d) = m + 1 /\ d[m + 1] = f[n + 1]
          /\ \A i \in 1 .. m : d[i] = b[i]
      <4> HIDE DEF b, S
      <4>1. f[n + 1] \in S
        BY DEF S
      <4> QED
        BY <2>2, <3>1, <4>1, AppendProperties
    <3>3. e \in Seq(S) /\ Len(e) = m + 1
      <4>1. \A i \in 1 .. m + 1 : f[a[i]] \in S
        BY <1>1, <2>1
      <4>2. e \in [1 .. m + 1 -> S]
        <5> HIDE DEF S, a
        <5> QED
          BY <4>1
      <4> HIDE DEF e, S
      <4> QED
        BY <1>1, <4>2, MakesSequence
    <3>4. \A i \in 1 .. m + 1 : d[i] = e[i]
      <4>1. \A i \in 1 .. m : d[i] = e[i]
        <5> HIDE DEF a, d
        <5> QED
          BY <1>1, <2>1, <3>2
      <4>2. d[m + 1] = e[m + 1]
        <5> HIDE DEF a, d
        <5> QED
          BY <1>1, <2>1, <3>2
      <4>3. \A i \in 1 .. m + 1 : i \in 1 .. m \/ i = m + 1
        BY <1>1
      <4> HIDE DEF d, e
      <4> QED
        BY <4>1, <4>2, <4>3
    <3> HIDE DEF d, e, S
    <3>5. d = e
      BY <3>2, <3>3, <3>4, SeqEqual
    <3> QED
      BY <3>5 DEF e
  <2>4. Typed(s, n, c) = b
    BY <1>1 DEF Typed, t, f
  <2>5. Typed(s, n + 1, c) = [i \in DOMAIN a |-> f[a[i]]]
    BY <1>2, <1>3 DEF Typed, f
  <2> HIDE DEF a
  <2>6. Typed(s, n + 1, c) = [i \in 1 .. m + 1 |-> f[a[i]]]
    BY <2>1, <2>5
  <2> HIDE DEF b
  <2> QED
    BY <1>3, <2>3, <2>4, <2>6 DEF f
<1>4. CASE n + 1 \notin TypedAt(s, c)
  BY <1>2, <1>4 DEF Typed, t
<1> QED
  BY <1>3, <1>4

LEMMA TypingInside ==
  ASSUME NEW s, NEW n \in Nat, NEW c
  PROVE  Typing(s, n, c) \in Seq(1 .. n)
<1>1. Numbers1(n) \in Seq(1 .. n)
  <2>1. Numbers1(n) \in [1 .. n -> 1 .. n]
    BY DEF Numbers1
  <2> QED
    BY <2>1, MakesSequence
<1>2. Typing(s, n, c) \in Seq((1 .. n) \cap TypedAt(s, c))
  BY <1>1, SelectPicks DEF Typing
<1> HIDE DEF Typing, TypedAt
<1> DEFINE I == 1 .. n
           S == (1 .. n) \cap TypedAt(s, c)
<1>3. S \subseteq I
  OBVIOUS
<1> HIDE DEF I, S
<1>4. \A q \in Seq(S) : q \in Seq(I)
  BY <1>3
<1> QED
  BY <1>2, <1>4 DEF I, S

\* What was typed with the first n events depends on no others.
LEMMA TypedSame ==
  ASSUME NEW s, NEW t, NEW n \in Nat, NEW c, \A j \in 1 .. n : s[j] = t[j],
         1 .. n \subseteq DOMAIN s, 1 .. n \subseteq DOMAIN t
  PROVE  Typed(s, n, c) = Typed(t, n, c)
<1> DEFINE q == Numbers1(n)
           r == Typing(s, n, c)
           f == Sym(s, c)
           g == Sym(t, c)
<1>1. q \in Seq(Nat) /\ Len(q) = n /\ \A i \in 1 .. n : q[i] = i
  BY NumbersGrow
<1>2. \A j \in 1 .. n : j \in TypedAt(s, c) <=> j \in TypedAt(t, c)
  BY DEF TypedAt, Pressed, Of
<1>3. r = Typing(t, n, c)
  <2>1. \A i \in 1 .. Len(q) : q[i] \in TypedAt(s, c) <=> q[i] \in TypedAt(t, c)
    BY <1>1, <1>2
  <2> HIDE DEF q
  <2>2. Select(q, TypedAt(s, c)) = Select(q, TypedAt(t, c))
    BY <1>1, <2>1, SelectAgree
  <2> QED
    BY <2>2 DEF Typing, q
<1>4. ASSUME NEW j \in 1 .. n
      PROVE  f[j] = g[j]
  <2>1. Down(s, j, c, ScancodeLShift) <=> Down(t, j, c, ScancodeLShift)
    <3>1. j \in Nat /\ \A i \in 1 .. j : s[i] = t[i]
      OBVIOUS
    <3> QED
      BY <3>1, DownSame
  <2>2. f[j] = keySym(s[j].code, Down(s, j, c, ScancodeLShift))
    BY DEF Sym
  <2>3. g[j] = keySym(t[j].code, Down(t, j, c, ScancodeLShift))
    BY DEF Sym
  <2>4. s[j] = t[j]
    OBVIOUS
  <2>5. Down(s, j, c, ScancodeLShift) = Down(t, j, c, ScancodeLShift)
    BY <2>1, Zenon DEF Down
  <2> HIDE DEF f, g
  <2> QED
    BY <2>2, <2>3, <2>4, <2>5, Zenon
<1>5. \A i \in DOMAIN r : r[i] \in 1 .. n
  BY TypingInside, ElementOfSeq, LenProperties
<1> HIDE DEF f, g, r
<1>6. [i \in DOMAIN r |-> f[r[i]]] = [i \in DOMAIN r |-> g[r[i]]]
  BY <1>4, <1>5
<1> QED
  BY <1>3, <1>6 DEF Typed, f, g, r

LEMMA TypedNone ==
  ASSUME NEW s, NEW n \in Nat, NEW c, c \notin Owners(s, n)
  PROVE  Typed(s, n, c) = <<>>
<1> DEFINE q == Numbers1(n)
<1>1. q \in Seq(Nat) /\ \A i \in 1 .. Len(q) : q[i] \notin TypedAt(s, c)
  <2>1. q \in Seq(Nat) /\ Len(q) = n /\ \A i \in 1 .. n : q[i] = i
    BY NumbersGrow
  <2>2. \A i \in 1 .. n : i \notin TypedAt(s, c)
    BY DEF TypedAt, Pressed, Of, Owners
  <2> HIDE DEF q
  <2> QED
    BY <2>1, <2>2
<1> HIDE DEF q
<1>2. Select(q, TypedAt(s, c)) = <<>>
  BY <1>1, SelectNothing
<1>3. Typing(s, n, c) = <<>>
  BY <1>2 DEF Typing, q
<1> QED
  BY <1>3 DEF Typed

-----------------------------------------------------------------------------
(* The handler of a client *)

Char == {keySym(k, TRUE) : k \in Codes} \cup {keySym(k, FALSE) : k \in Codes}
Handler ==
  [m_holdedKeys : SUBSET Codes, m_singlePressedKeys : SUBSET Codes,
   m_mousePosition : 0 .. Top, m_exitFlag : BOOLEAN, m_textBuffer : Seq(Char),
   m_keyboardEnabled : BOOLEAN]

\* h and p, the text pulled, are what the first n events of s come to for c,
\* when the last update began after m of them.
Sound(h, p, c, s, n, m) ==
  /\ h \in Handler /\ p \in Seq(Char)
  /\ \A k \in Codes : k \in h.m_holdedKeys <=> Down(s, n, c, k)
  /\ \A k \in Codes : k \in h.m_singlePressedKeys <=>
       \E i \in m + 1 .. n : Pressed(s, i, c) /\ s[i].code = k
  /\ h.m_exitFlag <=> \E i \in 1 .. n : Of(s, i, c, Quit)
  /\ p \o h.m_textBuffer = Typed(s, n, c)

\* The event d is what of e arrives.
Arrives(d, e) ==
  d \in Event /\ d.client = owner(e) /\ d.type = e.type /\ (e.type # Quit => d.code = e.code)

LEMMA Constants ==
  /\ BufferSize = 512 /\ Codes = 0 .. 511 /\ ScancodeLShift = 225 /\ ScancodeLShift \in Codes
  /\ KeyDown = 0 /\ KeyUp = 1 /\ MouseMotion = 2 /\ Quit = 3
  /\ Nobody = 0 - 1 /\ Top \in Nat
  BY DEF BufferSize, ScancodesCount, Codes, ScancodeLShift, KeyDown, KeyUp, MouseMotion, Quit,
         Nobody, Nullopt, Top, Base

LEMMA HandledFields ==
  ASSUME NEW h \in Handler, NEW d \in Event
  PROVE  LET g == handleEvent(h, d)
             down == d.type = KeyDown /\ d.code < BufferSize
         IN /\ g \in Handler
            /\ g.m_holdedKeys = IF down THEN h.m_holdedKeys \cup {d.code}
                                ELSE IF d.type = KeyUp THEN h.m_holdedKeys \ {d.code}
                                ELSE h.m_holdedKeys
            /\ g.m_singlePressedKeys = IF down THEN h.m_singlePressedKeys \cup {d.code}
                                       ELSE h.m_singlePressedKeys
            /\ g.m_exitFlag <=> (d.type = Quit \/ h.m_exitFlag)
            /\ g.m_textBuffer = IF down /\ d.code # ScancodeLShift
                 THEN Append(h.m_textBuffer,
                             keySym(d.code, ScancodeLShift \in h.m_holdedKeys))
                 ELSE h.m_textBuffer
<1> DEFINE g == handleEvent(h, d)
           k == d.code
           text == IF k = ScancodeLShift THEN h.m_textBuffer
                   ELSE Append(h.m_textBuffer, keySym(k, ScancodeLShift \in h.m_holdedKeys))
<1>1. /\ k \in Nat /\ k <= Top /\ d.type \in {KeyDown, KeyUp, MouseMotion, Quit}
      /\ k \in 0 .. Top
  BY Constants DEF Event
<1>2. CASE d.type = KeyDown /\ k < BufferSize
  <2>1. g = [h EXCEPT !.m_holdedKeys = h.m_holdedKeys \cup {k},
                      !.m_singlePressedKeys = h.m_singlePressedKeys \cup {k},
                      !.m_textBuffer = text]
    BY <1>1, <1>2, Constants DEF handleEvent, pressed
  <2>2. k \in Codes
    BY <1>1, <1>2, Constants
  <2>3. text \in Seq(Char)
    <3>1. h.m_textBuffer \in Seq(Char)
      BY DEF Handler
    <3>2. keySym(k, ScancodeLShift \in h.m_holdedKeys) \in Char
      <4>1. (ScancodeLShift \in h.m_holdedKeys) \in BOOLEAN
        OBVIOUS
      <4>2. \A b \in BOOLEAN : keySym(k, b) \in Char
        <5>1. keySym(k, TRUE) \in Char /\ keySym(k, FALSE) \in Char
          BY <2>2 DEF Char
        <5> QED
          BY <5>1
      <4> QED
        BY <4>1, <4>2, Zenon
    <3> HIDE DEF Char
    <3> QED
      BY <3>1, <3>2
  <2> HIDE DEF text, k, g
  <2>4. g \in Handler
    BY <2>1, <2>2, <2>3 DEF Handler
  <2>5. /\ g.m_holdedKeys = h.m_holdedKeys \cup {k}
        /\ g.m_singlePressedKeys = h.m_singlePressedKeys \cup {k}
        /\ g.m_exitFlag = h.m_exitFlag
        /\ g.m_textBuffer = text
    BY <2>1 DEF Handler
  <2> QED
    BY <1>2, <2>4, <2>5, Constants DEF text, k, g
<1>3. CASE d.type = KeyDown /\ ~(k < BufferSize)
  <2>1. g = h
    BY <1>1, <1>3, Constants DEF handleEvent, pressed
  <2> HIDE DEF g
  <2> QED
    BY <1>3, <2>1, Constants DEF g
<1>4. CASE d.type = KeyUp
  <2>1. g = [h EXCEPT !.m_holdedKeys = h.m_holdedKeys \ {k}]
    BY <1>4, Constants DEF handleEvent
  <2> HIDE DEF g, k
  <2>2. g \in Handler
    BY <2>1 DEF Handler
  <2>3. /\ g.m_holdedKeys = h.m_holdedKeys \ {k}
        /\ g.m_singlePressedKeys = h.m_singlePressedKeys
        /\ g.m_exitFlag = h.m_exitFlag
        /\ g.m_textBuffer = h.m_textBuffer
    BY <2>1 DEF Handler
  <2> QED
    BY <1>4, <2>2, <2>3, Constants DEF g, k
<1>5. CASE d.type = MouseMotion
  <2>1. g = [h EXCEPT !.m_mousePosition = k]
    BY <1>5, Constants DEF handleEvent
  <2> HIDE DEF g, k
  <2>2. g \in Handler
    BY <1>1, <2>1 DEF Handler
  <2>3. /\ g.m_holdedKeys = h.m_holdedKeys
        /\ g.m_singlePressedKeys = h.m_singlePressedKeys
        /\ g.m_exitFlag = h.m_exitFlag
        /\ g.m_textBuffer = h.m_textBuffer
    BY <2>1 DEF Handler
  <2> QED
    BY <1>5, <2>2, <2>3, Constants DEF g, k
<1>6. CASE d.type = Quit
  <2>1. g = [h EXCEPT !.m_exitFlag = TRUE]
    BY <1>6, Constants DEF handleEvent
  <2> HIDE DEF g, k
  <2>2. g \in Handler
    BY <2>1 DEF Handler
  <2>3. /\ g.m_holdedKeys = h.m_holdedKeys
        /\ g.m_singlePressedKeys = h.m_singlePressedKeys
        /\ g.m_exitFlag = TRUE
        /\ g.m_textBuffer = h.m_textBuffer
    BY <2>1 DEF Handler
  <2> QED
    BY <1>6, <2>2, <2>3, Constants DEF g, k
<1> QED
  BY <1>1, <1>2, <1>3, <1>4, <1>5, <1>6

LEMMA HandleSound ==
  ASSUME NEW h, NEW p, NEW c, NEW s, NEW n \in Nat, NEW m \in 0 .. n,
         Sound(h, p, c, s, n, m), n + 1 \in DOMAIN s,
         NEW d, Arrives(d, s[n + 1]), d.client = c
  PROVE  Sound(handleEvent(h, d), p, c, s, n + 1, m)
<1> DEFINE g == handleEvent(h, d)
           k == d.code
           down == d.type = KeyDown /\ k < BufferSize
           shift == ScancodeLShift \in h.m_holdedKeys
<1>1. /\ h \in Handler /\ p \in Seq(Char) /\ d \in Event
      /\ owner(s[n + 1]) = c /\ d.type = s[n + 1].type
      /\ (d.type # Quit => s[n + 1].code = k)
  BY DEF Sound, Arrives
<1>2. /\ g \in Handler
      /\ g.m_holdedKeys = IF down THEN h.m_holdedKeys \cup {k}
                          ELSE IF d.type = KeyUp THEN h.m_holdedKeys \ {k}
                          ELSE h.m_holdedKeys
      /\ g.m_singlePressedKeys = IF down THEN h.m_singlePressedKeys \cup {k}
                                 ELSE h.m_singlePressedKeys
      /\ g.m_exitFlag <=> (d.type = Quit \/ h.m_exitFlag)
      /\ g.m_textBuffer = IF down /\ k # ScancodeLShift
           THEN Append(h.m_textBuffer, keySym(k, shift)) ELSE h.m_textBuffer
  BY <1>1, HandledFields
<1>3. /\ Pressed(s, n + 1, c) <=> down
      /\ Of(s, n + 1, c, KeyUp) <=> d.type = KeyUp
      /\ Of(s, n + 1, c, Quit) <=> d.type = Quit
      /\ (down => s[n + 1].code = k) /\ (d.type = KeyUp => s[n + 1].code = k)
  <2>1. KeyDown # Quit /\ KeyUp # Quit
    BY Constants
  <2> QED
    BY <1>1, <2>1 DEF Pressed, Of
<1> HIDE DEF g, k
<1>4. \A q \in Codes : q \in g.m_holdedKeys <=> Down(s, n + 1, c, q)
  <2> SUFFICES ASSUME NEW q \in Codes
               PROVE  q \in g.m_holdedKeys <=> Down(s, n + 1, c, q)
    OBVIOUS
  <2>1. q \in h.m_holdedKeys <=> Down(s, n, c, q)
    BY DEF Sound
  <2>2. Down(s, n + 1, c, q) <=>
          IF Pressed(s, n + 1, c) /\ s[n + 1].code = q THEN TRUE
          ELSE Down(s, n, c, q) /\ ~(Of(s, n + 1, c, KeyUp) /\ s[n + 1].code = q)
    BY DownGrows
  <2>3. ~(down /\ d.type = KeyUp)
    BY Constants
  <2> HIDE DEF down
  <2> QED
    BY <1>2, <1>3, <2>1, <2>2, <2>3
<1>5. \A q \in Codes : q \in g.m_singlePressedKeys <=>
        \E i \in m + 1 .. n + 1 : Pressed(s, i, c) /\ s[i].code = q
  <2> SUFFICES ASSUME NEW q \in Codes
               PROVE  q \in g.m_singlePressedKeys <=>
                        \E i \in m + 1 .. n + 1 : Pressed(s, i, c) /\ s[i].code = q
    OBVIOUS
  <2>1. q \in h.m_singlePressedKeys <=>
          \E i \in m + 1 .. n : Pressed(s, i, c) /\ s[i].code = q
    BY DEF Sound
  <2>2. m + 1 .. n + 1 = (m + 1 .. n) \cup {n + 1}
    OBVIOUS
  <2>3. q \in g.m_singlePressedKeys <=> q \in h.m_singlePressedKeys \/ (down /\ q = k)
    <3> HIDE DEF down
    <3> QED
      BY <1>2
  <2>4. (\E i \in m + 1 .. n + 1 : Pressed(s, i, c) /\ s[i].code = q) <=>
          \/ \E i \in m + 1 .. n : Pressed(s, i, c) /\ s[i].code = q
          \/ Pressed(s, n + 1, c) /\ s[n + 1].code = q
    BY <2>2
  <2> HIDE DEF down
  <2> QED
    BY <1>3, <2>1, <2>3, <2>4
<1>6. g.m_exitFlag <=> \E i \in 1 .. n + 1 : Of(s, i, c, Quit)
  <2>1. h.m_exitFlag <=> \E i \in 1 .. n : Of(s, i, c, Quit)
    BY DEF Sound
  <2>2. 1 .. n + 1 = (1 .. n) \cup {n + 1}
    OBVIOUS
  <2>3. (\E i \in 1 .. n + 1 : Of(s, i, c, Quit)) <=>
          (\E i \in 1 .. n : Of(s, i, c, Quit)) \/ Of(s, n + 1, c, Quit)
    BY <2>2
  <2> QED
    BY <1>2, <1>3, <2>1, <2>3
<1>7. p \o g.m_textBuffer = Typed(s, n + 1, c)
  <2>1. p \o h.m_textBuffer = Typed(s, n, c)
    BY DEF Sound
  <2>2. n + 1 \in TypedAt(s, c) <=> down /\ k # ScancodeLShift
    BY <1>3 DEF TypedAt
  <2>3. Typed(s, n + 1, c) =
          IF n + 1 \in TypedAt(s, c) THEN Append(Typed(s, n, c), Sym(s, c)[n + 1])
          ELSE Typed(s, n, c)
    BY TypedGrows
  <2>4. CASE down /\ k # ScancodeLShift
    <3>1. Sym(s, c)[n + 1] = keySym(k, Down(s, n + 1, c, ScancodeLShift))
      BY <1>3, <2>4 DEF Sym
    <3>2. Down(s, n + 1, c, ScancodeLShift) <=> Down(s, n, c, ScancodeLShift)
      <4>1. ~(Of(s, n + 1, c, KeyUp) /\ s[n + 1].code = ScancodeLShift)
        BY <1>3, <2>4
      <4>2. ~(Pressed(s, n + 1, c) /\ s[n + 1].code = ScancodeLShift)
        BY <1>3, <2>4
      <4> QED
        BY <4>1, <4>2, DownGrows
    <3>3. shift <=> Down(s, n, c, ScancodeLShift)
      BY Constants DEF Sound
    <3>4. shift = Down(s, n + 1, c, ScancodeLShift) /\ shift \in BOOLEAN
      <4>1. shift <=> Down(s, n + 1, c, ScancodeLShift)
        BY <3>2, <3>3
      <4>2. Down(s, n + 1, c, ScancodeLShift) \in BOOLEAN /\ shift \in BOOLEAN
        BY DEF Down
      <4> QED
        BY <4>1, <4>2, Zenon
    <3>5. Sym(s, c)[n + 1] = keySym(k, shift)
      BY <3>1, <3>4, Zenon
    <3>6. g.m_textBuffer = Append(h.m_textBuffer, keySym(k, shift))
      <4> HIDE DEF down, shift
      <4> QED
        BY <1>2, <2>4
    <3>7. keySym(k, shift) \in Char /\ h.m_textBuffer \in Seq(Char)
      <4>1. k \in Codes
        <5>1. k \in 0 .. Top
          BY <1>1 DEF Event, k
        <5> QED
          BY <2>4, <5>1, Constants
      <4>2. keySym(k, TRUE) \in Char /\ keySym(k, FALSE) \in Char
        BY <4>1 DEF Char
      <4>3. \A b \in BOOLEAN : keySym(k, b) \in Char
        BY <4>2
      <4>4. keySym(k, shift) \in Char
        BY <3>4, <4>3, Zenon
      <4> QED
        BY <1>1, <4>4 DEF Handler
    <3> DEFINE z == keySym(k, shift)
    <3> HIDE DEF z
    <3>8. p \o Append(h.m_textBuffer, z) = Append(p \o h.m_textBuffer, z)
      BY <1>1, <3>7, AppendBehind, SMTT(20) DEF z
    <3> QED
      BY <2>1, <2>2, <2>3, <2>4, <3>5, <3>6, <3>8 DEF z
  <2>5. CASE ~(down /\ k # ScancodeLShift)
    <3>1. g.m_textBuffer = h.m_textBuffer
      <4> HIDE DEF down, shift
      <4> QED
        BY <1>2, <2>5
    <3> QED
      BY <2>1, <2>2, <2>3, <2>5, <3>1
  <2> QED
    BY <2>4, <2>5
<1> QED
  BY <1>1, <1>2, <1>4, <1>5, <1>6, <1>7 DEF Sound, g

\* Another client's event changes nothing.
LEMMA OtherSound ==
  ASSUME NEW h, NEW p, NEW c, NEW s, NEW n \in Nat, NEW m \in 0 .. n,
         Sound(h, p, c, s, n, m), owner(s[n + 1]) # c
  PROVE  Sound(h, p, c, s, n + 1, m)
<1>1. ~Pressed(s, n + 1, c) /\ \A type : ~Of(s, n + 1, c, type)
  BY DEF Pressed, Of
<1>2. \A k \in Codes : k \in h.m_holdedKeys <=> Down(s, n + 1, c, k)
  <2> SUFFICES ASSUME NEW k \in Codes
               PROVE  k \in h.m_holdedKeys <=> Down(s, n + 1, c, k)
    OBVIOUS
  <2>1. k \in h.m_holdedKeys <=> Down(s, n, c, k)
    BY DEF Sound
  <2> QED
    BY <1>1, <2>1, DownGrows
<1>3. m + 1 .. n + 1 = (m + 1 .. n) \cup {n + 1} /\ 1 .. n + 1 = (1 .. n) \cup {n + 1}
  OBVIOUS
<1>4. \A k \in Codes : k \in h.m_singlePressedKeys <=>
        \E i \in m + 1 .. n + 1 : Pressed(s, i, c) /\ s[i].code = k
  <2>1. \A k \in Codes : k \in h.m_singlePressedKeys <=>
          \E i \in m + 1 .. n : Pressed(s, i, c) /\ s[i].code = k
    BY DEF Sound
  <2> QED
    BY <1>1, <1>3, <2>1
<1>5. h.m_exitFlag <=> \E i \in 1 .. n + 1 : Of(s, i, c, Quit)
  <2>1. h.m_exitFlag <=> \E i \in 1 .. n : Of(s, i, c, Quit)
    BY DEF Sound
  <2> QED
    BY <1>1, <1>3, <2>1
<1>6. p \o h.m_textBuffer = Typed(s, n + 1, c)
  <2>1. n + 1 \notin TypedAt(s, c)
    BY <1>1 DEF TypedAt
  <2>2. Typed(s, n + 1, c) = Typed(s, n, c)
    BY <2>1, TypedGrows
  <2> QED
    BY <2>2 DEF Sound
<1> QED
  BY <1>2, <1>4, <1>5, <1>6 DEF Sound

\* A handler that was just made.
LEMMA FreshSound ==
  ASSUME NEW c, NEW s, NEW n \in Nat, NEW m \in 0 .. n, c \notin Owners(s, n)
  PROVE  Sound(ClientEventHandler, <<>>, c, s, n, m)
<1> DEFINE h == ClientEventHandler
<1>1. /\ h \in Handler /\ h.m_holdedKeys = {} /\ h.m_singlePressedKeys = {}
      /\ h.m_exitFlag = FALSE /\ h.m_textBuffer = <<>>
  <2>1. <<>> \in Seq(Char) /\ 0 \in 0 .. Top
    BY EmptySeq, Constants
  <2> QED
    BY <2>1 DEF ClientEventHandler, Handler
<1>2. \A i \in 1 .. n : ~Pressed(s, i, c) /\ \A type : ~Of(s, i, c, type)
  BY DEF Pressed, Of, Owners
<1>3. \A k \in Codes : ~Down(s, n, c, k)
  BY DownNone
<1>4. Typed(s, n, c) = <<>>
  BY TypedNone
<1>5. <<>> \in Seq(Char) /\ <<>> \o <<>> = <<>>
  <2>1. <<>> \in Seq(Char)
    BY EmptySeq
  <2> QED
    BY <2>1, ConcatEmptySeq
<1>6. \A i \in m + 1 .. n : i \in 1 .. n
  OBVIOUS
<1> HIDE DEF h
<1>7. Sound(h, <<>>, c, s, n, m)
  BY <1>1, <1>2, <1>3, <1>4, <1>5, <1>6 DEF Sound
<1> QED
  BY <1>7 DEF h

-----------------------------------------------------------------------------
(* The loop of update *)

PulledOf(q, c) == IF c \in DOMAIN q THEN q[c] ELSE <<>>

AllSound(clients, q, s, n, m) ==
  /\ DOMAIN clients = Owners(s, n) /\ DOMAIN q \subseteq DOMAIN clients
  /\ \A c \in DOMAIN clients : Sound(clients[c], PulledOf(q, c), c, s, n, m)

LEMMA OwnersGrow ==
  ASSUME NEW s, NEW n \in Nat
  PROVE  Owners(s, n + 1) = Owners(s, n) \cup {owner(s[n + 1])}
<1>1. 1 .. n + 1 = (1 .. n) \cup {n + 1}
  OBVIOUS
<1> QED
  BY <1>1 DEF Owners

LEMMA DispatchSound ==
  ASSUME NEW clients, NEW q, NEW s, NEW n \in Nat, NEW m \in 0 .. n,
         AllSound(clients, q, s, n, m), n + 1 \in DOMAIN s, NEW d, Arrives(d, s[n + 1])
  PROVE  AllSound(dispatch(clients, d), q, s, n + 1, m)
<1> DEFINE after == dispatch(clients, d)
           own == d.client
           H(c) == IF c \in DOMAIN clients THEN clients[c] ELSE ClientEventHandler
<1>1. /\ DOMAIN after = DOMAIN clients \cup {own}
      /\ \A c \in DOMAIN after : after[c] = IF c = own THEN handleEvent(H(c), d) ELSE H(c)
  BY DEF dispatch
<1>2. own = owner(s[n + 1])
  BY DEF Arrives
<1>3. DOMAIN after = Owners(s, n + 1) /\ DOMAIN q \subseteq DOMAIN after
  BY <1>1, <1>2, OwnersGrow DEF AllSound
<1> HIDE DEF after
<1>4. ASSUME NEW c \in DOMAIN after
      PROVE  Sound(after[c], PulledOf(q, c), c, s, n + 1, m)
  <2>1. Sound(H(c), PulledOf(q, c), c, s, n, m)
    <3>1. CASE c \in DOMAIN clients
      BY <3>1 DEF AllSound
    <3>2. CASE c \notin DOMAIN clients
      <4>1. c \notin Owners(s, n) /\ PulledOf(q, c) = <<>>
        BY <3>2 DEF AllSound, PulledOf
      <4>2. H(c) = ClientEventHandler
        BY <3>2
      <4> QED
        BY <4>1, <4>2, FreshSound
    <3> QED
      BY <3>1, <3>2
  <2> HIDE DEF H
  <2>2. CASE c = own
    BY <1>1, <2>1, <2>2, HandleSound
  <2>3. CASE c # own
    <3>1. owner(s[n + 1]) # c
      BY <1>2, <2>3
    <3> QED
      BY <1>1, <2>1, <2>3, <3>1, OtherSound
  <2> QED
    BY <2>2, <2>3
<1> QED
  BY <1>3, <1>4 DEF AllSound, after

\* The recursion in dispatchAll defines what it says.
LEMMA DispatchAllUnfolds ==
  ASSUME NEW clients, NEW events, Len(events) \in Nat
  PROVE  \E after :
           /\ after[0] = clients
           /\ \A i \in 1 .. Len(events) : after[i] = dispatch(after[i - 1], events[i])
           /\ dispatchAll(clients, events) = after[Len(events)]
<1> DEFINE N == Len(events)
           Step(after, i) == IF i = 0 THEN clients ELSE dispatch(after[i - 1], events[i])
           P == {n \in Nat : \E after : after = [i \in 0 .. n |-> Step(after, i)]}
<1>1. 0 \in P
  <2>1. [i \in 0 .. 0 |-> clients] = [i \in 0 .. 0 |-> Step([j \in 0 .. 0 |-> clients], i)]
    OBVIOUS
  <2> QED
    BY <2>1
<1>2. ASSUME NEW n \in P
      PROVE  n + 1 \in P
  <2>1. PICK after : after = [i \in 0 .. n |-> Step(after, i)]
    OBVIOUS
  <2> DEFINE more == [i \in 0 .. n + 1 |-> IF i <= n THEN after[i] ELSE Step(after, i)]
  <2>2. ASSUME NEW i \in 0 .. n + 1
        PROVE  more[i] = Step(more, i)
    <3>1. Step(more, i) = Step(after, i)
      OBVIOUS
    <3>2. i <= n => after[i] = Step(after, i)
      <4> HIDE DEF Step
      <4> QED
        BY <2>1, SMTT(20)
    <3> QED
      BY <3>1, <3>2
  <2>3. more = [i \in 0 .. n + 1 |-> more[i]]
    OBVIOUS
  <2> HIDE DEF more, Step
  <2>4. more = [i \in 0 .. n + 1 |-> Step(more, i)]
    BY <2>2, <2>3
  <2> QED
    BY <2>4
<1>3. P = Nat
  <2>1. P \in SUBSET Nat
    OBVIOUS
  <2> HIDE DEF P
  <2> QED
    BY <1>1, <1>2, <2>1, Induction
<1>4. \E after : after = [i \in 0 .. N |-> Step(after, i)]
  BY <1>3
<1> DEFINE after == CHOOSE f : f = [i \in 0 .. N |-> Step(f, i)]
<1>5. after = [i \in 0 .. N |-> Step(after, i)]
  <2> HIDE DEF Step
  <2> QED
    BY <1>4, Zenon
<1>6. dispatchAll(clients, events) = after[N]
  BY DEF dispatchAll
<1> HIDE DEF after, N
<1>7. after[0] = clients /\ \A i \in 1 .. N : after[i] = dispatch(after[i - 1], events[i])
  <2>1. N \in Nat
    BY DEF N
  <2> QED
    BY <1>5, <2>1
<1> QED
  BY <1>6, <1>7 DEF N

LEMMA DispatchAllSound ==
  ASSUME NEW clients, NEW q, NEW s, NEW n \in Nat, NEW m \in 0 .. n,
         AllSound(clients, q, s, n, m), NEW events \in Seq(Event),
         \A i \in 1 .. Len(events) : n + i \in DOMAIN s /\ Arrives(events[i], s[n + i])
  PROVE  AllSound(dispatchAll(clients, events), q, s, n + Len(events), m)
<1> DEFINE N == Len(events)
<1>1. N \in Nat
  BY LenProperties
<1>2. PICK after :
        /\ after[0] = clients
        /\ \A i \in 1 .. N : after[i] = dispatch(after[i - 1], events[i])
        /\ dispatchAll(clients, events) = after[N]
  BY <1>1, DispatchAllUnfolds
<1>3. \A i \in 1 .. N : n + i \in DOMAIN s /\ Arrives(events[i], s[n + i])
  OBVIOUS
<1> HIDE DEF N
<1> DEFINE P == {i \in Nat : i <= N => AllSound(after[i], q, s, n + i, m)}
<1>4. 0 \in P
  BY <1>2
<1>5. ASSUME NEW i \in P
      PROVE  i + 1 \in P
  <2> SUFFICES ASSUME i + 1 <= N
               PROVE  AllSound(after[i + 1], q, s, n + (i + 1), m)
    OBVIOUS
  <2>1. /\ i \in Nat /\ i + 1 \in 1 .. N /\ (i + 1) - 1 = i /\ n + i \in Nat
        /\ n + (i + 1) = (n + i) + 1 /\ m \in 0 .. n + i
        /\ AllSound(after[i], q, s, n + i, m)
    BY <1>1
  <2>2. after[i + 1] = dispatch(after[i], events[i + 1])
    BY <1>2, <2>1
  <2>3. (n + i) + 1 \in DOMAIN s /\ Arrives(events[i + 1], s[(n + i) + 1])
    BY <1>3, <2>1
  <2>4. AllSound(dispatch(after[i], events[i + 1]), q, s, (n + i) + 1, m)
    BY <2>1, <2>3, DispatchSound
  <2> QED
    BY <2>1, <2>2, <2>4
<1>6. P = Nat
  <2>1. P \in SUBSET Nat
    OBVIOUS
  <2> HIDE DEF P
  <2> QED
    BY <1>4, <1>5, <2>1, Induction
<1> QED
  BY <1>1, <1>2, <1>6 DEF N

-----------------------------------------------------------------------------
(* What the steps do to a handler *)

LEMMA SoundSame ==
  ASSUME NEW h, NEW p, NEW c, NEW s, NEW t, NEW n \in Nat, NEW m \in 0 .. n,
         Sound(h, p, c, s, n, m), \A j \in 1 .. n : s[j] = t[j],
         1 .. n \subseteq DOMAIN s, 1 .. n \subseteq DOMAIN t
  PROVE  Sound(h, p, c, t, n, m)
<1>1. \A j \in 1 .. n : /\ Pressed(s, j, c) <=> Pressed(t, j, c)
                        /\ \A type : Of(s, j, c, type) <=> Of(t, j, c, type)
  BY DEF Pressed, Of
<1>2. \A k : Down(s, n, c, k) <=> Down(t, n, c, k)
  BY DownSame
<1>3. Typed(s, n, c) = Typed(t, n, c)
  BY TypedSame
<1>4. \A j \in m + 1 .. n : j \in 1 .. n
  OBVIOUS
<1>5. \A k \in Codes : k \in h.m_holdedKeys <=> Down(t, n, c, k)
  BY <1>2 DEF Sound
<1>6. \A k \in Codes : k \in h.m_singlePressedKeys <=>
        \E i \in m + 1 .. n : Pressed(t, i, c) /\ t[i].code = k
  <2>1. \A k \in Codes : k \in h.m_singlePressedKeys <=>
          \E i \in m + 1 .. n : Pressed(s, i, c) /\ s[i].code = k
    BY DEF Sound
  <2> QED
    BY <1>1, <1>4, <2>1
<1>7. h.m_exitFlag <=> \E i \in 1 .. n : Of(t, i, c, Quit)
  BY <1>1 DEF Sound
<1> QED
  BY <1>3, <1>5, <1>6, <1>7 DEF Sound

LEMMA TakenSound ==
  ASSUME NEW h, NEW p, NEW c, NEW s, NEW n, NEW m, Sound(h, p, c, s, n, m)
  PROVE  Sound([h EXCEPT !.m_textBuffer = <<>>], p \o h.m_textBuffer, c, s, n, m)
<1> DEFINE g == [h EXCEPT !.m_textBuffer = <<>>]
           q == p \o h.m_textBuffer
<1>1. h \in Handler /\ p \in Seq(Char) /\ h.m_textBuffer \in Seq(Char)
  BY DEF Sound, Handler
<1>2. /\ g \in Handler /\ g.m_holdedKeys = h.m_holdedKeys
      /\ g.m_singlePressedKeys = h.m_singlePressedKeys
      /\ g.m_exitFlag = h.m_exitFlag /\ g.m_textBuffer = <<>>
  BY <1>1, EmptySeq DEF Handler
<1>3. q \in Seq(Char) /\ q \o <<>> = q
  <2>1. q \in Seq(Char)
    BY <1>1, ConcatProperties
  <2> QED
    BY <2>1, ConcatEmptySeq
<1> HIDE DEF g
<1>4. Sound(g, q, c, s, n, m)
  BY <1>2, <1>3 DEF Sound
<1> QED
  BY <1>4 DEF g

LEMMA KeyboardSound ==
  ASSUME NEW h, NEW p, NEW c, NEW s, NEW n, NEW m, Sound(h, p, c, s, n, m),
         NEW enabled \in BOOLEAN
  PROVE  Sound([h EXCEPT !.m_keyboardEnabled = enabled], p, c, s, n, m)
<1> DEFINE g == [h EXCEPT !.m_keyboardEnabled = enabled]
<1>1. h \in Handler
  BY DEF Sound
<1>2. /\ g \in Handler /\ g.m_holdedKeys = h.m_holdedKeys
      /\ g.m_singlePressedKeys = h.m_singlePressedKeys
      /\ g.m_exitFlag = h.m_exitFlag /\ g.m_textBuffer = h.m_textBuffer
  BY <1>1 DEF Handler
<1> HIDE DEF g
<1>3. Sound(g, p, c, s, n, m)
  BY <1>2 DEF Sound
<1> QED
  BY <1>3 DEF g

LEMMA ClearedSound ==
  ASSUME NEW h, NEW p, NEW c, NEW s, NEW n \in Nat, NEW m, Sound(h, p, c, s, n, m)
  PROVE  Sound([h EXCEPT !.m_singlePressedKeys = {}], p, c, s, n, n)
<1> DEFINE g == [h EXCEPT !.m_singlePressedKeys = {}]
<1>1. h \in Handler
  BY DEF Sound
<1>2. /\ g \in Handler /\ g.m_holdedKeys = h.m_holdedKeys
      /\ g.m_singlePressedKeys = {}
      /\ g.m_exitFlag = h.m_exitFlag /\ g.m_textBuffer = h.m_textBuffer
  BY <1>1 DEF Handler
<1>3. n + 1 .. n = {}
  OBVIOUS
<1> HIDE DEF g
<1>4. Sound(g, p, c, s, n, n)
  BY <1>2, <1>3 DEF Sound
<1> QED
  BY <1>4 DEF g

-----------------------------------------------------------------------------
(* The events of the program *)

(***************************************************************************)
(* The strengthening: what is queued is what of the events since the last  *)
(* update arrives, and what a client's handler keeps, with the text pulled *)
(* from it, is what all its events before that come to.                    *)
(***************************************************************************)
InputInv ==
  /\ sent \in Seq(Event) /\ provided \in Seq(Event)
  /\ handledAt[1] \in Nat /\ handledAt[2] \in 0 .. handledAt[1]
  /\ Len(sent) = handledAt[1] + Len(provided)
  /\ \A i \in 1 .. Len(provided) : Arrives(provided[i], sent[handledAt[1] + i])
  /\ DOMAIN pulled = DOMAIN m_clients
  /\ AllSound(m_clients, pulled, sent, handledAt[1], handledAt[2])

LEMMA InputInvInit == InitInput => InputInv
<1> SUFFICES ASSUME InitInput
             PROVE  InputInv
  OBVIOUS
<1>1. /\ sent = <<>> /\ provided = <<>> /\ handledAt[1] = 0 /\ handledAt[2] = 0
      /\ DOMAIN m_clients = {} /\ DOMAIN pulled = {}
  BY DEF InitInput
<1>2. <<>> \in Seq(Event) /\ Len(<<>>) = 0
  BY EmptySeq
<1>3. Owners(<<>>, 0) = {}
  BY DEF Owners
<1>4. AllSound(m_clients, pulled, sent, handledAt[1], handledAt[2])
  BY <1>1, <1>3 DEF AllSound
<1>5. \A i \in 1 .. Len(provided) : Arrives(provided[i], sent[handledAt[1] + i])
  BY <1>1, <1>2
<1> QED
  BY <1>1, <1>2, <1>4, <1>5 DEF InputInv

\* What becomes of an event that is pushed.
LEMMA PushedArrives ==
  ASSUME NEW e \in InputEvent,
         NEW d \in IF e.client = Nobody THEN {e} ELSE deserialize(serialize(e))
  PROVE  e \in Event /\ Arrives(d, e)
<1>1. e \in Event
  BY InputAssumption DEF Event
<1>2. /\ KeyDown # Quit /\ e.client \in Nobody .. Top /\ Top # Nobody
      /\ e.type \in KeyDown .. Quit /\ e.code \in 0 .. Top /\ Top \in Nat
      /\ 0 \in 0 .. Top
  <2>1. Nobody = 0 - 1 /\ KeyDown = 0 /\ Quit = 3 /\ Top \in Nat
    BY Constants
  <2> QED
    BY <1>1, <2>1 DEF Event
<1>3. CASE e.client = Nobody
  BY <1>1, <1>2, <1>3 DEF Arrives, owner
<1>4. CASE e.client # Nobody
  <2>1. d = Received(e)
    BY <1>1, <1>4, EventSurvives
  <2>2. owner(e) \in Nobody .. Top
    <3>1. Nobody \in Nobody .. Top
      BY Constants
    <3> QED
      BY <1>2, <3>1 DEF owner
  <2>3. Received(e) \in Event
    BY <1>2, <2>2 DEF Received, Event
  <2> QED
    BY <1>1, <2>1, <2>3 DEF Arrives, Received
<1> QED
  BY <1>3, <1>4

LEMMA PushKeepsInputInv ==
  ASSUME InputInv, NEW e \in InputEvent, pushEvent(e)
  PROVE  InputInv'
<1> DEFINE n == handledAt[1]
           N == Len(provided)
           M == Len(sent)
<1>1. PICK d \in IF e.client = Nobody THEN {e} ELSE deserialize(serialize(e)) :
        provided' = Append(provided, d)
  BY DEF pushEvent
<1>2. e \in Event /\ Arrives(d, e) /\ d \in Event
  <2>1. e \in Event /\ Arrives(d, e)
    BY PushedArrives
  <2> QED
    BY <2>1 DEF Arrives
<1>3. /\ sent \in Seq(Event) /\ provided \in Seq(Event) /\ n \in Nat
      /\ handledAt[2] \in 0 .. n /\ M = n + N /\ M \in Nat /\ N \in Nat
      /\ DOMAIN sent = 1 .. M
  BY LenProperties DEF InputInv
<1>4. /\ sent' = Append(sent, e) /\ sent' \in Seq(Event) /\ Len(sent') = M + 1
      /\ sent'[M + 1] = e /\ (\A j \in 1 .. M : sent'[j] = sent[j])
      /\ DOMAIN sent' = 1 .. M + 1
  <2>1. sent' = Append(sent, e)
    BY DEF pushEvent
  <2> QED
    BY <1>2, <1>3, <2>1, AppendProperties
<1>5. /\ provided' \in Seq(Event) /\ Len(provided') = N + 1
      /\ provided'[N + 1] = d /\ \A i \in 1 .. N : provided'[i] = provided[i]
  BY <1>1, <1>2, <1>3, AppendProperties
<1>6. handledAt' = handledAt /\ m_clients' = m_clients /\ pulled' = pulled
  BY DEF pushEvent
<1>7. \A i \in 1 .. N : Arrives(provided[i], sent[n + i])
  BY DEF InputInv
<1>8. AllSound(m_clients, pulled, sent, n, handledAt[2])
  BY DEF InputInv
<1> HIDE DEF n, N, M
<1>9. \A i \in 1 .. N + 1 : Arrives(provided'[i], sent'[n + i])
  <2> SUFFICES ASSUME NEW i \in 1 .. N + 1
               PROVE  Arrives(provided'[i], sent'[n + i])
    OBVIOUS
  <2>1. CASE i = N + 1
    <3>1. n + i = M + 1
      BY <1>3, <2>1
    <3> QED
      BY <1>2, <1>4, <1>5, <2>1, <3>1
  <2>2. CASE i # N + 1
    <3>1. i \in 1 .. N /\ n + i \in 1 .. M
      BY <1>3, <2>2
    <3> QED
      BY <1>4, <1>5, <1>7, <3>1
  <2> QED
    BY <2>1, <2>2
<1>10. (\A j \in 1 .. n : sent[j] = sent'[j]) /\ 1 .. n \subseteq DOMAIN sent
       /\ 1 .. n \subseteq DOMAIN sent'
  <2>1. 1 .. n \subseteq 1 .. M /\ 1 .. M \subseteq 1 .. M + 1
    BY <1>3
  <2> QED
    BY <1>3, <1>4, <2>1
<1>11. AllSound(m_clients, pulled, sent', n, handledAt[2])
  <2>1. Owners(sent', n) = Owners(sent, n)
    BY <1>10 DEF Owners
  <2>2. ASSUME NEW c \in DOMAIN m_clients
        PROVE  Sound(m_clients[c], PulledOf(pulled, c), c, sent', n, handledAt[2])
    <3>1. Sound(m_clients[c], PulledOf(pulled, c), c, sent, n, handledAt[2])
      BY <1>8 DEF AllSound
    <3> QED
      BY <1>3, <1>10, <3>1, SoundSame
  <2> QED
    BY <1>8, <2>1, <2>2 DEF AllSound
<1>12. handledAt'[1] = n /\ handledAt'[2] = handledAt[2]
  BY <1>6 DEF n
<1>13. DOMAIN pulled' = DOMAIN m_clients'
  BY <1>6 DEF InputInv
<1>14. Len(sent') = n + (N + 1)
  BY <1>3, <1>4
<1>15. AllSound(m_clients', pulled', sent', n, handledAt'[2])
  BY <1>6, <1>11
<1> QED
  BY <1>3, <1>4, <1>5, <1>9, <1>12, <1>13, <1>14, <1>15 DEF InputInv

LEMMA UpdateKeepsInputInv ==
  ASSUME InputInv, update
  PROVE  InputInv'
<1> DEFINE n == handledAt[1]
           N == Len(provided)
           M == Len(sent)
           cleared == [c \in DOMAIN m_clients |->
                         [m_clients[c] EXCEPT !.m_singlePressedKeys = {}]]
<1>1. /\ sent \in Seq(Event) /\ provided \in Seq(Event) /\ n \in Nat
      /\ M = n + N /\ M \in Nat /\ N \in Nat /\ DOMAIN sent = 1 .. M
      /\ DOMAIN pulled = DOMAIN m_clients
  BY LenProperties DEF InputInv
<1>2. /\ m_clients' = dispatchAll(cleared, provided)
      /\ provided' = <<>> /\ sent' = sent
      /\ handledAt' = <<M, n>>
      /\ pulled' = [c \in DOMAIN m_clients' |-> PulledOf(pulled, c)]
  BY DEF update, PulledOf
<1>3. AllSound(cleared, pulled, sent, n, n)
  <2>1. AllSound(m_clients, pulled, sent, n, handledAt[2])
    BY DEF InputInv
  <2>2. ASSUME NEW c \in DOMAIN m_clients
        PROVE  Sound(cleared[c], PulledOf(pulled, c), c, sent, n, n)
    <3>1. Sound(m_clients[c], PulledOf(pulled, c), c, sent, n, handledAt[2])
      BY <2>1 DEF AllSound
    <3> HIDE DEF n
    <3>2. Sound([m_clients[c] EXCEPT !.m_singlePressedKeys = {}], PulledOf(pulled, c), c,
                sent, n, n)
      BY <1>1, <3>1, ClearedSound
    <3> QED
      BY <3>2
  <2> QED
    BY <2>1, <2>2 DEF AllSound
<1>4. \A i \in 1 .. N : Arrives(provided[i], sent[n + i])
  BY DEF InputInv
<1> HIDE DEF n, M, cleared
<1>5. AllSound(m_clients', pulled, sent, M, n)
  <2>1. \A i \in 1 .. Len(provided) : n + i \in DOMAIN sent /\ Arrives(provided[i], sent[n + i])
    BY <1>1, <1>4
  <2>2. n \in 0 .. n
    BY <1>1
  <2>3. AllSound(dispatchAll(cleared, provided), pulled, sent, n + N, n)
    BY <1>1, <1>3, <2>1, <2>2, DispatchAllSound
  <2> QED
    BY <1>1, <1>2, <2>3
<1>6. AllSound(m_clients', pulled', sent, M, n)
  <2>1. DOMAIN pulled' = DOMAIN m_clients'
    BY <1>2
  <2>2. ASSUME NEW c \in DOMAIN m_clients'
        PROVE  PulledOf(pulled', c) = PulledOf(pulled, c)
    <3>1. pulled'[c] = PulledOf(pulled, c)
      BY <1>2
    <3> QED
      BY <2>1, <3>1 DEF PulledOf
  <2> QED
    BY <1>5, <2>1, <2>2 DEF AllSound
<1>7. handledAt'[1] = M /\ handledAt'[2] = n
  BY <1>2
<1>8. <<>> \in Seq(Event) /\ Len(<<>>) = 0
  BY EmptySeq
<1>9. n \in 0 .. M /\ M = M + 0
  BY <1>1
<1>10. DOMAIN pulled' = DOMAIN m_clients'
  BY <1>2
<1>11. AllSound(m_clients', pulled', sent', M, n)
  BY <1>2, <1>6
<1>12. Len(sent') = M
  BY <1>2 DEF M
<1>13. Len(provided') = 0 /\ provided' \in Seq(Event)
  BY <1>2, <1>8
<1>14. \A i \in 1 .. Len(provided') : Arrives(provided'[i], sent'[M + i])
  BY <1>13
<1> HIDE DEF N
<1> QED
  BY <1>1, <1>2, <1>7, <1>9, <1>10, <1>11, <1>12, <1>13, <1>14 DEF InputInv

\* The clients, when only the handler of some and the text pulled from them change.
LEMMA ClientsKeepInputInv ==
  ASSUME InputInv, UNCHANGED <<provided, sent, handledAt>>,
         DOMAIN m_clients' = DOMAIN m_clients, DOMAIN pulled' = DOMAIN pulled,
         ASSUME NEW c \in DOMAIN m_clients,
                Sound(m_clients[c], pulled[c], c, sent, handledAt[1], handledAt[2])
         PROVE  Sound(m_clients'[c], pulled'[c], c, sent, handledAt[1], handledAt[2])
  PROVE  InputInv'
<1>1. AllSound(m_clients, pulled, sent, handledAt[1], handledAt[2])
      /\ DOMAIN pulled = DOMAIN m_clients
  BY DEF InputInv
<1>2. \A c \in DOMAIN m_clients :
        PulledOf(pulled, c) = pulled[c] /\ PulledOf(pulled', c) = pulled'[c]
  BY <1>1 DEF PulledOf
<1>3. AllSound(m_clients', pulled', sent, handledAt[1], handledAt[2])
  <2>1. \A c \in DOMAIN m_clients :
          Sound(m_clients[c], pulled[c], c, sent, handledAt[1], handledAt[2])
    BY <1>1, <1>2 DEF AllSound
  <2>2. \A c \in DOMAIN m_clients :
          Sound(m_clients'[c], pulled'[c], c, sent, handledAt[1], handledAt[2])
    BY <2>1
  <2> QED
    BY <1>1, <1>2, <2>2 DEF AllSound
<1>4. AllSound(m_clients', pulled', sent', handledAt'[1], handledAt'[2])
  BY <1>3
<1> QED
  BY <1>1, <1>4 DEF InputInv

LEMMA TakeKeepsInputInv ==
  ASSUME InputInv, NEW a \in DOMAIN m_clients, takeText(a)
  PROVE  InputInv'
<1>1. /\ pulled' = [pulled EXCEPT ![a] = pulled[a] \o m_clients[a].m_textBuffer]
      /\ m_clients' = [m_clients EXCEPT ![a] = [m_clients[a] EXCEPT !.m_textBuffer = <<>>]]
      /\ UNCHANGED <<provided, sent, handledAt>>
  BY DEF takeText
<1>2. DOMAIN m_clients' = DOMAIN m_clients /\ DOMAIN pulled' = DOMAIN pulled
      /\ DOMAIN pulled = DOMAIN m_clients
  BY <1>1 DEF InputInv
<1>3. ASSUME NEW c \in DOMAIN m_clients,
             Sound(m_clients[c], pulled[c], c, sent, handledAt[1], handledAt[2])
      PROVE  Sound(m_clients'[c], pulled'[c], c, sent, handledAt[1], handledAt[2])
  <2>1. CASE c = a
    <3>1. /\ m_clients'[c] = [m_clients[c] EXCEPT !.m_textBuffer = <<>>]
          /\ pulled'[c] = pulled[c] \o m_clients[c].m_textBuffer
      BY <1>1, <1>2, <2>1
    <3> QED
      BY <1>3, <3>1, TakenSound
  <2>2. CASE c # a
    <3>1. m_clients'[c] = m_clients[c] /\ pulled'[c] = pulled[c]
      BY <1>1, <1>2, <2>2
    <3> QED
      BY <1>3, <3>1
  <2> QED
    BY <2>1, <2>2
<1> QED
  BY <1>1, <1>2, <1>3, ClientsKeepInputInv

LEMMA KeyboardKeepsInputInv ==
  ASSUME InputInv, NEW cs, NEW enabled \in BOOLEAN, setKeyboard(cs, enabled)
  PROVE  InputInv'
<1>1. /\ m_clients' = [c \in DOMAIN m_clients |-> IF c \in cs
           THEN [m_clients[c] EXCEPT !.m_keyboardEnabled = enabled] ELSE m_clients[c]]
      /\ UNCHANGED <<provided, sent, handledAt, pulled>>
  BY DEF setKeyboard
<1>2. DOMAIN m_clients' = DOMAIN m_clients /\ DOMAIN pulled' = DOMAIN pulled
  BY <1>1
<1>3. ASSUME NEW c \in DOMAIN m_clients,
             Sound(m_clients[c], pulled[c], c, sent, handledAt[1], handledAt[2])
      PROVE  Sound(m_clients'[c], pulled'[c], c, sent, handledAt[1], handledAt[2])
  <2>1. CASE c \in cs
    <3>1. m_clients'[c] = [m_clients[c] EXCEPT !.m_keyboardEnabled = enabled]
      BY <1>1, <2>1
    <3> QED
      BY <1>1, <1>3, <3>1, KeyboardSound
  <2>2. CASE c \notin cs
    <3>1. m_clients'[c] = m_clients[c]
      BY <1>1, <2>2
    <3> QED
      BY <1>1, <1>3, <3>1
  <2> QED
    BY <2>1, <2>2
<1> QED
  BY <1>1, <1>2, <1>3, ClientsKeepInputInv

LEMMA StepKeepsInputInv == InputInv /\ [NextInput]_inputVars => InputInv'
<1> SUFFICES ASSUME InputInv, [NextInput]_inputVars
             PROVE  InputInv'
  OBVIOUS
<1>1. ASSUME NEW e \in InputEvent, pushEvent(e)
      PROVE  InputInv'
  BY <1>1, PushKeepsInputInv
<1>2. CASE update
  BY <1>2, UpdateKeepsInputInv
<1>3. CASE pullText
  BY <1>3, TakeKeepsInputInv DEF pullText
<1>4. ASSUME NEW c \in DOMAIN m_clients, pullTextOf(c)
      PROVE  InputInv'
  BY <1>4, TakeKeepsInputInv DEF pullTextOf
<1>5. ASSUME NEW cs, NEW enabled \in BOOLEAN, setKeyboard(cs, enabled)
      PROVE  InputInv'
  BY <1>5, KeyboardKeepsInputInv
<1>6. CASE proceedEntity
  BY <1>5, <1>6 DEF proceedEntity
<1>7. CASE UNCHANGED inputVars
  BY <1>7 DEF inputVars, InputInv
<1> QED
  BY <1>1, <1>2, <1>3, <1>4, <1>5, <1>6, <1>7 DEF NextInput

LEMMA InputInvHolds == SpecInput => []InputInv
  BY InputInvInit, StepKeepsInputInv, PTL DEF SpecInput

-----------------------------------------------------------------------------
(* What the program asks of the handler *)

LEMMA HandledEvents ==
  ASSUME InputInv
  PROVE  LET n == handledAt[1]
         IN /\ n \in Nat /\ 1 .. n \subseteq DOMAIN sent
            /\ \A i \in 1 .. n : \A c, type : IsOf(i, c, type) <=> Of(sent, i, c, type)
            /\ \A i \in 1 .. n : \A c : IsKey(i, c) <=> Pressed(sent, i, c)
            /\ \A i \in DOMAIN sent : \A c, type : IsOf(i, c, type) => i \in 1 .. n
            /\ \A i \in 0 .. n : \A c, k : DownAt(i, c, k) <=> Down(sent, i, c, k)
<1> DEFINE n == handledAt[1]
<1>1. /\ n \in Nat /\ DOMAIN sent = 1 .. Len(sent) /\ 1 .. n \subseteq DOMAIN sent
      /\ DOMAIN sent \subseteq Nat \ {0}
  <2>1. n \in Nat /\ Len(sent) = n + Len(provided) /\ Len(provided) \in Nat
        /\ DOMAIN sent = 1 .. Len(sent) /\ Len(sent) \in Nat
    BY LenProperties DEF InputInv
  <2> QED
    BY <2>1
<1>2. \A i \in 1 .. n : \A c, type : IsOf(i, c, type) <=> Of(sent, i, c, type)
  BY <1>1 DEF IsOf, Of
<1>3. \A i \in 1 .. n : \A c : IsKey(i, c) <=> Pressed(sent, i, c)
  BY <1>2 DEF IsKey, Pressed
<1>4. \A i \in DOMAIN sent : \A c, type : IsOf(i, c, type) => i \in 1 .. n
  BY <1>1 DEF IsOf
<1> HIDE DEF n
<1>5. ASSUME NEW i \in 0 .. n, NEW c, NEW k
      PROVE  DownAt(i, c, k) <=> Down(sent, i, c, k)
  <2>1. \A j \in 1 .. i : j \in 1 .. n
    BY <1>1
  <2>2. \A j \in 1 .. i : \A l \in j + 1 .. i : l \in 1 .. n
    BY <1>1
  <2>3. \A j \in 1 .. i :
          (\A l \in j + 1 .. i : ~(IsOf(l, c, KeyUp) /\ sent[l].code = k)) <=>
          (\A l \in j + 1 .. i : ~(Of(sent, l, c, KeyUp) /\ sent[l].code = k))
    BY <1>2, <2>2
  <2>4. \A j \in 1 .. i : IsKey(j, c) <=> Pressed(sent, j, c)
    BY <1>3, <2>1
  <2> QED
    BY <2>3, <2>4 DEF DownAt, Down
<1> QED
  BY <1>1, <1>2, <1>3, <1>4, <1>5 DEF n

LEMMA KeysAreSeen ==
  ASSUME InputInv, NEW k \in EventKeys
  PROVE  /\ keyHolded(k) <=> \E c \in Enabled : DownAt(handledAt[1], c, k)
         /\ keySinglePressed(k) <=>
              \E i \in handledAt[2] + 1 .. handledAt[1], c \in Enabled :
                IsKey(i, c) /\ sent[i].code = k
<1> DEFINE n == handledAt[1]
           m == handledAt[2]
<1>1. /\ n \in Nat /\ m \in 0 .. n /\ n \in 0 .. n
      /\ \A i \in 1 .. n : \A c : IsKey(i, c) <=> Pressed(sent, i, c)
      /\ \A c : DownAt(n, c, k) <=> Down(sent, n, c, k)
  <2>1. n \in Nat /\ m \in 0 .. n /\ n \in 0 .. n
    BY DEF InputInv
  <2> QED
    BY <2>1, HandledEvents
<1>2. \A c \in Enabled : Sound(m_clients[c], PulledOf(pulled, c), c, sent, n, m)
  BY DEF InputInv, AllSound, Enabled
<1>3. \A i \in m + 1 .. n : i \in 1 .. n
  BY <1>1
<1> HIDE DEF n, m
<1>4. CASE k < BufferSize
  <2>1. k \in Codes
    <3>1. \A e \in InputEvent : e.code \in 0 .. Top
      BY InputAssumption
    <3>2. k \in 0 .. Top
      BY <3>1 DEF EventKeys
    <3> QED
      BY <1>4, <3>2, Constants
  <2>2. \A c \in Enabled :
          /\ k \in m_clients[c].m_holdedKeys <=> Down(sent, n, c, k)
          /\ k \in m_clients[c].m_singlePressedKeys <=>
               \E i \in m + 1 .. n : Pressed(sent, i, c) /\ sent[i].code = k
    BY <1>2, <2>1 DEF Sound
  <2>3. keyHolded(k) <=> \E c \in Enabled : Down(sent, n, c, k)
    BY <1>4, <2>2 DEF keyHolded
  <2>4. keySinglePressed(k) <=>
          \E c \in Enabled : \E i \in m + 1 .. n : Pressed(sent, i, c) /\ sent[i].code = k
    BY <1>4, <2>2 DEF keySinglePressed
  <2>5. keySinglePressed(k) <=>
          \E i \in m + 1 .. n, c \in Enabled : IsKey(i, c) /\ sent[i].code = k
    BY <1>1, <1>3, <2>4
  <2> QED
    BY <1>1, <2>3, <2>5 DEF n, m
<1>5. CASE ~(k < BufferSize)
  <2>1. ~keyHolded(k) /\ ~keySinglePressed(k)
    BY <1>5 DEF keyHolded, keySinglePressed
  <2>2. \A i, c : ~(Pressed(sent, i, c) /\ sent[i].code = k)
    BY <1>5 DEF Pressed
  <2>3. \A c : ~Down(sent, n, c, k)
    BY <2>2 DEF Down
  <2>4. \A i \in m + 1 .. n, c \in Enabled : ~(IsKey(i, c) /\ sent[i].code = k)
    BY <1>1, <1>3, <2>2
  <2> QED
    BY <1>1, <2>1, <2>3, <2>4 DEF n, m
<1> QED
  BY <1>4, <1>5

LEMMA QuitIsSeen ==
  ASSUME InputInv
  PROVE  exitFlag <=> \E i \in DOMAIN sent, c \in Enabled : IsOf(i, c, Quit)
<1> DEFINE n == handledAt[1]
<1>1. /\ 1 .. n \subseteq DOMAIN sent
      /\ \A i \in 1 .. n : \A c : IsOf(i, c, Quit) <=> Of(sent, i, c, Quit)
      /\ \A i \in DOMAIN sent : \A c : IsOf(i, c, Quit) => i \in 1 .. n
  BY HandledEvents
<1>2. \A c \in Enabled : m_clients[c].m_exitFlag <=> \E i \in 1 .. n : Of(sent, i, c, Quit)
  BY DEF InputInv, AllSound, Enabled, Sound
<1> HIDE DEF n
<1>3. exitFlag <=> \E c \in Enabled : \E i \in 1 .. n : Of(sent, i, c, Quit)
  BY <1>2 DEF exitFlag
<1> QED
  BY <1>1, <1>3

LEMMA LessTimes ==
  ASSUME NEW m \in Nat, NEW a \in Nat, NEW w \in Nat, w <= a
  PROVE  /\ m * w \in Nat /\ m * a \in Nat /\ m * w <= m * a
         /\ (m + 1) * w = m * w + w
<1> DEFINE d == a - w
<1>1. d \in Nat /\ a = w + d
  OBVIOUS
<1> HIDE DEF d
<1>2. m * w \in Nat /\ m * d \in Nat /\ (m + 1) * w = m * w + w
  BY <1>1
<1>3. m * a = m * w + m * d
  BY <1>1
<1> QED
  BY <1>2, <1>3

\* The rest of a mean is less than the numbers there are.
LEMMA MeanBetween ==
  ASSUME NEW n \in Nat \ {0}, NEW f \in [0 .. n -> Nat], NEW v \in [1 .. n -> Nat],
         f[0] = 0, \A i \in 1 .. n : f[i] = f[i - 1] + v[i]
  PROVE  \E i, j \in 1 .. n : f[n] \div n \in v[i] .. v[j]
<1> DEFINE P == {l \in Nat : l + 1 <= n =>
                   \E i, j \in 1 .. n :
                     (l + 1) * v[i] <= f[l + 1] /\ f[l + 1] <= (l + 1) * v[j]}
<1>1. 0 \in P
  <2>1. 1 \in 1 .. n /\ f[1] = f[1 - 1] + v[1] /\ 1 - 1 = 0 /\ v[1] \in Nat
    OBVIOUS
  <2>2. f[1] = v[1] /\ (0 + 1) * v[1] = v[1] /\ 0 + 1 = 1
    BY <2>1
  <2> QED
    BY <2>1, <2>2
<1>2. ASSUME NEW l \in P
      PROVE  l + 1 \in P
  <2> SUFFICES ASSUME (l + 1) + 1 <= n
               PROVE  \E i, j \in 1 .. n : /\ ((l + 1) + 1) * v[i] <= f[(l + 1) + 1]
                                           /\ f[(l + 1) + 1] <= ((l + 1) + 1) * v[j]
    OBVIOUS
  <2> DEFINE m == l + 1
             w == v[m + 1]
             s == f[m]
  <2>1. /\ m \in Nat /\ m + 1 \in 1 .. n /\ w \in Nat /\ s \in Nat /\ f[m + 1] = s + w
        /\ l \in Nat /\ l + 1 <= n
    <3>1. m \in Nat /\ m + 1 \in 1 .. n /\ (m + 1) - 1 = m /\ m \in 0 .. n
          /\ l \in Nat /\ l + 1 <= n
      OBVIOUS
    <3> HIDE DEF m
    <3>2. w \in Nat /\ s \in Nat
      BY <3>1
    <3>3. f[m + 1] = f[(m + 1) - 1] + v[m + 1]
      BY <3>1
    <3>4. f[m + 1] = s + w
      BY <3>1, <3>3
    <3> QED
      BY <3>1, <3>2, <3>4
  <2>2. PICK i, j \in 1 .. n : m * v[i] <= s /\ s <= m * v[j]
    BY <2>1
  <2> HIDE DEF m, w, s
  <2> DEFINE a == v[i]
             b == v[j]
  <2>3. a \in Nat /\ b \in Nat /\ m * a <= s /\ s <= m * b
    BY <2>2
  <2>4. \E p \in 1 .. n : (m + 1) * v[p] <= s + w
    <3> HIDE DEF a, b
    <3>1. CASE w >= a
      <4>1. (m + 1) * a = m * a + a /\ m * a \in Nat
        BY <2>1, <2>3
      <4>2. (m + 1) * a <= s + w
        BY <2>1, <2>3, <3>1, <4>1
      <4> QED
        BY <4>2 DEF a
    <3>2. CASE w < a
      <4> DEFINE low == m * w
                 high == m * a
                 sum == (m + 1) * w
      <4>1. low \in Nat /\ high \in Nat /\ low <= high /\ sum = low + w
        BY <2>1, <2>3, <3>2, LessTimes
      <4>2. high <= s
        BY <2>3
      <4> HIDE DEF low, high, sum
      <4>3. s \in Nat /\ w \in Nat
        BY <2>1
      <4>4. sum <= s + w
        BY <4>1, <4>2, <4>3
      <4> QED
        BY <2>1, <4>4 DEF w, sum
    <3> QED
      BY <2>1, <2>3, <3>1, <3>2
  <2>5. \E p \in 1 .. n : s + w <= (m + 1) * v[p]
    <3> HIDE DEF a, b
    <3>1. CASE w <= b
      <4>1. (m + 1) * b = m * b + b /\ m * b \in Nat
        BY <2>1, <2>3
      <4>2. s + w <= (m + 1) * b
        BY <2>1, <2>3, <3>1, <4>1
      <4> QED
        BY <4>2 DEF b
    <3>2. CASE w > b
      <4> DEFINE low == m * w
                 high == m * b
                 sum == (m + 1) * w
      <4>1. low \in Nat /\ high \in Nat /\ high <= low /\ sum = low + w
        BY <2>1, <2>3, <3>2, LessTimes
      <4>2. s <= high
        BY <2>3
      <4> HIDE DEF low, high, sum
      <4>3. s \in Nat /\ w \in Nat
        BY <2>1
      <4>4. s + w <= sum
        BY <4>1, <4>2, <4>3
      <4> QED
        BY <2>1, <4>4 DEF w, sum
    <3> QED
      BY <2>1, <2>3, <3>1, <3>2
  <2> QED
    BY <2>1, <2>4, <2>5 DEF m
<1>3. P = Nat
  <2>1. P \in SUBSET Nat
    OBVIOUS
  <2> HIDE DEF P
  <2> QED
    BY <1>1, <1>2, <2>1, Induction
<1>4. PICK i, j \in 1 .. n : n * v[i] <= f[n] /\ f[n] <= n * v[j]
  <2>1. n - 1 \in Nat /\ (n - 1) + 1 = n
    OBVIOUS
  <2>2. n - 1 \in P
    BY <1>3, <2>1
  <2>3. \E i, j \in 1 .. n : ((n - 1) + 1) * v[i] <= f[(n - 1) + 1]
                             /\ f[(n - 1) + 1] <= ((n - 1) + 1) * v[j]
    BY <2>1, <2>2
  <2> QED
    BY <2>1, <2>3
<1> DEFINE a == v[i]
           b == v[j]
           s == f[n]
           q == s \div n
           r == s % n
<1>5. a \in Nat /\ b \in Nat /\ s \in Nat /\ n * a <= s /\ s <= n * b
  BY <1>4
<1> HIDE DEF a, b, s
<1>6. q \in Nat /\ r \in 0 .. n - 1 /\ s = n * q + r
  <2>1. s \in Nat
    BY <1>5
  <2>2. q \in Int /\ r \in 0 .. n - 1 /\ s = n * q + r
    BY <2>1
  <2>3. q \in Nat
    <3> SUFFICES ASSUME q <= 0 - 1
                 PROVE  FALSE
      BY <2>2
    <3> HIDE DEF q, r
    <3> DEFINE d == 0 - q
               less == n * 1
               more == n * d
    <3>1. d \in Nat /\ 1 \in Nat /\ 1 <= d /\ q = 0 - d
      BY <2>2
    <3> HIDE DEF d
    <3>2. less <= more /\ more \in Nat
      BY <3>1, LessTimes
    <3>3. less = n /\ n * q = 0 - more
      BY <3>1
    <3> HIDE DEF less, more
    <3> QED
      BY <2>1, <2>2, <3>2, <3>3
  <2> QED
    BY <2>2, <2>3
<1> HIDE DEF q, r
<1>7. a <= q
  <2> SUFFICES ASSUME q + 1 <= a
               PROVE  FALSE
    BY <1>5, <1>6
  <2> DEFINE low == n * (q + 1)
             high == n * a
             sum == n * q
  <2>1. low <= high /\ low \in Nat /\ high \in Nat
    BY <1>5, <1>6, LessTimes
  <2>2. low = sum + n /\ sum \in Nat
    BY ONLY n \in Nat \ {0}, <1>6
  <2>3. high <= s /\ s = sum + r
    BY <1>5, <1>6
  <2> HIDE DEF low, high, sum
  <2> QED
    BY <1>5, <1>6, <2>1, <2>2, <2>3
<1>8. q <= b
  <2> SUFFICES ASSUME b + 1 <= q
               PROVE  FALSE
    BY <1>5, <1>6
  <2> DEFINE low == n * (b + 1)
             high == n * q
             sum == n * b
  <2>1. low <= high /\ low \in Nat /\ high \in Nat
    BY <1>5, <1>6, LessTimes
  <2>2. low = sum + n /\ sum \in Nat
    BY ONLY n \in Nat \ {0}, <1>5
  <2>3. s <= sum /\ s = high + r
    BY <1>5, <1>6
  <2> HIDE DEF low, high, sum
  <2> QED
    BY <1>5, <1>6, <2>1, <2>2, <2>3
<1>9. s \div n \in a .. b
  BY <1>5, <1>6, <1>7, <1>8 DEF q
<1> QED
  BY <1>9 DEF a, b, s

\* A finite set in some order.
LEMMA SetInOrder ==
  ASSUME NEW S, IsFiniteSet(S)
  PROVE  /\ SetToSeq(S) \in Seq(S) /\ Len(SetToSeq(S)) = Cardinality(S)
         /\ Cardinality(S) \in Nat
<1>1. Cardinality(S) \in Nat /\ ExistsBijection(1 .. Cardinality(S), S)
  BY FS_CardinalityType
<1>2. \E f \in [1 .. Cardinality(S) -> S] : IsInjective(f)
  BY <1>1 DEF ExistsBijection, Bijection, Injection, IsInjective
<1>3. SetToSeq(S) \in [1 .. Cardinality(S) -> S]
  BY <1>2, Zenon DEF SetToSeq
<1> QED
  BY <1>1, <1>3, MakesSequence

LEMMA MouseIsSeen ==
  ASSUME InputInv, DOMAIN m_clients # {}
  PROVE  \E c, d \in DOMAIN m_clients :
           mousePosition \in m_clients[c].m_mousePosition .. m_clients[d].m_mousePosition
<1> DEFINE D == DOMAIN m_clients
           order == SetToSeq(D)
           N == Len(order)
           v == [i \in 1 .. N |-> m_clients[order[i]].m_mousePosition]
<1>1. IsFiniteSet(D)
  <2>1. D \subseteq Nobody .. Top
    <3>1. D = Owners(sent, handledAt[1])
      BY DEF InputInv, AllSound
    <3>2. 1 .. handledAt[1] \subseteq DOMAIN sent /\ sent \in Seq(Event)
      BY HandledEvents DEF InputInv
    <3>3. \A e \in Event : owner(e) \in Nobody .. Top
      <4>1. Nobody \in Nobody .. Top
        BY Constants
      <4> QED
        BY <4>1 DEF owner, Event
    <3>4. \A j \in 1 .. handledAt[1] : sent[j] \in Event
      BY <3>2, ElementOfSeq, LenProperties
    <3> QED
      BY <3>1, <3>3, <3>4 DEF Owners
  <2>2. IsFiniteSet(Nobody .. Top)
    <3>1. Nobody \in Int /\ Top \in Int
      BY Constants
    <3> QED
      BY <3>1, FS_Interval
  <2> QED
    BY <2>1, <2>2, FS_Subset
<1>2. order \in Seq(D) /\ N \in Nat /\ N # 0
  <2>1. order \in Seq(D) /\ N = Cardinality(D) /\ N \in Nat
    BY <1>1, SetInOrder
  <2>2. Cardinality(D) # 0
    BY <1>1, FS_EmptySet
  <2> QED
    BY <2>1, <2>2
<1>3. \A c \in D : m_clients[c].m_mousePosition \in Nat
  <2>1. \A c \in D : m_clients[c] \in Handler
    BY DEF InputInv, AllSound, Sound
  <2>2. \A h \in Handler : h.m_mousePosition \in Nat
    BY Constants DEF Handler
  <2> QED
    BY <2>1, <2>2
<1> HIDE DEF D, order, N
<1>4. \A i \in 1 .. N : order[i] \in D
  BY <1>2, ElementOfSeq DEF N
<1>5. v \in [1 .. N -> Nat] /\ \A i \in 1 .. N : v[i] = m_clients[order[i]].m_mousePosition
  BY <1>3, <1>4
<1> HIDE DEF v
<1> DEFINE Rec(f) == f = [i \in 0 .. N |-> IF i = 0 THEN 0
                            ELSE f[i - 1] + m_clients[order[i]].m_mousePosition]
           f == CHOOSE g : Rec(g)
<1>6. \E g : Rec(g)
  <2> DEFINE Step == [i \in 1 .. N |-> [u \in Nat |-> u + v[i]]]
  <2>1. Step \in [1 .. N -> [Nat -> Nat]]
    BY <1>5
  <2>2. PICK g \in [0 .. N -> Nat] : Follows(g, N, 0, Step)
    <3> HIDE DEF Step
    <3>1. 0 \in Nat
      OBVIOUS
    <3> QED
      BY <1>2, <2>1, <3>1, Recursion
  <2>3. ASSUME NEW i \in 0 .. N
        PROVE  g[i] = IF i = 0 THEN 0
                      ELSE g[i - 1] + m_clients[order[i]].m_mousePosition
    <3>1. CASE i = 0
      BY <2>2, <3>1 DEF Follows
    <3>2. CASE i # 0
      <4>1. i \in 1 .. N /\ i - 1 \in 0 .. N
        BY <1>2, <3>2
      <4>2. g[i] = Step[i][g[i - 1]]
        BY <2>2, <4>1 DEF Follows
      <4>3. Step[i][g[i - 1]] = g[i - 1] + v[i]
        BY <2>2, <4>1
      <4> QED
        BY <1>5, <3>2, <4>1, <4>2, <4>3
    <3> QED
      BY <3>1, <3>2
  <2>4. g = [i \in 0 .. N |-> g[i]]
    OBVIOUS
  <2>5. Rec(g)
    BY <2>3, <2>4
  <2> QED
    BY <2>5
<1>7. Rec(f)
  <2> HIDE DEF Rec
  <2> QED
    BY <1>6, Zenon
<1>8. mousePosition = f[N] \div N
  BY <1>2, Zenon DEF mousePosition, D, order, N
<1> HIDE DEF f
<1>9. f \in [0 .. N -> Nat] /\ f[0] = 0 /\ \A i \in 1 .. N : f[i] = f[i - 1] + v[i]
  <2>1. f[0] = 0 /\ \A i \in 1 .. N : f[i] = f[i - 1] + v[i]
    <3>1. 0 \in 0 .. N
      BY <1>2
    <3>2. f[0] = 0
      BY <1>7, <3>1
    <3>3. ASSUME NEW i \in 1 .. N
          PROVE  f[i] = f[i - 1] + v[i]
      <4>1. i \in 0 .. N /\ i # 0
        BY <1>2
      <4>2. f[i] = f[i - 1] + m_clients[order[i]].m_mousePosition
        BY <1>7, <4>1
      <4> QED
        BY <1>5, <4>2
    <3> QED
      BY <3>2, <3>3
  <2>2. \A i \in Nat : i <= N => f[i] \in Nat
    <3> DEFINE P == {i \in Nat : i <= N => f[i] \in Nat}
    <3>1. 0 \in P
      BY <2>1
    <3>2. ASSUME NEW i \in P
          PROVE  i + 1 \in P
      <4>1. i + 1 <= N => i + 1 \in 1 .. N /\ (i + 1) - 1 = i /\ f[i] \in Nat
        BY <1>2
      <4> QED
        BY <1>5, <2>1, <4>1
    <3>3. P \in SUBSET Nat
      OBVIOUS
    <3> HIDE DEF P
    <3>4. P = Nat
      BY <3>1, <3>2, <3>3, Induction
    <3> QED
      BY <3>4 DEF P
  <2>3. f = [i \in 0 .. N |-> f[i]]
    BY <1>7
  <2>4. \A i \in 0 .. N : f[i] \in Nat
    BY <1>2, <2>2
  <2> QED
    BY <2>1, <2>3, <2>4
<1>10. PICK i, j \in 1 .. N : f[N] \div N \in v[i] .. v[j]
  BY <1>2, <1>5, <1>9, MeanBetween
<1> QED
  BY <1>4, <1>5, <1>8, <1>10 DEF D

\* What the program sees of the keys, the mouse and the end is what the events
\* of the clients it listens to come to: for all events and any number of them.
THEOREM InputIsSeen == SpecInput => []InputSeen
<1>1. InputInv => InputSeen
  BY KeysAreSeen, QuitIsSeen, MouseIsSeen DEF InputSeen
<1> QED
  BY <1>1, InputInvHolds, PTL

\* No key is lost or typed twice, whoever the text is pulled from and whenever,
\* and a letter or a digit types its name.
THEOREM TextIsAsTyped == SpecInput => []TextIsTyped
<1>1. ASSUME InputInv, NEW c \in DOMAIN m_clients
      PROVE  LET text == pulled[c] \o m_clients[c].m_textBuffer
                 typing == Select([i \in 1 .. handledAt[1] |-> i],
                             {i \in DOMAIN sent : IsKey(i, c) /\ sent[i].code # ScancodeLShift})
             IN /\ Len(text) = Len(typing)
                /\ \A n \in DOMAIN typing :
                     TypesItsName(text[n], sent[typing[n]].code,
                                  DownAt(typing[n], c, ScancodeLShift))
  <2> DEFINE n == handledAt[1]
             S == {i \in DOMAIN sent : IsKey(i, c) /\ sent[i].code # ScancodeLShift}
             T == TypedAt(sent, c)
             q == Numbers1(n)
             typing == Select(q, S)
             text == pulled[c] \o m_clients[c].m_textBuffer
  <2>1. /\ n \in Nat /\ 1 .. n \subseteq DOMAIN sent
        /\ \A i \in 1 .. n : IsKey(i, c) <=> Pressed(sent, i, c)
        /\ \A i \in 0 .. n : DownAt(i, c, ScancodeLShift) <=> Down(sent, i, c, ScancodeLShift)
    BY <1>1, HandledEvents
  <2>2. q \in Seq(Nat) /\ Len(q) = n /\ \A i \in 1 .. n : q[i] = i
    BY <2>1, NumbersGrow
  <2>3. typing = Typing(sent, n, c)
    <3>1. \A i \in 1 .. n : i \in S <=> i \in T
      BY <2>1 DEF TypedAt
    <3>2. \A i \in 1 .. Len(q) : q[i] \in S <=> q[i] \in T
      BY <2>2, <3>1
    <3> HIDE DEF S, T, q
    <3>3. Select(q, S) = Select(q, T)
      BY <2>2, <3>2, SelectAgree
    <3> QED
      BY <3>3 DEF Typing, q, T
  <2>4. \A i \in DOMAIN typing : typing[i] \in 1 .. n
    <3>1. typing \in Seq(1 .. n)
      BY <2>1, <2>3, TypingInside
    <3> HIDE DEF typing
    <3> QED
      BY <3>1, ElementOfSeq, LenProperties
  <2>5. pulled[c] \o m_clients[c].m_textBuffer = Typed(sent, n, c)
    BY <1>1 DEF InputInv, AllSound, Sound, PulledOf
  <2>6. ASSUME NEW i \in 1 .. n
        PROVE  TypesItsName(Sym(sent, c)[i], sent[i].code, DownAt(i, c, ScancodeLShift))
    <3>1. Sym(sent, c)[i] = keySym(sent[i].code, Down(sent, i, c, ScancodeLShift))
      BY <2>1 DEF Sym
    <3>2. DownAt(i, c, ScancodeLShift) <=> Down(sent, i, c, ScancodeLShift)
      BY <2>1
    <3>3. /\ DownAt(i, c, ScancodeLShift) = Down(sent, i, c, ScancodeLShift)
          /\ DownAt(i, c, ScancodeLShift) \in BOOLEAN
      BY <3>2, Zenon DEF DownAt, Down
    <3> DEFINE k == sent[i].code
               shift == DownAt(i, c, ScancodeLShift)
    <3> HIDE DEF k, shift
    <3>4. TypesItsName(keySym(k, shift), k, shift)
      BY <3>3, NameIsTyped, Zenon DEF shift
    <3> QED
      BY <3>1, <3>3, <3>4, Zenon DEF k, shift
  <2>7. typing \in Seq(1 .. n)
    BY <2>1, <2>3, TypingInside
  <2> HIDE DEF typing
  <2>8. text = [i \in DOMAIN typing |-> Sym(sent, c)[typing[i]]]
    BY <2>3, <2>5 DEF Typed
  <2>9. Len(text) = Len(typing)
    <3>1. DOMAIN typing = 1 .. Len(typing) /\ Len(typing) \in Nat
      BY <2>7, LenProperties
    <3>2. pulled[c] \in Seq(Char) /\ m_clients[c].m_textBuffer \in Seq(Char)
      BY <1>1 DEF InputInv, AllSound, Sound, PulledOf, Handler
    <3>3. text \in Seq(Char)
      BY <3>2, ConcatProperties
    <3>4. DOMAIN text = DOMAIN typing
      BY <2>8, Zenon
    <3> HIDE DEF text
    <3>5. DOMAIN text = 1 .. Len(text) /\ Len(text) \in Nat
      BY <3>3, LenProperties
    <3> QED
      BY <3>1, <3>4, <3>5
  <2>10. \A i \in DOMAIN typing :
           TypesItsName(text[i], sent[typing[i]].code, DownAt(typing[i], c, ScancodeLShift))
    <3> HIDE DEF text
    <3> QED
      BY <2>4, <2>6, <2>8
  <2> QED
    BY <2>9, <2>10 DEF text, typing, q, Numbers1, n, S
<1>2. InputInv => TextIsTyped
  BY <1>1 DEF TextIsTyped
<1> QED
  BY <1>2, InputInvHolds, PTL

-----------------------------------------------------------------------------
(* Sequences one behind the other *)

\* flat has the first i of the n pieces one behind the other.
IsFlat(flat, pieces, n) ==
  flat[0] = <<>> /\ \A i \in 1 .. n : flat[i] = flat[i - 1] \o pieces[i]

LEMMA FlatExists ==
  ASSUME NEW A, NEW n \in Nat, NEW pieces \in [1 .. n -> Seq(A)]
  PROVE  \E flat \in [0 .. n -> Seq(A)] : IsFlat(flat, pieces, n)
<1> DEFINE S == Seq(A)
           Step == [i \in 1 .. n |-> [p \in S |-> p \o pieces[i]]]
<1>1. <<>> \in S
  BY EmptySeq
<1>2. \A i \in 1 .. n : \A p \in S : p \o pieces[i] \in S
  BY ConcatProperties
<1>3. pieces \in [1 .. n -> S]
  OBVIOUS
<1> HIDE DEF S
<1>4. Step \in [1 .. n -> [S -> S]]
  BY <1>2
<1> HIDE DEF Step
<1>5. PICK flat \in [0 .. n -> S] : Follows(flat, n, <<>>, Step)
  BY <1>1, <1>4, Recursion
<1>6. flat[0] = <<>> /\ \A i \in 1 .. n : flat[i] = Step[i][flat[i - 1]]
  BY <1>5 DEF Follows
<1>7. \A i \in 1 .. n : flat[i - 1] \in S
  <2>1. \A i \in 1 .. n : i - 1 \in 0 .. n
    OBVIOUS
  <2> QED
    BY <1>5, <2>1
<1>8. \A i \in 1 .. n : Step[i][flat[i - 1]] = flat[i - 1] \o pieces[i]
  BY <1>7 DEF Step
<1>9. IsFlat(flat, pieces, n)
  BY <1>6, <1>8 DEF IsFlat
<1> QED
  BY <1>5, <1>9 DEF S

LEMMA FlattenIs ==
  ASSUME NEW A, NEW n \in Nat, NEW pieces \in [1 .. n -> Seq(A)],
         NEW flat \in [0 .. n -> Seq(A)], IsFlat(flat, pieces, n)
  PROVE  FlattenSeq(pieces) = flat[n]
<1>1. Len(pieces) = n /\ pieces \in Seq(Seq(A))
  BY MakesSequence
<1>2. CASE n = 0
  <2>1. pieces = <<>>
    BY <1>1, <1>2, EmptySeq
  <2> QED
    BY <1>1, <1>2, <2>1 DEF FlattenSeq, IsFlat
<1>3. CASE n # 0
  <2> DEFINE Rec(f) == f = [i \in 1 .. n |-> IF i = 1 THEN pieces[i] ELSE f[i - 1] \o pieces[i]]
             g == [i \in 1 .. n |-> flat[i]]
             f == CHOOSE h : Rec(h)
  <2>1. flat[0] = <<>> /\ \A i \in 1 .. n : flat[i] = flat[i - 1] \o pieces[i]
    BY DEF IsFlat
  <2>2. n >= 1 /\ 1 \in 1 .. n
    BY <1>3
  <2>3. flat[1] = pieces[1]
    <3>1. flat[1] = <<>> \o pieces[1]
      <4>1. \A i \in 1 .. n : i = 1 => i - 1 = 0
        OBVIOUS
      <4>2. \A i \in 1 .. n : i = 1 => flat[i] = flat[0] \o pieces[i]
        BY <2>1, <4>1
      <4>3. flat[1] = flat[0] \o pieces[1]
        BY <2>2, <4>2
      <4> QED
        BY <2>1, <4>3
    <3>2. pieces[1] \in Seq(A)
      BY <2>2
    <3> QED
      BY <3>1, <3>2, ConcatEmptySeq
  <2>4. Rec(g)
    <3>1. ASSUME NEW i \in 1 .. n
          PROVE  g[i] = IF i = 1 THEN pieces[i] ELSE g[i - 1] \o pieces[i]
      <4>1. CASE i = 1
        BY <2>2, <2>3, <4>1
      <4>2. CASE i # 1
        <5>1. i - 1 \in 1 .. n
          BY <4>2
        <5> QED
          BY <2>1, <4>2, <5>1
      <4> QED
        BY <4>1, <4>2
    <3>2. g = [i \in 1 .. n |-> g[i]]
      OBVIOUS
    <3> HIDE DEF g
    <3> QED
      BY <3>1, <3>2
  <2>5. Rec(f)
    <3> HIDE DEF Rec
    <3> QED
      BY <2>4, Zenon
  <2>6. FlattenSeq(pieces) = f[n]
    BY <1>1, <1>3, Zenon DEF FlattenSeq
  <2> HIDE DEF f
  <2> DEFINE P == {l \in Nat : l + 1 <= n => f[l + 1] = flat[l + 1]}
  <2>7. 0 \in P
    <3>1. f[1] = pieces[1]
      BY <2>2, <2>5
    <3> QED
      BY <2>3, <3>1
  <2>8. ASSUME NEW l \in P
        PROVE  l + 1 \in P
    <3> SUFFICES ASSUME (l + 1) + 1 <= n
                 PROVE  f[(l + 1) + 1] = flat[(l + 1) + 1]
      OBVIOUS
    <3>1. /\ l \in Nat /\ (l + 1) + 1 \in 1 .. n /\ (l + 1) + 1 # 1
          /\ ((l + 1) + 1) - 1 = l + 1 /\ f[l + 1] = flat[l + 1]
      OBVIOUS
    <3>2. f[(l + 1) + 1] = f[l + 1] \o pieces[(l + 1) + 1]
      BY <2>5, <3>1
    <3>3. flat[(l + 1) + 1] = flat[l + 1] \o pieces[(l + 1) + 1]
      BY <2>1, <3>1
    <3> QED
      BY <3>1, <3>2, <3>3
  <2>9. n - 1 \in P
    <3>1. P \in SUBSET Nat
      OBVIOUS
    <3> HIDE DEF P
    <3>2. P = Nat
      BY <2>7, <2>8, <3>1, Induction
    <3> QED
      BY <2>2, <3>2
  <2> QED
    BY <2>2, <2>6, <2>9
<1> QED
  BY <1>2, <1>3

\* What is in front stays there.
LEMMA FlatGrows ==
  ASSUME NEW n \in Nat, NEW pieces \in [1 .. n -> Bytes],
         NEW flat \in [0 .. n -> Bytes], IsFlat(flat, pieces, n), NEW l \in 0 .. n
  PROVE  /\ Len(flat[l]) \in Nat /\ Len(flat[l]) <= Len(flat[n])
         /\ \A i \in 1 .. Len(flat[l]) : flat[n][i] = flat[l][i]
<1> DEFINE P == {d \in Nat : l + d <= n =>
                   /\ Len(flat[l]) <= Len(flat[l + d])
                   /\ \A i \in 1 .. Len(flat[l]) : flat[l + d][i] = flat[l][i]}
<1>1. \A i \in 0 .. n : Len(flat[i]) \in Nat /\ flat[i] \in Bytes
  BY LenProperties DEF Bytes
<1>2. 0 \in P
  <2>1. l + 0 = l /\ l \in Nat
    OBVIOUS
  <2> QED
    BY <1>1, <2>1
<1>3. ASSUME NEW d \in P
      PROVE  d + 1 \in P
  <2> SUFFICES ASSUME l + (d + 1) <= n
               PROVE  /\ Len(flat[l]) <= Len(flat[l + (d + 1)])
                      /\ \A i \in 1 .. Len(flat[l]) : flat[l + (d + 1)][i] = flat[l][i]
    OBVIOUS
  <2> DEFINE a == flat[l]
             b == flat[l + d]
             c == flat[l + (d + 1)]
  <2>1. /\ d \in Nat /\ l + d \in 0 .. n /\ l + (d + 1) \in 1 .. n
        /\ (l + (d + 1)) - 1 = l + d
    OBVIOUS
  <2>2. Len(a) <= Len(b) /\ \A i \in 1 .. Len(a) : b[i] = a[i]
    BY <2>1
  <2>3. c = b \o pieces[l + (d + 1)] /\ pieces[l + (d + 1)] \in Bytes
    BY <2>1 DEF IsFlat
  <2>4. a \in Bytes /\ b \in Bytes /\ Len(a) \in Nat /\ Len(b) \in Nat
    BY <1>1, <2>1
  <2> HIDE DEF a, b, c
  <2>5. /\ Len(c) = Len(b) + Len(pieces[l + (d + 1)])
        /\ \A i \in 1 .. Len(b) : c[i] = b[i]
    BY <2>3, <2>4, Joined
  <2>6. Len(pieces[l + (d + 1)]) \in Nat
    BY <2>3, LenProperties DEF Bytes
  <2>7. Len(a) <= Len(c)
    BY <2>2, <2>4, <2>5, <2>6
  <2>8. \A i \in 1 .. Len(a) : c[i] = a[i]
    BY <2>2, <2>4, <2>5
  <2> QED
    BY <2>7, <2>8 DEF a, c
<1>4. n - l \in P
  <2>1. P \in SUBSET Nat
    OBVIOUS
  <2> HIDE DEF P
  <2>2. P = Nat
    BY <1>2, <1>3, <2>1, Induction
  <2> QED
    BY <2>2
<1>5. l + (n - l) = n /\ n - l \in Nat
  OBVIOUS
<1>6. /\ Len(flat[l]) <= Len(flat[l + (n - l)])
      /\ \A i \in 1 .. Len(flat[l]) : flat[l + (n - l)][i] = flat[l][i]
  BY <1>4, <1>5
<1> HIDE DEF P
<1> QED
  BY <1>1, <1>5, <1>6

-----------------------------------------------------------------------------
(* A field is read where it was written *)

\* d has the bytes b from p on, as far as it goes.
Holds(d, p, b) == \A i \in 1 .. Len(b) : p + i <= Len(d) => d[p + i] = b[i]

\* A ReadBuffer that read v, or ended before.
Lost(d, p, v) == [data |-> d, pos |-> p, value |-> v, ok |-> FALSE]
Reached(r, d, p, v) ==
  \E e \in Bytes : /\ r = At(e, p, v) /\ Len(e) = Len(d)
                   /\ \A i \in p + 1 .. Len(d) : e[i] = d[i]
Ended(r, d) == \E e \in Bytes, p \in Nat : \E v : r = Lost(e, p, v) /\ Len(e) = Len(d)

\* r is what reading v, of size bytes, from d at p gives.
Reads(r, d, p, size, v) ==
  IF p + size <= Len(d) THEN Reached(r, d, p + size, v) ELSE Ended(r, d)

LEMMA HoldsParts ==
  ASSUME NEW d \in Bytes, NEW p \in Nat, NEW a \in Bytes, NEW b \in Bytes,
         Holds(d, p, a \o b)
  PROVE  Holds(d, p, a) /\ Holds(d, p + Len(a), b)
<1> DEFINE c == a \o b
           m == Len(a)
           n == Len(b)
<1>1. /\ m \in Nat /\ n \in Nat /\ Len(c) = m + n
      /\ \A i \in 1 .. m : c[i] = a[i]
      /\ \A i \in 1 .. n : c[m + i] = b[i]
  BY Joined, LenProperties DEF Bytes
<1>2. \A i \in 1 .. Len(c) : p + i <= Len(d) => d[p + i] = c[i]
  BY DEF Holds
<1> HIDE DEF c, m, n
<1>3. ASSUME NEW i \in 1 .. m, p + i <= Len(d)
      PROVE  d[p + i] = a[i]
  <2>1. i \in 1 .. Len(c)
    BY <1>1
  <2> QED
    BY <1>1, <1>2, <1>3, <2>1
<1>4. ASSUME NEW i \in 1 .. n, (p + m) + i <= Len(d)
      PROVE  d[(p + m) + i] = b[i]
  <2>1. m + i \in 1 .. Len(c) /\ (p + m) + i = p + (m + i)
    BY <1>1
  <2> QED
    BY <1>1, <1>2, <1>4, <2>1
<1> QED
  BY <1>3, <1>4 DEF Holds, m, n

\* What is behind the field that was read is as it was.
LEMMA HoldsOn ==
  ASSUME NEW d \in Bytes, NEW e \in Bytes, NEW p \in Nat, NEW b \in Bytes, Len(e) = Len(d),
         Holds(d, p, b), \A i \in p + 1 .. Len(d) : e[i] = d[i]
  PROVE  Holds(e, p, b)
<1>1. Len(d) \in Nat /\ Len(b) \in Nat
  BY LenProperties DEF Bytes
<1>2. ASSUME NEW i \in 1 .. Len(b), p + i <= Len(e)
      PROVE  e[p + i] = b[i]
  <2>1. p + i \in p + 1 .. Len(d)
    BY <1>1, <1>2
  <2> QED
    BY <1>2, <2>1 DEF Holds
<1> QED
  BY <1>2 DEF Holds

LEMMA PrimitiveReads ==
  ASSUME NEW d \in Bytes, NEW p \in Nat, NEW v, NEW n, NEW size \in Nat,
         FitsBytes(n, size), Holds(d, p, write(n, size))
  PROVE  Reads(readPrimitive(At(d, p, v), size), d, p, size, n)
<1>1. Len(d) \in Nat /\ n \in Nat
  BY LenProperties DEF Bytes, FitsBytes
<1>2. Len(write(n, size)) = size
  BY <1>1, WriteType
<1>3. CASE p + size <= Len(d)
  <2>1. \A i \in 1 .. size : d[p + i] = write(n, size)[i]
    BY <1>1, <1>2, <1>3 DEF Holds
  <2>2. readPrimitive(At(d, p, v), size) = At(flipEndian(d, p, size), p + size, n)
    BY <1>3, <2>1, PrimitiveRead
  <2>3. /\ flipEndian(d, p, size) \in Bytes /\ Len(flipEndian(d, p, size)) = Len(d)
        /\ \A i \in p + size + 1 .. Len(d) : flipEndian(d, p, size)[i] = d[i]
    BY <1>3, FlipType
  <2>4. Reached(readPrimitive(At(d, p, v), size), d, p + size, n)
    BY <2>2, <2>3 DEF Reached
  <2> QED
    BY <1>3, <2>4 DEF Reads
<1>4. CASE ~(p + size <= Len(d))
  <2> DEFINE r == At(d, p, v)
  <2>1. available(r) < size
    BY <1>1, <1>4 DEF available, At
  <2>2. readPrimitive(r, size) = Lost(d, p, Nullopt)
    BY <2>1 DEF readPrimitive, Fail, At, Lost
  <2> HIDE DEF r
  <2>3. Ended(readPrimitive(r, size), d)
    BY <2>2 DEF Ended
  <2> QED
    BY <1>4, <2>3 DEF Reads, r
<1> QED
  BY <1>3, <1>4

LEMMA OptionalReads ==
  ASSUME NEW d \in Bytes, NEW p \in Nat, NEW w, NEW v \in Nullopt .. Top,
         Holds(d, p, writeWithLoss(v))
  PROVE  Reads(readWithLoss(At(d, p, w)), d, p, 2, Lossy(v))
<1> DEFINE n == Raised(v)
           r == readPrimitive(At(d, p, w), 2)
           q == readWithLoss(At(d, p, w))
<1>1. FitsBytes(n, 2) /\ n \in Nat /\ Lossy(v) = IF n = 0 THEN Nullopt ELSE n - 1
  BY RaisedFits
<1>2. writeWithLoss(v) = write(n, 2)
  BY DEF writeWithLoss, Raised
<1>3. Reads(r, d, p, 2, n)
  BY <1>1, <1>2, PrimitiveReads
<1>4. q = IF ~r.ok THEN r
          ELSE [r EXCEPT !.value = IF r.value = 0 THEN Nullopt ELSE r.value - 1]
  BY DEF readWithLoss
<1> HIDE DEF n, r, q
<1>5. CASE p + 2 <= Len(d)
  <2>1. PICK e \in Bytes : /\ r = At(e, p + 2, n) /\ Len(e) = Len(d)
                           /\ \A i \in p + 2 + 1 .. Len(d) : e[i] = d[i]
    BY <1>3, <1>5 DEF Reads, Reached
  <2>2. q = At(e, p + 2, IF n = 0 THEN Nullopt ELSE n - 1)
    BY <1>4, <2>1 DEF At
  <2>3. Reached(q, d, p + 2, Lossy(v))
    BY <1>1, <2>1, <2>2 DEF Reached
  <2> QED
    BY <1>5, <2>3 DEF Reads, q
<1>6. CASE ~(p + 2 <= Len(d))
  <2>1. Ended(r, d)
    BY <1>3, <1>6 DEF Reads
  <2>2. q = r
    BY <1>4, <2>1 DEF Ended, Lost
  <2> QED
    BY <1>6, <2>1, <2>2 DEF Reads, q
<1> QED
  BY <1>5, <1>6

LEMMA LengthFits ==
  ASSUME NEW n \in Nat, IsLength(n)
  PROVE  FitsBytes(n, 4) /\ write(n, 4) \in Bytes /\ Len(write(n, 4)) = 4
<1>1. FitsBytes(n, 4)
  BY DEF IsLength, FitsBytes
<1>2. write(n, 4) \in Bytes /\ Len(write(n, 4)) = 4
  BY WriteType
<1> QED
  BY <1>1, <1>2

LEMMA DynReads ==
  ASSUME NEW d \in Bytes, NEW p \in Nat, NEW w, NEW v \in Bytes, IsLength(Len(v)),
         Holds(d, p, writeDyn(v))
  PROVE  /\ writeDyn(v) \in Bytes /\ Len(writeDyn(v)) = 4 + Len(v)
         /\ Reads(readDyn(At(d, p, w)), d, p, Len(writeDyn(v)), v)
<1> DEFINE n == Len(v)
           a == write(n, 4)
           r == readPrimitive(At(d, p, w), 4)
           q == readDyn(At(d, p, w))
<1>1. n \in Nat /\ Len(d) \in Nat
  BY LenProperties DEF Bytes
<1>2. FitsBytes(n, 4) /\ a \in Bytes /\ Len(a) = 4
  BY <1>1, LengthFits
<1>3. writeDyn(v) = a \o v
  BY DEF writeDyn
<1>4. writeDyn(v) \in Bytes /\ Len(writeDyn(v)) = 4 + n
  <2>1. a \o v \in Bytes /\ Len(a \o v) = Len(a) + Len(v)
    BY <1>2, Joined
  <2> HIDE DEF a
  <2> QED
    BY <1>2, <1>3, <2>1
<1>5. Holds(d, p, a) /\ Holds(d, p + 4, v)
  <2>1. Holds(d, p, a \o v)
    BY <1>3
  <2>2. Holds(d, p, a) /\ Holds(d, p + Len(a), v)
    BY <1>2, <2>1, HoldsParts
  <2> QED
    BY <1>2, <2>2
<1>6. Reads(r, d, p, 4, n)
  BY <1>2, <1>5, PrimitiveReads
<1>7. q = IF r.ok THEN read(r, r.value) ELSE r
  BY DEF readDyn
<1> HIDE DEF n, a, r, q
<1>8. CASE ~(p + 4 <= Len(d))
  <2>1. Ended(r, d)
    BY <1>6, <1>8 DEF Reads
  <2>2. q = r
    BY <1>7, <2>1 DEF Ended, Lost
  <2>3. ~(p + (4 + n) <= Len(d))
    BY <1>1, <1>8
  <2> QED
    BY <1>4, <2>1, <2>2, <2>3 DEF Reads, q, n
<1>9. CASE p + 4 <= Len(d)
  <2>1. PICK e \in Bytes : /\ r = At(e, p + 4, n) /\ Len(e) = Len(d)
                           /\ \A i \in p + 4 + 1 .. Len(d) : e[i] = d[i]
    BY <1>6, <1>9 DEF Reads, Reached
  <2>2. q = read(At(e, p + 4, n), n)
    BY <1>7, <2>1 DEF At
  <2>3. available(At(e, p + 4, n)) = Len(d) - (p + 4)
    BY <2>1 DEF available, At
  <2>4. CASE p + (4 + n) <= Len(d)
    <3> DEFINE c == SubSeq(e, (p + 4) + 1, (p + 4) + n)
    <3>1. ~(available(At(e, p + 4, n)) < n)
      BY <1>1, <2>3, <2>4
    <3>2. q = At(e, (p + 4) + n, c)
      BY <2>2, <3>1 DEF read, At
    <3>3. c = v
      <4>1. /\ (p + 4) + 1 \in Int /\ (p + 4) + n \in Int
            /\ ((p + 4) + n) - ((p + 4) + 1) + 1 = n
            /\ (IF (p + 4) + 1 <= (p + 4) + n THEN n ELSE 0) = n
        BY <1>1
      <4>2. ASSUME NEW i \in (p + 4) + 1 .. (p + 4) + n PROVE e[i] \in 0 .. Base - 1
        <5>1. i \in 1 .. Len(e)
          BY <1>1, <2>1, <2>4
        <5> QED
          BY <2>1, <5>1, ElementOfSeq DEF Bytes
      <4>3. /\ c \in Seq(0 .. Base - 1)
            /\ Len(c) = IF (p + 4) + 1 <= (p + 4) + n
                        THEN ((p + 4) + n) - ((p + 4) + 1) + 1 ELSE 0
            /\ \A i \in 1 .. ((p + 4) + n) - ((p + 4) + 1) + 1 :
                 c[i] = e[((p + 4) + 1) + i - 1]
        <5>1. (p + 4) + 1 \in Int /\ (p + 4) + n \in Int
          BY <4>1
        <5> QED
          BY <4>2, <5>1, SubSeqProperties
      <4> HIDE DEF c
      <4>4. c \in Seq(0 .. Base - 1) /\ Len(c) = n
        BY <4>1, <4>3
      <4>5. ASSUME NEW i \in 1 .. n PROVE c[i] = v[i]
        <5>1. /\ ((p + 4) + 1) + i - 1 = (p + 4) + i
              /\ (p + 4) + i \in p + 4 + 1 .. Len(d) /\ (p + 4) + i <= Len(d)
          BY <1>1, <2>4
        <5>2. c[i] = e[(p + 4) + i]
          BY <4>1, <4>3, <5>1
        <5>3. e[(p + 4) + i] = d[(p + 4) + i]
          BY <2>1, <5>1
        <5>4. d[(p + 4) + i] = v[i]
          BY <1>5, <5>1 DEF Holds, n
        <5> QED
          BY <5>2, <5>3, <5>4
      <4>6. c = [i \in 1 .. n |-> c[i]] /\ v = [i \in 1 .. n |-> v[i]]
        BY <4>4 DEF Bytes, n
      <4> QED
        BY <4>5, <4>6
    <3>4. (p + 4) + n = p + (4 + n) /\ \A i \in p + (4 + n) + 1 .. Len(d) : e[i] = d[i]
      BY <1>1, <2>1
    <3> HIDE DEF c
    <3>5. Reached(q, d, p + (4 + n), v)
      BY <2>1, <3>2, <3>3, <3>4 DEF Reached
    <3> QED
      BY <1>4, <2>4, <3>5 DEF Reads, q, n
  <2>5. CASE ~(p + (4 + n) <= Len(d))
    <3>1. available(At(e, p + 4, n)) < n
      BY <1>1, <2>3, <2>5
    <3>2. q = Lost(e, p + 4, Nullopt)
      BY <2>2, <3>1 DEF read, Fail, At, Lost
    <3>3. Ended(q, d)
      BY <2>1, <3>2 DEF Ended
    <3> QED
      BY <1>4, <2>5, <3>3 DEF Reads, q, n
  <2> QED
    BY <2>4, <2>5
<1> QED
  BY <1>8, <1>9

LEMMA FirstRead ==
  ASSUME NEW v \in Bytes, v # <<>>
  PROVE  LET r == readPrimitive(Reader(v, 0), 1)
         IN r.ok /\ r.value = Head(v) /\ Head(v) \in 0 .. Base - 1
<1> DEFINE n == Head(v)
<1>1. Len(v) \in Nat /\ 1 <= Len(v) /\ n = v[1] /\ n \in 0 .. Base - 1
  <2>1. Len(v) \in Nat /\ Len(v) # 0
    BY EmptySeq, LenProperties DEF Bytes
  <2>2. 1 \in 1 .. Len(v)
    BY <2>1
  <2>3. v[1] \in 0 .. Base - 1
    BY <2>2, ElementOfSeq DEF Bytes
  <2> QED
    BY <2>1, <2>3
<1> HIDE DEF n
<1>2. FitsBytes(n, 1) /\ n \in Nat
  <2>1. Base \in Nat \ {0} /\ Base = 256
    BY ByteWidth
  <2>2. n \in 0 .. Base - 1
    BY <1>1
  <2>3. n \in Nat /\ n <= Base - 1
    BY <2>1, <2>2
  <2>4. n \in 0 .. 255
    BY <2>1, <2>3
  <2> QED
    BY <2>3, <2>4, FitsInOne
<1>3. write(n, 1)[1] = n
  <2>1. write(n, 1)[1] = inMemory(n, 1)[1 + 1 - 1]
    BY <1>2, WriteType
  <2>2. inMemory(n, 1)[1] = Shifted(n, 1)[1 - 1] % Base
    BY <1>2, InMemoryType
  <2>3. Shifted(n, 1)[0] = n
    BY <1>2, ShiftedUnfolds
  <2>4. n % Base = n
    <3>0. Base \in Nat \ {0} /\ n \in 0 .. Base - 1 /\ 0 \in Int
      BY <1>1, ByteWidth
    <3>1. (0 * Base + n) % Base = n
      BY <3>0, Division
    <3>2. 0 * Base + n = n
      BY <3>0
    <3> QED
      BY <3>1, <3>2
  <2> QED
    BY <2>1, <2>2, <2>3, <2>4
<1>4. \A i \in 1 .. 1 : v[0 + i] = write(n, 1)[i]
  BY <1>1, <1>3
<1>5. readPrimitive(At(v, 0, Nullopt), 1) = At(flipEndian(v, 0, 1), 0 + 1, n)
  BY <1>1, <1>2, <1>4, PrimitiveRead
<1>6. Reader(v, 0) = At(v, 0, Nullopt)
  BY DEF Reader, At
<1> HIDE DEF At
<1>7. At(flipEndian(v, 0, 1), 0 + 1, n).ok /\ At(flipEndian(v, 0, 1), 0 + 1, n).value = n
  BY DEF At
<1> QED
  BY <1>1, <1>5, <1>6, <1>7 DEF n

LEMMA AppendMap ==
  ASSUME NEW S, NEW n \in Nat, NEW g \in [1 .. n + 1 -> S]
  PROVE  g = Append([i \in 1 .. n |-> g[i]], g[n + 1])
<1> DEFINE a == [i \in 1 .. n |-> g[i]]
           b == Append(a, g[n + 1])
<1>1. a \in Seq(S) /\ Len(a) = n /\ \A i \in 1 .. n : a[i] = g[i]
  <2>1. a \in [1 .. n -> S]
    OBVIOUS
  <2> QED
    BY <2>1, MakesSequence
<1>2. g[n + 1] \in S /\ g \in Seq(S) /\ Len(g) = n + 1
  <2>1. n + 1 \in 1 .. n + 1 /\ n + 1 \in Nat
    OBVIOUS
  <2> QED
    BY <2>1, MakesSequence
<1> HIDE DEF a
<1>3. /\ b \in Seq(S) /\ Len(b) = n + 1 /\ b[n + 1] = g[n + 1]
      /\ \A i \in 1 .. n : b[i] = a[i]
  BY <1>1, <1>2, AppendProperties
<1> HIDE DEF b
<1>4. \A i \in 1 .. n + 1 : b[i] = g[i]
  <2>1. \A i \in 1 .. n + 1 : i \in 1 .. n \/ i = n + 1
    OBVIOUS
  <2> QED
    BY <1>1, <1>3, <2>1
<1>5. b = g
  BY <1>2, <1>3, <1>4, SeqEqual
<1> QED
  BY <1>5 DEF a, b

\* What readDynList does of each element.
Each(q) ==
  LET element == readDyn(q)
      first == readPrimitive(Reader(element.value, 0), 1)
  IN IF ~q.ok THEN q
     ELSE IF ~element.ok THEN Fail(element)
     ELSE IF ~first.ok THEN Fail(element)
     ELSE [element EXCEPT !.value = Append(q.value, first.value)]

\* The recursion in readDynList defines what it says.
LEMMA ListUnfolds ==
  ASSUME NEW r, NEW n \in Nat, readPrimitive(r, 4).ok, readPrimitive(r, 4).value = n
  PROVE  \E after :
           /\ after[0] = [readPrimitive(r, 4) EXCEPT !.value = <<>>]
           /\ \A i \in 1 .. n : after[i] = Each(after[i - 1])
           /\ readDynList(r) = after[n]
<1> DEFINE size == readPrimitive(r, 4)
           none == [size EXCEPT !.value = <<>>]
           Step(g, i) == IF i = 0 THEN none ELSE Each(g[i - 1])
           P == {l \in Nat : \E g : g = [i \in 0 .. l |-> Step(g, i)]}
           after == CHOOSE g : g = [i \in 0 .. n |-> Step(g, i)]
<1>1. readDynList(r) = after[n]
  BY Zenon DEF readDynList, Each
<1> HIDE DEF none, size
<1>2. 0 \in P
  <2>1. [i \in 0 .. 0 |-> none] = [i \in 0 .. 0 |-> Step([j \in 0 .. 0 |-> none], i)]
    OBVIOUS
  <2> QED
    BY <2>1
<1>3. ASSUME NEW l \in P
      PROVE  l + 1 \in P
  <2>1. PICK g : g = [i \in 0 .. l |-> Step(g, i)]
    OBVIOUS
  <2> DEFINE more == [i \in 0 .. l + 1 |-> IF i <= l THEN g[i] ELSE Step(g, i)]
  <2>2. ASSUME NEW i \in 0 .. l + 1
        PROVE  more[i] = Step(more, i)
    <3>1. Step(more, i) = Step(g, i)
      OBVIOUS
    <3>2. i <= l => g[i] = Step(g, i)
      <4> HIDE DEF Step
      <4> QED
        BY <2>1, SMTT(20)
    <3> QED
      BY <3>1, <3>2
  <2>3. more = [i \in 0 .. l + 1 |-> more[i]]
    OBVIOUS
  <2> HIDE DEF more, Step
  <2>4. more = [i \in 0 .. l + 1 |-> Step(more, i)]
    BY <2>2, <2>3
  <2> QED
    BY <2>4
<1>4. P = Nat
  <2>1. P \in SUBSET Nat
    OBVIOUS
  <2> HIDE DEF P
  <2> QED
    BY <1>2, <1>3, <2>1, Induction
<1>5. \E g : g = [i \in 0 .. n |-> Step(g, i)]
  BY <1>4
<1>6. after = [i \in 0 .. n |-> Step(after, i)]
  <2> HIDE DEF Step
  <2> QED
    BY <1>5, Zenon
<1> HIDE DEF after
<1>7. after[0] = none /\ \A i \in 1 .. n : after[i] = Each(after[i - 1])
  BY <1>6
<1> QED
  BY <1>1, <1>7 DEF none, size

LEMMA ValueReplaced ==
  ASSUME NEW e, NEW p, NEW v, NEW u
  PROVE  /\ [At(e, p, v) EXCEPT !.value = u] = At(e, p, u)
         /\ Fail(Lost(e, p, v)) = Lost(e, p, Nullopt)
<1>1. [At(e, p, v) EXCEPT !.value = u] = At(e, p, u)
  <2> DEFINE r == At(e, p, v)
             g == [r EXCEPT !.value = u]
             h == At(e, p, u)
             T == [data : {e}, pos : {p}, value : {u}, ok : BOOLEAN]
  <2>1. r \in [data : {e}, pos : {p}, value : {v}, ok : BOOLEAN] /\ r.ok = TRUE
    BY DEF At
  <2>2. h \in T /\ h.data = e /\ h.pos = p /\ h.value = u /\ h.ok = TRUE
    BY DEF At
  <2> HIDE DEF r
  <2>3. g \in T /\ g.data = e /\ g.pos = p /\ g.value = u /\ g.ok = TRUE
    BY <2>1
  <2> HIDE DEF g, h
  <2>4. g = h
    BY <2>2, <2>3
  <2> QED
    BY <2>4 DEF r, g, h
<1>2. Fail(Lost(e, p, v)) = Lost(e, p, Nullopt)
  <2> DEFINE r == Lost(e, p, v)
             g == Fail(r)
             h == Lost(e, p, Nullopt)
             T == [data : {e}, pos : {p}, value : {Nullopt}, ok : BOOLEAN]
  <2>1. r \in [data : {e}, pos : {p}, value : {v}, ok : BOOLEAN] /\ r.ok = FALSE
    BY DEF Lost
  <2>2. h \in T /\ h.data = e /\ h.pos = p /\ h.value = Nullopt /\ h.ok = FALSE
    BY DEF Lost
  <2> HIDE DEF r
  <2>3. g \in T /\ g.data = e /\ g.pos = p /\ g.value = Nullopt /\ g.ok = FALSE
    BY <2>1 DEF Fail
  <2> HIDE DEF g, h
  <2>4. g = h
    BY <2>2, <2>3
  <2> QED
    BY <2>4 DEF r, g, h
<1> QED
  BY <1>1, <1>2

LEMMA ListReads ==
  ASSUME NEW d \in Bytes, NEW p \in Nat, NEW w, NEW E \in Seq(Bytes), IsLength(Len(E)),
         \A i \in DOMAIN E : E[i] # <<>> /\ IsLength(Len(E[i])),
         Holds(d, p, writeDynList(E))
  PROVE  /\ writeDynList(E) \in Bytes
         /\ Reads(readDynList(At(d, p, w)), d, p, Len(writeDynList(E)),
                  [i \in DOMAIN E |-> Head(E[i])])
<1> DEFINE N == Len(E)
           pieces == [i \in DOMAIN E |-> writeDyn(E[i])]
           a == write(N, 4)
           r == readPrimitive(At(d, p, w), 4)
           whole == readDynList(At(d, p, w))
           First(l) == [i \in 1 .. l |-> Head(E[i])]
<1>1. N \in Nat /\ DOMAIN E = 1 .. N /\ Len(d) \in Nat
  BY LenProperties DEF Bytes
<1>2. FitsBytes(N, 4) /\ a \in Bytes /\ Len(a) = 4
  BY <1>1, LengthFits
<1>3. \A i \in 1 .. N : /\ E[i] \in Bytes /\ E[i] # <<>> /\ IsLength(Len(E[i]))
                        /\ Len(E[i]) \in Nat
  <2>1. \A i \in 1 .. N : E[i] \in Bytes
    BY ElementOfSeq
  <2> QED
    BY <1>1, <2>1, LenProperties DEF Bytes
<1>4. pieces \in [1 .. N -> Bytes] /\ \A i \in 1 .. N : pieces[i] = writeDyn(E[i])
  <2>1. ASSUME NEW i \in 1 .. N
        PROVE  writeDyn(E[i]) \in Bytes
    <3>1. FitsBytes(Len(E[i]), 4) /\ write(Len(E[i]), 4) \in Bytes
      BY <1>3, LengthFits
    <3>2. E[i] \in Bytes
      BY <1>3
    <3> QED
      BY <3>1, <3>2, Joined DEF writeDyn
  <2> QED
    BY <1>1, <2>1
<1> HIDE DEF N, pieces, a, r, whole
<1>5. PICK flat \in [0 .. N -> Bytes] : IsFlat(flat, pieces, N)
  BY <1>1, <1>4, FlatExists DEF Bytes
<1>6. FlattenSeq(pieces) = flat[N]
  BY <1>1, <1>4, <1>5, FlattenIs DEF Bytes
<1>7. /\ flat[0] = <<>> /\ \A i \in 1 .. N : flat[i] = flat[i - 1] \o pieces[i]
      /\ \A i \in 0 .. N : flat[i] \in Bytes /\ Len(flat[i]) \in Nat
  BY <1>5, LenProperties DEF IsFlat, Bytes
<1>8. writeDynList(E) = a \o flat[N]
  BY <1>6 DEF writeDynList, a, N, pieces
<1>9. writeDynList(E) \in Bytes /\ Len(writeDynList(E)) = 4 + Len(flat[N])
  <2>1. flat[N] \in Bytes
    BY <1>1, <1>7
  <2> DEFINE z == flat[N]
  <2> HIDE DEF z
  <2>2. z \in Bytes
    BY <2>1 DEF z
  <2>3. a \o z \in Bytes /\ Len(a \o z) = Len(a) + Len(z)
    BY <1>2, <2>2, Joined
  <2>4. writeDynList(E) = a \o z
    BY <1>8 DEF z
  <2> QED
    BY <1>2, <2>3, <2>4 DEF z
<1>10. Holds(d, p, a) /\ Holds(d, p + 4, flat[N])
  <2>1. flat[N] \in Bytes /\ Holds(d, p, a \o flat[N])
    BY <1>1, <1>7, <1>8
  <2>2. Holds(d, p, a) /\ Holds(d, p + Len(a), flat[N])
    BY <1>2, <2>1, HoldsParts
  <2> QED
    BY <1>2, <2>2
<1>11. Reads(r, d, p, 4, N)
  BY <1>2, <1>10, PrimitiveReads DEF a, r
<1>12. First(N) = [i \in DOMAIN E |-> Head(E[i])]
  BY <1>1
<1>13. CASE ~(p + 4 <= Len(d))
  <2>1. Ended(r, d)
    BY <1>11, <1>13 DEF Reads
  <2>2. whole = r
    <3>1. ~r.ok
      BY <2>1 DEF Ended, Lost
    <3> QED
      BY <3>1, Zenon DEF readDynList, r, whole
  <2>3. ~(p + (4 + Len(flat[N])) <= Len(d))
    <3>1. Len(flat[N]) \in Nat
      BY <1>1, <1>7
    <3> QED
      BY <1>1, <1>13, <3>1
  <2>4. Reads(whole, d, p, 4 + Len(flat[N]), First(N))
    BY <2>1, <2>2, <2>3 DEF Reads
  <2> QED
    BY <1>9, <1>12, <2>4 DEF whole
<1>14. CASE p + 4 <= Len(d)
  <2>1. PICK e \in Bytes : /\ r = At(e, p + 4, N) /\ Len(e) = Len(d)
                           /\ \A i \in p + 4 + 1 .. Len(d) : e[i] = d[i]
    BY <1>11, <1>14 DEF Reads, Reached
  <2>2. r.ok /\ r.value = N /\ [r EXCEPT !.value = <<>>] = At(e, p + 4, <<>>)
    <3>1. r.ok /\ r.value = N
      BY <2>1 DEF At
    <3>2. [r EXCEPT !.value = <<>>] = At(e, p + 4, <<>>)
      BY <2>1, ValueReplaced
    <3> QED
      BY <3>1, <3>2
  <2>3. PICK after : /\ after[0] = At(e, p + 4, <<>>)
                     /\ \A i \in 1 .. N : after[i] = Each(after[i - 1])
                     /\ whole = after[N]
    BY <1>1, <2>2, ListUnfolds DEF r, whole
  <2> DEFINE P == {l \in Nat : l <= N => Reads(after[l], d, p + 4, Len(flat[l]), First(l))}
  <2>4. 0 \in P
    <3>1. First(0) = <<>> /\ Len(flat[0]) = 0
      <4>1. First(0) \in [1 .. 0 -> {}]
        OBVIOUS
      <4>2. First(0) \in Seq({}) /\ Len(First(0)) = 0
        BY <4>1, MakesSequence
      <4> HIDE DEF First
      <4> QED
        BY <1>7, <4>2, EmptySeq
    <3>2. Reached(after[0], d, p + 4 + 0, <<>>)
      BY <2>1, <2>3 DEF Reached
    <3>3. p + 4 + 0 <= Len(d)
      BY <1>14
    <3> HIDE DEF First
    <3>4. Reads(after[0], d, p + 4, Len(flat[0]), First(0))
      BY <3>1, <3>2, <3>3 DEF Reads
    <3> QED
      BY <3>4
  <2>5. ASSUME NEW l \in P
        PROVE  l + 1 \in P
    <3> SUFFICES ASSUME l + 1 <= N
                 PROVE  Reads(after[l + 1], d, p + 4, Len(flat[l + 1]), First(l + 1))
      OBVIOUS
    <3> DEFINE v == E[l + 1]
               m == Len(flat[l])
               k == p + 4 + m
               q == after[l]
               element == readDyn(q)
               piece == pieces[l + 1]
    <3>1. /\ l \in Nat /\ l + 1 \in 1 .. N /\ (l + 1) - 1 = l /\ l \in 0 .. N /\ l + 1 \in 0 .. N
          /\ Reads(q, d, p + 4, m, First(l))
      BY <1>1
    <3>2. /\ m \in Nat /\ v \in Bytes /\ v # <<>> /\ IsLength(Len(v)) /\ Len(v) \in Nat
          /\ piece = writeDyn(v) /\ piece \in Bytes /\ k \in Nat /\ flat[l] \in Bytes
      <4>1. v \in Bytes /\ v # <<>> /\ IsLength(Len(v)) /\ Len(v) \in Nat
        BY <1>3, <3>1
      <4>2. piece = writeDyn(v) /\ piece \in Bytes
        BY <1>4, <3>1
      <4>3. m \in Nat /\ flat[l] \in Bytes
        BY <1>7, <3>1
      <4>4. k \in Nat
        <5> HIDE DEF m
        <5> QED
          BY <4>3
      <4> QED
        BY <4>1, <4>2, <4>3, <4>4
    <3>3. flat[l + 1] = flat[l] \o piece
      BY <1>7, <3>1
    <3>4. Len(flat[l + 1]) = m + Len(piece) /\ Len(piece) \in Nat
      <4> HIDE DEF piece
      <4> QED
        BY <3>2, <3>3, Joined, LenProperties DEF Bytes
    <3>5. after[l + 1] = Each(q)
      BY <2>3, <3>1
    <3>6. Holds(d, k, piece)
      <4>1. Holds(d, p + 4, flat[l + 1])
        <5> DEFINE z == flat[l + 1]
        <5>1. /\ Len(z) \in Nat /\ Len(z) <= Len(flat[N])
              /\ \A i \in 1 .. Len(z) : flat[N][i] = z[i]
          BY <1>1, <1>4, <1>5, <3>1, FlatGrows
        <5>2. Len(flat[N]) \in Nat
          BY <1>1, <1>7
        <5> HIDE DEF z
        <5>3. \A i \in 1 .. Len(z) : i \in 1 .. Len(flat[N])
          BY <5>1, <5>2
        <5>4. Holds(d, p + 4, z)
          BY <1>10, <5>1, <5>3 DEF Holds
        <5> QED
          BY <5>4 DEF z
      <4> HIDE DEF piece
      <4>2. Holds(d, p + 4, flat[l] \o piece)
        BY <3>3, <4>1
      <4>3. p + 4 \in Nat
        OBVIOUS
      <4>4. Holds(d, p + 4 + Len(flat[l]), piece)
        BY <3>2, <4>2, <4>3, HoldsParts
      <4> QED
        BY <4>4
    <3> HIDE DEF v, m, k, q, element, piece
    <3>7. CASE ~(p + 4 + m <= Len(d))
      <4>1. Ended(q, d)
        BY <3>1, <3>7 DEF Reads
      <4>2. Each(q) = q
        <5>1. ~q.ok
          BY <4>1 DEF Ended, Lost
        <5> QED
          BY <5>1, Zenon DEF Each
      <4>3. ~(p + 4 + Len(flat[l + 1]) <= Len(d))
        BY <1>1, <3>2, <3>4, <3>7, SMTT(20)
      <4> QED
        BY <3>5, <4>1, <4>2, <4>3 DEF Reads
    <3>8. CASE p + 4 + m <= Len(d)
      <4>1. PICK t \in Bytes : /\ q = At(t, k, First(l)) /\ Len(t) = Len(d)
                               /\ \A i \in k + 1 .. Len(d) : t[i] = d[i]
        BY <3>1, <3>8 DEF Reads, Reached, k
      <4>2. Holds(t, k, piece)
        BY <3>2, <3>6, <4>1, HoldsOn
      <4>3. Reads(element, t, k, Len(piece), v)
        <5>1. Holds(t, k, writeDyn(v))
          BY <3>2, <4>2
        <5>2. Reads(readDyn(At(t, k, First(l))), t, k, Len(writeDyn(v)), v)
          <6> HIDE DEF First
          <6> QED
            BY <3>2, <5>1, DynReads
        <5> HIDE DEF First
        <5> QED
          BY <3>2, <4>1, <5>2 DEF element
      <4> DEFINE first == readPrimitive(Reader(element.value, 0), 1)
      <4>4. q.ok /\ q.value = First(l)
        <5> HIDE DEF First
        <5> QED
          BY <4>1 DEF At
      <4>5. Each(q) = IF ~element.ok THEN Fail(element)
                      ELSE IF ~first.ok THEN Fail(element)
                      ELSE [element EXCEPT !.value = Append(q.value, first.value)]
        BY <4>4, Zenon DEF Each, element
      <4> HIDE DEF first
      <4>6. CASE ~(k + Len(piece) <= Len(d))
        <5>1. Ended(element, t)
          BY <4>1, <4>3, <4>6 DEF Reads
        <5>2. PICK u \in Bytes, j \in Nat : \E h : element = Lost(u, j, h) /\ Len(u) = Len(t)
          BY <5>1 DEF Ended
        <5>3. ~element.ok /\ Fail(element) = Lost(u, j, Nullopt)
          <6>1. PICK h : element = Lost(u, j, h)
            BY <5>2
          <6>2. Fail(element) = Lost(u, j, Nullopt)
            BY <6>1, ValueReplaced
          <6>3. ~element.ok
            BY <6>1 DEF Lost
          <6> QED
            BY <6>2, <6>3
        <5>4. Ended(Each(q), d)
          BY <4>1, <4>5, <5>2, <5>3 DEF Ended
        <5>5. ~(p + 4 + Len(flat[l + 1]) <= Len(d))
          BY <1>1, <3>2, <3>4, <4>6 DEF k
        <5> QED
          BY <3>5, <5>4, <5>5 DEF Reads
      <4>7. CASE k + Len(piece) <= Len(d)
        <5>1. PICK u \in Bytes :
                /\ element = At(u, k + Len(piece), v) /\ Len(u) = Len(t)
                /\ \A i \in k + Len(piece) + 1 .. Len(t) : u[i] = t[i]
          BY <4>1, <4>3, <4>7 DEF Reads, Reached
        <5>2. element.ok /\ element.value = v
          BY <5>1 DEF At
        <5>3. first.ok /\ first.value = Head(v)
          BY <3>2, <5>2, FirstRead DEF first
        <5>4. Each(q) = At(u, k + Len(piece), Append(First(l), Head(v)))
          <6> HIDE DEF First
          <6>1. Each(q) = [element EXCEPT !.value = Append(First(l), Head(v))]
            BY <4>4, <4>5, <5>2, <5>3
          <6> DEFINE z == Append(First(l), Head(v))
          <6> HIDE DEF z
          <6>2. [element EXCEPT !.value = z] = At(u, k + Len(piece), z)
            BY <5>1, ValueReplaced
          <6> QED
            BY <6>1, <6>2 DEF z
        <5>5. First(l + 1) = Append(First(l), Head(v))
          <6> DEFINE g == First(l + 1)
          <6>1. \A i \in 1 .. l + 1 : Head(E[i]) \in 0 .. Base - 1
            <7>1. \A i \in 1 .. l + 1 : i \in 1 .. N
              BY <1>1, <3>1
            <7> QED
              BY <1>3, <7>1, FirstRead
          <6>2. g \in [1 .. l + 1 -> 0 .. Base - 1]
            BY <6>1
          <6>3. First(l) = [i \in 1 .. l |-> g[i]] /\ g[l + 1] = Head(v)
            BY <3>1 DEF v
          <6> HIDE DEF g, First
          <6> QED
            BY <3>1, <6>2, <6>3, AppendMap DEF g
        <5>6. /\ k + Len(piece) = p + 4 + Len(flat[l + 1])
              /\ p + 4 + Len(flat[l + 1]) <= Len(d)
          BY <3>2, <3>4, <4>7 DEF k
        <5>7. \A i \in k + Len(piece) + 1 .. Len(d) : u[i] = d[i]
          <6>1. \A i \in k + Len(piece) + 1 .. Len(d) : i \in k + 1 .. Len(d)
            <7> DEFINE z == Len(piece)
            <7>1. z \in Nat /\ k \in Nat
              BY <3>2, <3>4
            <7> HIDE DEF z
            <7>2. \A i \in k + z + 1 .. Len(d) : i \in k + 1 .. Len(d)
              BY <1>1, <7>1
            <7> QED
              BY <7>2 DEF z
          <6> QED
            BY <4>1, <5>1, <6>1
        <5> HIDE DEF First
        <5>8. Reached(Each(q), d, k + Len(piece), First(l + 1))
          BY <4>1, <5>1, <5>4, <5>5, <5>7 DEF Reached
        <5> QED
          BY <3>5, <5>6, <5>8 DEF Reads
      <4> QED
        BY <4>6, <4>7
    <3> QED
      BY <3>7, <3>8
  <2>6. Reads(whole, d, p + 4, Len(flat[N]), First(N))
    <3>1. P \in SUBSET Nat
      OBVIOUS
    <3> HIDE DEF P
    <3>2. P = Nat
      BY <2>4, <2>5, <3>1, Induction
    <3>3. N \in P /\ N <= N
      BY <1>1, <3>2
    <3> HIDE DEF First
    <3> QED
      BY <2>3, <3>3 DEF P
  <2>7. p + 4 + Len(flat[N]) = p + (4 + Len(flat[N]))
    <3>1. Len(flat[N]) \in Nat
      BY <1>1, <1>7
    <3> DEFINE z == Len(flat[N])
    <3> HIDE DEF z
    <3>2. z \in Nat
      BY <3>1 DEF z
    <3>3. p + 4 + z = p + (4 + z)
      BY <3>2
    <3> QED
      BY <3>3 DEF z
  <2> HIDE DEF First
  <2>8. Reads(whole, d, p, 4 + Len(flat[N]), First(N))
    BY <2>6, <2>7 DEF Reads
  <2> QED
    BY <1>9, <1>12, <2>8 DEF whole
<1> QED
  BY <1>13, <1>14

\* A field's values and what comes back of them.
IsField(f) ==
  \/ f.kind = "byte" /\ f.value \in 0 .. Base - 1
  \/ f.kind = "word" /\ f.value \in 0 .. Top
  \/ f.kind = "optional" /\ f.value \in Nullopt .. Top
  \/ f.kind = "dyn" /\ f.value \in Bytes /\ IsLength(Len(f.value))
  \/ /\ f.kind = "list" /\ f.value \in Seq(Bytes) /\ IsLength(Len(f.value))
     /\ \A i \in DOMAIN f.value : f.value[i] # <<>> /\ IsLength(Len(f.value[i]))

LEMMA FieldReads ==
  ASSUME NEW f, IsField(f)
  PROVE  /\ encoded(f) \in Bytes
         /\ \A d \in Bytes, p \in Nat :
              Holds(d, p, encoded(f)) =>
                Reads(decoded(At(d, p, Nullopt), f.kind), d, p, Len(encoded(f)), survives(f))
<1>1. CASE f.kind = "byte" /\ f.value \in 0 .. Base - 1
  <2>1. encoded(f) = write(f.value, 1) /\ survives(f) = f.value
    BY <1>1 DEF encoded, survives
  <2>2. \A r : decoded(r, f.kind) = readPrimitive(r, 1)
    BY <1>1 DEF decoded
  <2>3. FitsBytes(f.value, 1) /\ f.value \in Nat
    <3>1. Base \in Nat \ {0} /\ Base = 256
      BY ByteWidth
    <3>2. f.value \in Nat /\ f.value <= Base - 1
      BY <1>1, <3>1
    <3>3. f.value \in 0 .. 255
      BY <3>1, <3>2
    <3> QED
      BY <3>2, <3>3, FitsInOne
  <2>4. write(f.value, 1) \in Bytes /\ Len(write(f.value, 1)) = 1
    BY <2>3, WriteType
  <2>5. \A d \in Bytes, p \in Nat :
          Holds(d, p, write(f.value, 1)) =>
            Reads(readPrimitive(At(d, p, Nullopt), 1), d, p, 1, f.value)
    BY <2>3, PrimitiveReads
  <2> QED
    BY <2>1, <2>2, <2>4, <2>5
<1>2. CASE f.kind = "word" /\ f.value \in 0 .. Top
  <2>1. encoded(f) = write(f.value, 2) /\ survives(f) = f.value
    BY <1>2 DEF encoded, survives
  <2>2. \A r : decoded(r, f.kind) = readPrimitive(r, 2)
    BY <1>2 DEF decoded
  <2>3. FitsBytes(f.value, 2) /\ f.value \in Nat
    <3>0. Top \in Nat
      BY TopWidth
    <3>1. f.value \in Nat
      BY <1>2, <3>0
    <3> QED
      BY <1>2, <3>1, FitsInTwo
  <2>4. write(f.value, 2) \in Bytes /\ Len(write(f.value, 2)) = 2
    BY <2>3, WriteType
  <2>5. \A d \in Bytes, p \in Nat :
          Holds(d, p, write(f.value, 2)) =>
            Reads(readPrimitive(At(d, p, Nullopt), 2), d, p, 2, f.value)
    BY <2>3, PrimitiveReads
  <2> QED
    BY <2>1, <2>2, <2>4, <2>5
<1>3. CASE f.kind = "optional" /\ f.value \in Nullopt .. Top
  <2>1. encoded(f) = writeWithLoss(f.value) /\ survives(f) = Lossy(f.value)
    BY <1>3 DEF encoded, survives, Lossy
  <2>2. \A r : decoded(r, f.kind) = readWithLoss(r)
    BY <1>3 DEF decoded
  <2>3. writeWithLoss(f.value) \in Bytes /\ Len(writeWithLoss(f.value)) = 2
    <3>1. Raised(f.value) \in Nat /\ writeWithLoss(f.value) = write(Raised(f.value), 2)
      BY <1>3, RaisedFits DEF writeWithLoss, Raised
    <3> QED
      BY <3>1, WriteType
  <2>4. \A d \in Bytes, p \in Nat :
          Holds(d, p, writeWithLoss(f.value)) =>
            Reads(readWithLoss(At(d, p, Nullopt)), d, p, 2, Lossy(f.value))
    BY <1>3, OptionalReads
  <2> QED
    BY <2>1, <2>2, <2>3, <2>4
<1>4. CASE f.kind = "dyn" /\ f.value \in Bytes /\ IsLength(Len(f.value))
  <2>1. encoded(f) = writeDyn(f.value) /\ survives(f) = f.value
    BY <1>4 DEF encoded, survives
  <2>2. \A r : decoded(r, f.kind) = readDyn(r)
    BY <1>4 DEF decoded
  <2>3. writeDyn(f.value) \in Bytes
    <3>1. Len(f.value) \in Nat
      BY <1>4, LenProperties DEF Bytes
    <3>2. write(Len(f.value), 4) \in Bytes
      BY <1>4, <3>1, LengthFits
    <3> QED
      BY <1>4, <3>2, Joined DEF writeDyn
  <2>4. \A d \in Bytes, p \in Nat :
          Holds(d, p, writeDyn(f.value)) =>
            Reads(readDyn(At(d, p, Nullopt)), d, p, Len(writeDyn(f.value)), f.value)
    BY <1>4, DynReads
  <2> QED
    BY <2>1, <2>2, <2>3, <2>4
<1>5. CASE /\ f.kind = "list" /\ f.value \in Seq(Bytes) /\ IsLength(Len(f.value))
           /\ \A i \in DOMAIN f.value : f.value[i] # <<>> /\ IsLength(Len(f.value[i]))
  <2> DEFINE E == f.value
  <2>1. encoded(f) = writeDynList(E) /\ survives(f) = [i \in DOMAIN E |-> Head(E[i])]
    BY <1>5 DEF encoded, survives
  <2>2. \A r : decoded(r, f.kind) = readDynList(r)
    BY <1>5 DEF decoded
  <2>3. E \in Seq(Bytes) /\ IsLength(Len(E))
        /\ \A i \in DOMAIN E : E[i] # <<>> /\ IsLength(Len(E[i]))
    BY <1>5
  <2> HIDE DEF E
  <2>4. writeDynList(E) \in Bytes
    <3>1. <<>> \in Bytes /\ Len(<<>>) = 0 /\ 0 \in Nat
      BY EmptySeq DEF Bytes
    <3>2. Holds(<<>>, 0, writeDynList(E))
      BY <3>1 DEF Holds
    <3> QED
      BY <2>3, <3>1, <3>2, ListReads
  <2>5. ASSUME NEW d \in Bytes, NEW p \in Nat, Holds(d, p, writeDynList(E))
        PROVE  Reads(readDynList(At(d, p, Nullopt)), d, p, Len(writeDynList(E)),
                     [i \in DOMAIN E |-> Head(E[i])])
    BY <2>3, <2>5, ListReads
  <2> QED
    BY <2>1, <2>2, <2>4, <2>5
<1> QED
  BY <1>1, <1>2, <1>3, <1>4, <1>5 DEF IsField

-----------------------------------------------------------------------------
(* What is read was written *)

Pieces(fields) == [i \in 1 .. Len(fields) |-> encoded(fields[i])]

(***************************************************************************)
(* The strengthening: the buffer is what the fields come to one behind the *)
(* other; what the reader has of it and has not read is as it was, and     *)
(* begins where the fields that were read end.                             *)
(***************************************************************************)
ReadFrom(flat) ==
  LET n == Len(fieldsWritten)
      k == Len(results)
  IN /\ k <= n /\ m_data \in Bytes
     /\ \/ /\ bufferStage = "writing" /\ k = 0 /\ m_pos = 0 /\ ~isCut /\ m_data = flat[n]
        \/ /\ bufferStage = "reading"
           /\ Len(m_data) <= Len(flat[n]) /\ (isCut <=> Len(m_data) < Len(flat[n]))
           /\ m_pos = Len(flat[k]) /\ m_pos <= Len(m_data)
           /\ \A i \in m_pos + 1 .. Len(m_data) : m_data[i] = flat[n][i]
        \/ /\ bufferStage = "failed" /\ isCut /\ k < n /\ Len(m_data) < Len(flat[k + 1])

BufferInv ==
  /\ fieldsWritten \in Seq(Field) /\ results \in Seq({survives(f) : f \in Field})
  /\ \A i \in 1 .. Len(results) : results[i] = survives(fieldsWritten[i])
  /\ \E flat \in [0 .. Len(fieldsWritten) -> Bytes] :
       IsFlat(flat, Pieces(fieldsWritten), Len(fieldsWritten)) /\ ReadFrom(flat)

LEMMA FieldsEncoded ==
  /\ \A f \in Field : IsField(f) /\ encoded(f) \in Bytes
  /\ \A fields \in Seq(Field) :
       /\ Len(fields) \in Nat /\ Pieces(fields) \in [1 .. Len(fields) -> Bytes]
       /\ \A i \in 1 .. Len(fields) : Pieces(fields)[i] = encoded(fields[i])
<1>1. \A f \in Field : IsField(f) /\ encoded(f) \in Bytes
  <2>1. \A f \in Field : IsField(f)
    BY BufferAssumption DEF IsField
  <2> QED
    BY <2>1, FieldReads
<1>2. ASSUME NEW fields \in Seq(Field)
      PROVE  /\ Len(fields) \in Nat /\ Pieces(fields) \in [1 .. Len(fields) -> Bytes]
             /\ \A i \in 1 .. Len(fields) : Pieces(fields)[i] = encoded(fields[i])
  <2>1. Len(fields) \in Nat /\ \A i \in 1 .. Len(fields) : fields[i] \in Field
    BY ElementOfSeq, LenProperties
  <2> QED
    BY <1>1, <2>1 DEF Pieces
<1> QED
  BY <1>1, <1>2

LEMMA BufferInvInit == InitBuffer => BufferInv
<1> SUFFICES ASSUME InitBuffer
             PROVE  BufferInv
  OBVIOUS
<1> DEFINE S == {survives(f) : f \in Field}
           flat == [i \in 0 .. 0 |-> <<>>]
<1>1. /\ fieldsWritten = <<>> /\ results = <<>> /\ m_data = <<>> /\ m_pos = 0
      /\ isCut = FALSE /\ bufferStage = "writing"
  BY DEF InitBuffer
<1>2. <<>> \in Seq(S) /\ <<>> \in Seq(Field) /\ Len(<<>>) = 0 /\ <<>> \in Bytes
  BY EmptySeq DEF Bytes
<1>3. flat \in [0 .. 0 -> Bytes] /\ flat[0] = <<>>
  BY <1>2
<1> HIDE DEF S, flat
<1>4. IsFlat(flat, Pieces(<<>>), 0)
  BY <1>3 DEF IsFlat
<1>5. ReadFrom(flat)
  BY <1>1, <1>2, <1>3 DEF ReadFrom
<1>6. \E g \in [0 .. Len(fieldsWritten) -> Bytes] :
        IsFlat(g, Pieces(fieldsWritten), Len(fieldsWritten)) /\ ReadFrom(g)
  BY <1>1, <1>2, <1>3, <1>4, <1>5
<1>7. \A i \in 1 .. Len(results) : results[i] = survives(fieldsWritten[i])
  BY <1>1, <1>2
<1> QED
  BY <1>1, <1>2, <1>6, <1>7 DEF BufferInv, S

LEMMA WriteKeepsBufferInv ==
  ASSUME BufferInv, NEW f \in Field, Write(f)
  PROVE  BufferInv'
<1> DEFINE w == fieldsWritten
           u == fieldsWritten'
           n == Len(fieldsWritten)
           b == encoded(f)
<1>1. PICK flat \in [0 .. n -> Bytes] : IsFlat(flat, Pieces(w), n) /\ ReadFrom(flat)
  BY DEF BufferInv
<1>2. w \in Seq(Field) /\ n \in Nat /\ b \in Bytes
  BY FieldsEncoded DEF BufferInv
<1>3. /\ u \in Seq(Field) /\ Len(u) = n + 1 /\ u[n + 1] = f
      /\ \A i \in 1 .. n : u[i] = w[i]
  <2>1. u = Append(w, f)
    BY DEF Write
  <2> QED
    BY <1>2, <2>1, AppendProperties
<1>4. /\ bufferStage = "writing" /\ m_data' = m_data \o b
      /\ UNCHANGED <<m_pos, m_valid, isCut, results, bufferStage>>
  BY DEF Write
<1>5. /\ Len(results) = 0 /\ m_pos = 0 /\ ~isCut /\ m_data = flat[n]
  BY <1>1, <1>4 DEF ReadFrom
<1>6. /\ \A i \in 1 .. n : Pieces(u)[i] = Pieces(w)[i]
      /\ Pieces(u)[n + 1] = b
  <2>1. \A i \in 1 .. n : i \in 1 .. n + 1
    BY <1>2
  <2>2. \A i \in 1 .. n + 1 : Pieces(u)[i] = encoded(u[i])
    BY <1>3, FieldsEncoded
  <2>3. \A i \in 1 .. n : Pieces(w)[i] = encoded(w[i])
    BY <1>2, FieldsEncoded
  <2>4. n + 1 \in 1 .. n + 1
    BY <1>2
  <2> HIDE DEF u, w, n
  <2> QED
    BY <1>3, <2>1, <2>2, <2>3, <2>4
<1>7. /\ flat[0] = <<>> /\ \A i \in 1 .. n : flat[i] = flat[i - 1] \o Pieces(w)[i]
      /\ \A i \in 0 .. n : flat[i] \in Bytes
  BY <1>1 DEF IsFlat
<1> HIDE DEF n, b, w, u
<1>0. PICK g : g = [i \in 0 .. n + 1 |-> IF i <= n THEN flat[i] ELSE flat[n] \o b]
  OBVIOUS
<1>8. flat[n] \o b \in Bytes
  <2>1. flat[n] \in Bytes
    BY <1>2, <1>7
  <2> QED
    BY <1>2, <2>1, Joined
<1>9. /\ g \in [0 .. n + 1 -> Bytes] /\ g[n + 1] = flat[n] \o b
      /\ \A i \in 0 .. n : g[i] = flat[i]
  <2>1. \A i \in 0 .. n + 1 : g[i] \in Bytes
    <3>1. \A i \in 0 .. n + 1 : i <= n => i \in 0 .. n
      BY <1>2
    <3> QED
      BY <1>0, <1>7, <1>8, <3>1
  <2>2. \A i \in 0 .. n : g[i] = flat[i]
    BY <1>0, <1>2
  <2>3. g[n + 1] = flat[n] \o b
    BY <1>0, <1>2
  <2>4. g = [i \in 0 .. n + 1 |-> g[i]]
    BY <1>0
  <2> QED
    BY <2>1, <2>2, <2>3, <2>4
<1>10. IsFlat(g, Pieces(u), n + 1)
  <2>1. ASSUME NEW i \in 1 .. n + 1
        PROVE  g[i] = g[i - 1] \o Pieces(u)[i]
    <3>1. CASE i = n + 1
      <4>1. i - 1 = n /\ n \in 0 .. n
        BY <1>2, <3>1
      <4> QED
        BY <1>6, <1>9, <3>1, <4>1
    <3>2. CASE i # n + 1
      <4>1. i \in 1 .. n /\ i \in 0 .. n /\ i - 1 \in 0 .. n
        BY <1>2, <3>2
      <4> QED
        BY <1>6, <1>7, <1>9, <4>1
    <3> QED
      BY <3>1, <3>2
  <2>2. g[0] = <<>>
    BY <1>2, <1>7, <1>9
  <2> QED
    BY <2>1, <2>2 DEF IsFlat
<1>11. m_data' = g[n + 1] /\ m_data' \in Bytes
  BY <1>4, <1>5, <1>8, <1>9
<1>12. ReadFrom(g)'
  <2>1. Len(u) = n + 1 /\ 0 <= n + 1
    BY <1>2, <1>3
  <2> QED
    BY <1>4, <1>5, <1>11, <2>1 DEF ReadFrom, u
<1>13. \A i \in 1 .. Len(results') : results'[i] = survives(u[i])
  BY <1>4, <1>5
<1>14. results' \in Seq({survives(e) : e \in Field})
  BY <1>4 DEF BufferInv
<1> QED
  BY <1>3, <1>9, <1>10, <1>12, <1>13, <1>14 DEF BufferInv, u

LEMMA DeliverKeepsBufferInv ==
  ASSUME BufferInv, NEW c \in 0 .. Len(m_data), Deliver(c)
  PROVE  BufferInv'
<1> DEFINE n == Len(fieldsWritten)
           e == m_data'
<1>1. PICK flat \in [0 .. n -> Bytes] :
        IsFlat(flat, Pieces(fieldsWritten), n) /\ ReadFrom(flat)
  BY DEF BufferInv
<1>2. /\ bufferStage = "writing" /\ bufferStage' = "reading" /\ e = SubSeq(m_data, 1, c)
      /\ isCut' = (c < Len(m_data))
      /\ UNCHANGED <<fieldsWritten, m_pos, m_valid, results>>
  BY DEF Deliver
<1>3. /\ Len(results) = 0 /\ m_pos = 0 /\ m_data = flat[n] /\ m_data \in Bytes /\ 0 <= n
  BY <1>1, <1>2 DEF ReadFrom
<1>4. Len(m_data) \in Nat /\ c \in Nat /\ c <= Len(m_data)
  BY <1>3, LenProperties DEF Bytes
<1>5. e \in Bytes /\ Len(e) = c /\ \A i \in 1 .. c : e[i] = m_data[i]
  <2>1. \A i \in 1 .. c : m_data[i] \in 0 .. Base - 1
    <3>1. \A i \in 1 .. c : i \in 1 .. Len(m_data)
      BY <1>4
    <3> QED
      BY <1>3, <3>1, ElementOfSeq DEF Bytes
  <2>2. /\ SubSeq(m_data, 1, c) \in Seq(0 .. Base - 1)
        /\ Len(SubSeq(m_data, 1, c)) = IF 1 <= c THEN c - 1 + 1 ELSE 0
        /\ \A i \in 1 .. c - 1 + 1 : SubSeq(m_data, 1, c)[i] = m_data[1 + i - 1]
    <3>1. 1 \in Int /\ c \in Int
      BY <1>4
    <3> QED
      BY <2>1, <3>1, SubSeqProperties
  <2>3. (IF 1 <= c THEN c - 1 + 1 ELSE 0) = c /\ c - 1 + 1 = c
        /\ \A i \in 1 .. c : 1 + i - 1 = i
    BY <1>4
  <2> QED
    BY <1>2, <2>2, <2>3 DEF Bytes
<1>6. flat[0] = <<>> /\ Len(flat[0]) = 0
  BY <1>1, EmptySeq DEF IsFlat
<1> HIDE DEF n, e
<1>7. /\ Len(e) <= Len(flat[n]) /\ (isCut' <=> Len(e) < Len(flat[n]))
      /\ \A i \in 0 + 1 .. Len(e) : e[i] = flat[n][i]
  <2>1. 0 + 1 = 1
    OBVIOUS
  <2>2. \A i \in 1 .. Len(e) : e[i] = flat[n][i]
    BY <1>3, <1>5
  <2>3. Len(e) <= Len(flat[n])
    BY <1>3, <1>4, <1>5
  <2>4. isCut' <=> Len(e) < Len(flat[n])
    BY <1>2, <1>3, <1>5
  <2> QED
    BY <2>1, <2>2, <2>3, <2>4
<1>8. ReadFrom(flat)'
  <2>1. Len(results') = 0 /\ m_pos' = 0 /\ Len(fieldsWritten') = n
    BY <1>2, <1>3 DEF n
  <2>2. m_pos' = Len(flat[0]) /\ m_pos' <= Len(e) /\ Len(e) = c
    BY <1>4, <1>5, <1>6, <2>1
  <2> QED
    BY <1>2, <1>3, <1>5, <1>6, <1>7, <2>1, <2>2 DEF ReadFrom, e
<1> QED
  BY <1>1, <1>2, <1>8 DEF BufferInv, n

LEMMA ReadKeepsBufferInv ==
  ASSUME BufferInv, Read
  PROVE  BufferInv'
<1> DEFINE w == fieldsWritten
           n == Len(fieldsWritten)
           k == Len(results)
           f == w[k + 1]
           b == encoded(f)
           r == decoded(Reader(m_data, m_pos), f.kind)
<1>1. PICK flat \in [0 .. n -> Bytes] : IsFlat(flat, Pieces(w), n) /\ ReadFrom(flat)
  BY DEF BufferInv
<1>2. /\ bufferStage = "reading" /\ k < n /\ m_data' = r.data /\ m_pos' = r.pos
      /\ results' = IF r.ok THEN Append(results, r.value) ELSE results
      /\ bufferStage' = IF r.ok THEN "reading" ELSE "failed"
      /\ fieldsWritten' = w /\ isCut' = isCut
  BY DEF Read
<1>3. /\ w \in Seq(Field) /\ n \in Nat /\ k \in Nat /\ k + 1 \in 1 .. n /\ (k + 1) - 1 = k
      /\ k \in 0 .. n /\ k + 1 \in 0 .. n /\ n \in 0 .. n
  <2>1. w \in Seq(Field) /\ n \in Nat /\ k \in Nat
    BY LenProperties DEF BufferInv
  <2> HIDE DEF n, k
  <2> QED
    BY <1>2, <2>1
<1>4. f \in Field /\ IsField(f) /\ b \in Bytes
  <2>1. f \in Field
    BY <1>3, ElementOfSeq
  <2> QED
    BY <2>1, FieldsEncoded
<1>5. /\ Len(m_data) <= Len(flat[n]) /\ (isCut <=> Len(m_data) < Len(flat[n]))
      /\ m_pos = Len(flat[k]) /\ m_pos <= Len(m_data)
      /\ \A i \in m_pos + 1 .. Len(m_data) : m_data[i] = flat[n][i]
      /\ m_data \in Bytes
  BY <1>1, <1>2 DEF ReadFrom
<1>6. /\ flat[k] \in Bytes /\ flat[k + 1] \in Bytes /\ flat[n] \in Bytes
      /\ Len(flat[k]) \in Nat /\ Len(flat[n]) \in Nat /\ Len(b) \in Nat /\ Len(m_data) \in Nat
      /\ flat[k + 1] = flat[k] \o b
      /\ Len(flat[k + 1]) = Len(flat[k]) + Len(b)
      /\ \A i \in 1 .. Len(b) : flat[k + 1][Len(flat[k]) + i] = b[i]
      /\ Len(flat[k + 1]) <= Len(flat[n])
      /\ \A i \in 1 .. Len(flat[k + 1]) : flat[n][i] = flat[k + 1][i]
  <2>1. flat[k] \in Bytes /\ flat[k + 1] \in Bytes /\ flat[n] \in Bytes
    BY <1>1, <1>3
  <2>2. flat[k + 1] = flat[k] \o b
    <3>1. Pieces(w)[k + 1] = b
      BY <1>3, FieldsEncoded
    <3>2. flat[k + 1] = flat[(k + 1) - 1] \o Pieces(w)[k + 1]
      BY <1>1, <1>3 DEF IsFlat
    <3> QED
      BY <1>3, <3>1, <3>2
  <2>3. Pieces(w) \in [1 .. n -> Bytes]
    BY <1>3, FieldsEncoded
  <2> HIDE DEF n, k, b, w
  <2>4. /\ Len(flat[k + 1]) = Len(flat[k]) + Len(b)
        /\ \A i \in 1 .. Len(b) : flat[k + 1][Len(flat[k]) + i] = b[i]
    BY <1>4, <2>1, <2>2, Joined
  <2>5. /\ Len(flat[k + 1]) <= Len(flat[n])
        /\ \A i \in 1 .. Len(flat[k + 1]) : flat[n][i] = flat[k + 1][i]
    BY <1>1, <1>3, <2>3, FlatGrows
  <2>6. /\ Len(flat[k]) \in Nat /\ Len(flat[n]) \in Nat /\ Len(b) \in Nat
        /\ Len(m_data) \in Nat
    BY <1>4, <1>5, <2>1, LenProperties DEF Bytes
  <2> QED
    BY <2>1, <2>2, <2>4, <2>5, <2>6
<1> HIDE DEF w, n, k, f, b, r
<1>7. Holds(m_data, m_pos, b)
  <2> SUFFICES ASSUME NEW i \in 1 .. Len(b), m_pos + i <= Len(m_data)
               PROVE  m_data[m_pos + i] = b[i]
    BY DEF Holds
  <2>1. m_pos + i \in m_pos + 1 .. Len(m_data) /\ m_pos + i \in 1 .. Len(flat[k + 1])
    BY <1>5, <1>6
  <2>2. m_data[m_pos + i] = flat[n][m_pos + i]
    BY <1>5, <2>1
  <2>3. flat[n][m_pos + i] = flat[k + 1][m_pos + i]
    BY <1>6, <2>1
  <2>4. flat[k + 1][m_pos + i] = b[i]
    BY <1>5, <1>6
  <2> QED
    BY <2>2, <2>3, <2>4
<1>8. Reads(r, m_data, m_pos, Len(b), survives(f))
  <2>1. m_pos \in Nat
    BY <1>5, <1>6
  <2>2. Reader(m_data, m_pos) = At(m_data, m_pos, Nullopt)
    BY DEF Reader, At
  <2>3. Holds(m_data, m_pos, encoded(f))
    BY <1>7 DEF b
  <2>4. Reads(decoded(At(m_data, m_pos, Nullopt), f.kind), m_data, m_pos, Len(encoded(f)),
              survives(f))
    BY <1>4, <1>5, <2>1, <2>3, FieldReads
  <2> QED
    BY <2>2, <2>4 DEF r, b
<1>9. results \in Seq({survives(e) : e \in Field})
      /\ \A i \in 1 .. k : results[i] = survives(w[i])
  BY DEF BufferInv, k, w
<1>10. CASE m_pos + Len(b) <= Len(m_data)
  <2>1. PICK e \in Bytes :
          /\ r = At(e, m_pos + Len(b), survives(f)) /\ Len(e) = Len(m_data)
          /\ \A i \in m_pos + Len(b) + 1 .. Len(m_data) : e[i] = m_data[i]
    BY <1>8, <1>10 DEF Reads, Reached
  <2>2. r.ok /\ r.data = e /\ r.pos = m_pos + Len(b) /\ r.value = survives(f)
    BY <2>1 DEF At
  <2>3. /\ results' = Append(results, survives(f)) /\ m_data' = e
        /\ m_pos' = Len(flat[k + 1]) /\ bufferStage' = "reading"
    BY <1>2, <1>5, <1>6, <2>2
  <2>4. /\ results' \in Seq({survives(g) : g \in Field}) /\ Len(results') = k + 1
        /\ \A i \in 1 .. k + 1 : results'[i] = survives(w[i])
    <3> DEFINE S == {survives(g) : g \in Field}
    <3>1. survives(f) \in S
      BY <1>4
    <3>2. results \in Seq(S) /\ Len(results) = k
      BY <1>9 DEF k
    <3> HIDE DEF S
    <3>3. /\ results' \in Seq(S) /\ Len(results') = k + 1
          /\ \A i \in 1 .. k : results'[i] = results[i]
          /\ results'[k + 1] = survives(f)
      BY <2>3, <3>1, <3>2, AppendProperties
    <3>4. \A i \in 1 .. k + 1 : i \in 1 .. k \/ i = k + 1
      BY <1>3
    <3>5. \A i \in 1 .. k + 1 : results'[i] = survives(w[i])
      BY <1>9, <3>3, <3>4 DEF f
    <3> QED
      BY <3>3, <3>5 DEF S
  <2>5. \A i \in m_pos + Len(b) + 1 .. Len(m_data) : e[i] = flat[n][i]
    <3>1. \A i \in m_pos + Len(b) + 1 .. Len(m_data) : i \in m_pos + 1 .. Len(m_data)
      BY <1>5, <1>6
    <3> QED
      BY <1>5, <2>1, <3>1
  <2>6. /\ Len(e) <= Len(flat[n]) /\ (isCut' <=> Len(e) < Len(flat[n]))
        /\ m_pos' = m_pos + Len(b) /\ m_pos' <= Len(e)
        /\ \A i \in m_pos' + 1 .. Len(e) : e[i] = flat[n][i]
    <3>1. m_pos' = m_pos + Len(b)
      BY <1>5, <1>6, <2>3
    <3>2. isCut' <=> Len(e) < Len(flat[n])
      BY <1>2, <1>5, <2>1
    <3>3. Len(e) <= Len(flat[n]) /\ m_pos' <= Len(e)
      BY <1>5, <1>10, <2>1, <3>1
    <3>4. \A i \in m_pos' + 1 .. Len(e) : e[i] = flat[n][i]
      BY <2>1, <2>5, <3>1
    <3> QED
      BY <3>1, <3>2, <3>3, <3>4
  <2>7. ReadFrom(flat)'
    <3>1. Len(fieldsWritten') = n /\ k + 1 <= n
      BY <1>2, <1>3 DEF n, w
    <3> QED
      BY <2>1, <2>3, <2>4, <2>6, <3>1 DEF ReadFrom
  <2>8. \A i \in 1 .. Len(results') : results'[i] = survives(fieldsWritten'[i])
    BY <1>2, <2>4
  <2>9. /\ fieldsWritten' \in Seq(Field)
        /\ flat \in [0 .. Len(fieldsWritten') -> Bytes]
        /\ IsFlat(flat, Pieces(fieldsWritten'), Len(fieldsWritten'))
    BY <1>1, <1>2, <1>3 DEF n, w
  <2> QED
    BY <2>4, <2>7, <2>8, <2>9 DEF BufferInv
<1>11. CASE ~(m_pos + Len(b) <= Len(m_data))
  <2>1. PICK e \in Bytes, p \in Nat : \E v : r = Lost(e, p, v) /\ Len(e) = Len(m_data)
    BY <1>8, <1>11 DEF Reads, Ended
  <2>2. ~r.ok /\ r.data = e
    BY <2>1 DEF Lost
  <2>3. results' = results /\ m_data' = e /\ bufferStage' = "failed" /\ Len(e) = Len(m_data)
    BY <1>2, <2>1, <2>2
  <2>4. Len(e) < Len(flat[k + 1]) /\ isCut
    <3>1. Len(m_data) < Len(flat[k + 1])
      BY <1>5, <1>6, <1>11
    <3>2. Len(m_data) < Len(flat[n])
      BY <1>6, <3>1
    <3> QED
      BY <1>5, <2>3, <3>1, <3>2
  <2>5. ReadFrom(flat)'
    <3>1. fieldsWritten' = fieldsWritten /\ results' = results
      BY <1>2, <2>3 DEF w
    <3>2. Len(fieldsWritten') = n /\ Len(results') = k
      BY <3>1 DEF n, k
    <3>3. k < n /\ k <= n
      BY <1>2, <1>3
    <3>4. isCut' /\ m_data' \in Bytes /\ Len(m_data') < Len(flat[k + 1])
      BY <1>2, <2>3, <2>4
    <3> QED
      BY <2>3, <3>2, <3>3, <3>4 DEF ReadFrom
  <2>6. \A i \in 1 .. Len(results') : results'[i] = survives(fieldsWritten'[i])
    BY <1>2, <1>9, <2>3 DEF k
  <2>7. /\ fieldsWritten' \in Seq(Field)
        /\ results' \in Seq({survives(e1) : e1 \in Field})
        /\ flat \in [0 .. Len(fieldsWritten') -> Bytes]
        /\ IsFlat(flat, Pieces(fieldsWritten'), Len(fieldsWritten'))
    BY <1>1, <1>2, <1>3, <1>9, <2>3 DEF n, w
  <2> QED
    BY <2>5, <2>6, <2>7 DEF BufferInv
<1> QED
  BY <1>10, <1>11

LEMMA BufferInvSays == BufferInv => WrittenIsRead
<1> SUFFICES ASSUME BufferInv
             PROVE  WrittenIsRead
  OBVIOUS
<1> DEFINE w == fieldsWritten
           n == Len(fieldsWritten)
           k == Len(results)
           end == [i \in 1 .. k + 1 |-> encoded(w[i])]
<1>1. PICK flat \in [0 .. n -> Bytes] : IsFlat(flat, Pieces(w), n) /\ ReadFrom(flat)
  BY DEF BufferInv
<1>2. /\ w \in Seq(Field) /\ n \in Nat /\ k \in Nat /\ DOMAIN results = 1 .. k
      /\ \A i \in 1 .. n : w[i] \in Field
  BY ElementOfSeq, LenProperties DEF BufferInv
<1>3. \A i \in DOMAIN results : results[i] = survives(w[i])
  BY <1>2 DEF BufferInv
<1>4. ASSUME bufferStage = "failed"
      PROVE  isCut /\ Len(m_data) < Len(FlattenSeq(end))
  <2>1. isCut /\ k < n /\ Len(m_data) < Len(flat[k + 1])
    BY <1>1, <1>4 DEF ReadFrom
  <2> DEFINE g == [i \in 0 .. k + 1 |-> flat[i]]
  <2>2. /\ \A i \in 1 .. k + 1 : i \in 1 .. n /\ i - 1 \in 0 .. k + 1 /\ i \in 0 .. k + 1
        /\ \A i \in 0 .. k + 1 : i \in 0 .. n
        /\ k + 1 \in Nat /\ k + 1 \in 0 .. k + 1 /\ 0 \in 0 .. k + 1
    <3> HIDE DEF k, n
    <3> QED
      BY <1>2, <2>1
  <2> HIDE DEF k, n
  <2>3. end \in [1 .. k + 1 -> Bytes] /\ \A i \in 1 .. k + 1 : end[i] = Pieces(w)[i]
    <3>1. \A i \in 1 .. k + 1 : encoded(w[i]) \in Bytes
      BY <1>2, <2>2, FieldsEncoded
    <3>2. \A i \in 1 .. n : Pieces(w)[i] = encoded(w[i])
      BY <1>2, FieldsEncoded DEF n
    <3> HIDE DEF w
    <3> QED
      BY <2>2, <3>1, <3>2
  <2>4. g \in [0 .. k + 1 -> Bytes] /\ \A i \in 0 .. k + 1 : g[i] = flat[i]
    BY <1>1, <2>2
  <2> HIDE DEF end, g
  <2>5. IsFlat(g, end, k + 1)
    <3>1. flat[0] = <<>> /\ \A i \in 1 .. n : flat[i] = flat[i - 1] \o Pieces(w)[i]
      BY <1>1 DEF IsFlat
    <3>2. ASSUME NEW i \in 1 .. k + 1
          PROVE  g[i] = g[i - 1] \o end[i]
      <4>1. g[i] = flat[i] /\ g[i - 1] = flat[i - 1] /\ end[i] = Pieces(w)[i] /\ i \in 1 .. n
        BY <2>2, <2>3, <2>4
      <4> QED
        BY <3>1, <4>1
    <3>3. g[0] = <<>>
      BY <2>2, <2>4, <3>1
    <3> QED
      BY <3>2, <3>3 DEF IsFlat
  <2>6. FlattenSeq(end) = g[k + 1]
    <3> DEFINE m == k + 1
               S == 0 .. Base - 1
    <3>1. /\ m \in Nat /\ end \in [1 .. m -> Seq(S)] /\ g \in [0 .. m -> Seq(S)]
          /\ IsFlat(g, end, m)
      BY <2>2, <2>3, <2>4, <2>5 DEF Bytes
    <3> HIDE DEF m, S
    <3>2. FlattenSeq(end) = g[m]
      BY <3>1, FlattenIs
    <3> QED
      BY <3>2 DEF m
  <2> QED
    BY <2>1, <2>2, <2>4, <2>6
<1>5. ASSUME bufferStage = "reading", k = n
      PROVE  m_pos = Len(m_data) /\ ~isCut
  <2>1. /\ Len(m_data) <= Len(flat[n]) /\ (isCut <=> Len(m_data) < Len(flat[n]))
        /\ m_pos = Len(flat[n]) /\ m_pos <= Len(m_data) /\ m_data \in Bytes
    BY <1>1, <1>5 DEF ReadFrom
  <2>2. Len(m_data) \in Nat /\ m_pos \in Nat
    <3>1. n \in 0 .. n
      BY <1>2
    <3>2. flat[n] \in Bytes
      BY <1>1, <3>1
    <3> QED
      BY <2>1, <3>2, LenProperties DEF Bytes
  <2> QED
    BY <2>1, <2>2
<1> QED
  BY <1>3, <1>4, <1>5 DEF WrittenIsRead

\* What was written is what is read, for fields of any values and buffers of
\* any length, and it is short only of what the bytes were cut before.
THEOREM ReadIsAsWritten == SpecBuffer => []WrittenIsRead
<1>1. BufferInv /\ [NextBuffer]_bufferVars => BufferInv'
  <2> SUFFICES ASSUME BufferInv, [NextBuffer]_bufferVars
               PROVE  BufferInv'
    OBVIOUS
  <2>1. ASSUME NEW f \in Field, Write(f)
        PROVE  BufferInv'
    BY <2>1, WriteKeepsBufferInv
  <2>2. ASSUME NEW c \in 0 .. Len(m_data), Deliver(c)
        PROVE  BufferInv'
    BY <2>2, DeliverKeepsBufferInv
  <2>3. CASE Read
    BY <2>3, ReadKeepsBufferInv
  <2>4. CASE UNCHANGED bufferVars
    BY <2>4 DEF bufferVars, BufferInv, ReadFrom
  <2> QED
    BY <2>1, <2>2, <2>3, <2>4 DEF NextBuffer
<1> QED
  BY <1>1, BufferInvInit, BufferInvSays, PTL DEF SpecBuffer
=============================================================================
