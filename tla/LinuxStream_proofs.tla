------------------------- MODULE LinuxStream_proofs -------------------------
(***************************************************************************)
(* LinuxStream implements PackageChannel for every set of payloads, every  *)
(* size of the ring and of the kernel's buffer and whatever pieces the     *)
(* bytes are taken and arrive in, as long as every length fits the length  *)
(* field.                                                                  *)
(***************************************************************************)
EXTENDS LinuxStream, PackageStream_proofs

\* The packages in the bytes not pulled yet, and all packages the reader was
\* given or will be.
InFlight == Frames(m_buf \o wire)
All == pulled \o InFlight

\* No end is gone, and no write was short.
Intact == Up /\ whole = Len(pushed)

\* Behind the first short write anything may be cut out of the bytes, but only
\* behind the packages that were taken whole.
StreamInv ==
  /\ Typed
  /\ whole \in 0 .. Len(pushed)
  /\ \A i \in 1 .. whole : i <= Len(All) => All[i] = pushed[i]
  /\ Up => whole <= Len(All)
  /\ Intact => Exact(m_buf \o wire) /\ Len(All) = whole

-----------------------------------------------------------------------------
(* The first packages of a sequence *)

LEMMA FirstProperties ==
  ASSUME NEW s \in Seq(Cut), NEW n \in Int
  PROVE  /\ First(s, n) \in Seq(Cut)
         /\ Len(First(s, n)) = IF n <= 0 THEN 0 ELSE IF n <= Len(s) THEN n ELSE Len(s)
         /\ \A i \in 1 .. Len(First(s, n)) : First(s, n)[i] = s[i]
<1> DEFINE m == IF n <= Len(s) THEN n ELSE Len(s)
<1>1. Len(s) \in Nat
  BY LenProperties
<1>2. CASE n <= 0
  <2>1. m = n
    BY <1>1, <1>2
  <2>2. SubSeq(s, 1, n) = <<>>
    BY <1>2, SubSeqEmpty
  <2> QED
    BY <1>2, <2>1, <2>2 DEF First
<1>3. CASE n > 0
  <2>1. m \in 1 .. Len(s) \/ (m = 0 /\ Len(s) = 0)
    BY <1>1, <1>3
  <2> HIDE DEF m
  <2>2. CASE m \in 1 .. Len(s)
    <3>1. /\ SubSeq(s, 1, m) \in Seq(Cut) /\ Len(SubSeq(s, 1, m)) = m
          /\ \A i \in 1 .. m : SubSeq(s, 1, m)[i] = s[i]
      BY <1>1, <2>2
    <3> QED
      BY <1>1, <1>3, <3>1 DEF First, m
  <2>3. CASE m = 0 /\ Len(s) = 0
    <3>1. SubSeq(s, 1, m) = <<>>
      BY <2>3, SubSeqEmpty
    <3> QED
      BY <1>3, <2>3, <3>1 DEF First, m
  <2> QED
    BY <2>1, <2>2, <2>3
<1> QED
  BY <1>2, <1>3

LEMMA FirstAll ==
  ASSUME NEW s \in Seq(Cut), NEW n \in Int, Len(s) <= n
  PROVE  First(s, n) = s
<1>1. Len(s) \in Nat
  BY LenProperties
<1>2. SubSeq(s, 1, Len(s)) = s
  BY SubSeqFull
<1>3. (IF n <= Len(s) THEN n ELSE Len(s)) = Len(s)
  BY <1>1
<1> QED
  BY <1>2, <1>3 DEF First

\* What is behind the first n does not matter, and a loss behind them is a loss
\* of the youngest.
LEMMA FirstOfFront ==
  ASSUME NEW t \in Seq(Cut), NEW m \in 0 .. Len(t), NEW n \in Int
  PROVE  /\ SubSeq(t, 1, m) \in Seq(Cut) /\ Len(SubSeq(t, 1, m)) = m
         /\ \A i \in 1 .. m : SubSeq(t, 1, m)[i] = t[i]
         /\ n <= m => First(SubSeq(t, 1, m), n) = First(t, n)
         /\ \E k \in 0 .. Len(First(t, n)) : First(SubSeq(t, 1, m), n) = SubSeq(First(t, n), 1, k)
<1> DEFINE s == SubSeq(t, 1, m)
           a == First(s, n)
           b == First(t, n)
           k == Len(a)
<1>1. s \in Seq(Cut) /\ Len(s) = m /\ (\A i \in 1 .. m : s[i] = t[i])
      /\ m \in Nat /\ Len(t) \in Nat /\ m <= Len(t)
  BY LenProperties
<1> HIDE DEF s
<1>2. /\ a \in Seq(Cut) /\ k = IF n <= 0 THEN 0 ELSE IF n <= m THEN n ELSE m
      /\ \A i \in 1 .. k : a[i] = s[i]
  BY <1>1, FirstProperties
<1>3. /\ b \in Seq(Cut) /\ Len(b) = IF n <= 0 THEN 0 ELSE IF n <= Len(t) THEN n ELSE Len(t)
      /\ \A i \in 1 .. Len(b) : b[i] = t[i]
  BY FirstProperties
<1> HIDE DEF a, b
<1>4. k \in 0 .. Len(b) /\ k <= m /\ (n <= m => k = Len(b))
  BY <1>1, <1>2, <1>3
<1>5. /\ SubSeq(b, 1, k) \in Seq(Cut) /\ Len(SubSeq(b, 1, k)) = k
      /\ \A i \in 1 .. k : SubSeq(b, 1, k)[i] = b[i]
  BY <1>3, <1>4, LenProperties
<1> HIDE DEF k
<1>6. \A i \in 1 .. k : a[i] = SubSeq(b, 1, k)[i]
  BY <1>1, <1>2, <1>3, <1>4, <1>5
<1>7. a = SubSeq(b, 1, k)
  BY <1>2, <1>5, <1>6, SeqEqual DEF k
<1>8. n <= m => a = b
  BY <1>3, <1>4, <1>7, SubSeqFull
<1> QED
  BY <1>1, <1>4, <1>7, <1>8 DEF s, a, b

LEMMA HeadTail ==
  ASSUME NEW q \in Seq(Cut), q # <<>>
  PROVE  /\ Head(q) \in Cut /\ Tail(q) \in Seq(Cut) /\ Len(q) \in Nat /\ Len(q) > 0
         /\ Len(Tail(q)) = Len(q) - 1 /\ Head(q) = q[1]
         /\ \A i \in 1 .. Len(q) - 1 : Tail(q)[i] = q[i + 1]
  BY HeadTailProperties, LenProperties, EmptySeq

\* Moving the oldest package over moves the oldest of the first n.
LEMMA FirstMoves ==
  ASSUME NEW r \in Seq(Cut), NEW q \in Seq(Cut), q # <<>>, NEW n \in Nat
  PROVE  /\ First(Append(r, Head(q)), n) =
              IF Len(r) < n THEN Append(First(r, n), Head(First(q, n - Len(r))))
                            ELSE First(r, n)
         /\ First(Tail(q), n - Len(Append(r, Head(q)))) =
              IF Len(r) < n THEN Tail(First(q, n - Len(r))) ELSE First(q, n - Len(r))
         /\ Len(r) < n => First(q, n - Len(r)) # <<>>
<1> DEFINE h == Head(q)
           t == Tail(q)
           w == Append(r, h)
           z == Len(r)
           m == Len(q)
           a == First(q, n - z)
           b == First(t, n - (z + 1))
<1>1. /\ h \in Cut /\ t \in Seq(Cut) /\ m \in Nat /\ m > 0 /\ Len(t) = m - 1 /\ h = q[1]
      /\ \A i \in 1 .. m - 1 : t[i] = q[i + 1]
  BY HeadTail
<1>2. z \in Nat
  BY LenProperties
<1> HIDE DEF h, t
<1>3. /\ w \in Seq(Cut) /\ Len(w) = z + 1 /\ w[z + 1] = h
      /\ \A i \in 1 .. z : w[i] = r[i]
  BY <1>1, AppendProperties
<1> HIDE DEF w
<1>4. /\ a \in Seq(Cut)
      /\ Len(a) = IF n - z <= 0 THEN 0 ELSE IF n - z <= m THEN n - z ELSE m
      /\ \A i \in 1 .. Len(a) : a[i] = q[i]
  BY <1>2, FirstProperties
<1>5. /\ b \in Seq(Cut)
      /\ Len(b) = IF n - (z + 1) <= 0 THEN 0 ELSE IF n - (z + 1) <= m - 1 THEN n - (z + 1) ELSE m - 1
      /\ \A i \in 1 .. Len(b) : b[i] = t[i]
  BY <1>1, <1>2, FirstProperties
<1>6. Len(r) = z /\ Len(q) = m
  OBVIOUS
<1> HIDE DEF a, b, z, m
<1>7. CASE z < n
  <2>1. First(w, n) = w /\ First(r, n) = r
    BY <1>2, <1>3, <1>6, <1>7, FirstAll
  <2>2. Len(a) \in Nat /\ Len(a) > 0 /\ Len(a) <= m /\ Len(b) = Len(a) - 1
    BY <1>1, <1>2, <1>4, <1>5, <1>7
  <2>3. a # <<>>
    BY <1>4, <2>2, EmptySeq
  <2>4. /\ Head(a) = a[1] /\ Tail(a) \in Seq(Cut) /\ Len(Tail(a)) = Len(a) - 1
        /\ \A i \in 1 .. Len(a) - 1 : Tail(a)[i] = a[i + 1]
    BY <1>4, <2>3, HeadTail
  <2>5. Head(a) = h
    <3>1. 1 \in 1 .. Len(a)
      BY <2>2
    <3>2. a[1] = q[1]
      BY <1>4, <3>1
    <3> QED
      BY <1>1, <2>4, <3>2
  <2>6. \A i \in 1 .. Len(b) : b[i] = Tail(a)[i]
    <3> SUFFICES ASSUME NEW i \in 1 .. Len(b)
                 PROVE  b[i] = Tail(a)[i]
      OBVIOUS
    <3>1. i \in 1 .. m - 1 /\ i + 1 \in 1 .. Len(a) /\ i \in 1 .. Len(a) - 1
      BY <1>1, <2>2
    <3> QED
      BY <1>1, <1>4, <1>5, <2>4, <3>1
  <2>7. b = Tail(a)
    BY <1>5, <2>2, <2>4, <2>6, SeqEqual
  <2>8. n - Len(w) = n - (z + 1)
    BY <1>3
  <2> QED
    BY <1>6, <1>7, <2>1, <2>3, <2>5, <2>7, <2>8 DEF a, b, w, h, t
<1>8. CASE ~(z < n)
  <2> DEFINE c == First(w, n)
             d == First(r, n)
  <2>1. /\ c \in Seq(Cut) /\ d \in Seq(Cut) /\ Len(c) = n /\ Len(d) = n
        /\ (\A i \in 1 .. n : c[i] = w[i]) /\ (\A i \in 1 .. n : d[i] = r[i])
    <3>1. n <= z /\ n <= z + 1
      BY <1>2, <1>8
    <3>2. c \in Seq(Cut) /\ Len(c) = n /\ \A i \in 1 .. Len(c) : c[i] = w[i]
      BY <1>3, <3>1, FirstProperties
    <3>3. d \in Seq(Cut) /\ Len(d) = n /\ \A i \in 1 .. Len(d) : d[i] = r[i]
      BY <1>6, <3>1, FirstProperties
    <3> HIDE DEF c, d
    <3> QED
      BY <3>2, <3>3
  <2>2. \A i \in 1 .. n : c[i] = d[i]
    <3>1. \A i \in 1 .. n : i \in 1 .. z
      BY <1>2, <1>8
    <3> QED
      BY <1>3, <2>1, <3>1
  <2> HIDE DEF c, d
  <2>3. c = d
    BY <2>1, <2>2, SeqEqual
  <2>4. Len(a) = 0 /\ Len(b) = 0
    BY <1>1, <1>2, <1>4, <1>5, <1>8
  <2>5. a = <<>> /\ b = <<>>
    BY <1>4, <1>5, <2>4, EmptySeq
  <2>6. n - Len(w) = n - (z + 1)
    BY <1>3
  <2> QED
    BY <1>6, <1>8, <2>3, <2>5, <2>6 DEF a, b, c, d, w, h, t
<1> QED
  BY <1>7, <1>8

-----------------------------------------------------------------------------
(* The state *)

LEMMA AllType ==
  ASSUME Typed
  PROVE  /\ m_buf \o wire \in Seq(Byte)
         /\ InFlight \in Seq(Cut) /\ Len(InFlight) \in Nat
         /\ All \in Seq(Cut) /\ Len(All) = Len(pulled) + Len(InFlight)
         /\ Len(pulled) \in Nat /\ Len(pushed) \in Nat
         /\ \A i \in 1 .. Len(All) :
              All[i] = IF i <= Len(pulled) THEN pulled[i] ELSE InFlight[i - Len(pulled)]
<1>1. m_buf \o wire \in Seq(Byte)
  BY ConcatProperties DEF Typed
<1>2. InFlight \in Seq(Cut) /\ pulled \in Seq(Cut) /\ pushed \in Seq(Cut)
  BY <1>1, FramesUnfold DEF InFlight, Typed
<1>3. /\ All \in Seq(Cut) /\ Len(All) = Len(pulled) + Len(InFlight)
      /\ \A i \in 1 .. Len(pulled) + Len(InFlight) :
           All[i] = IF i <= Len(pulled) THEN pulled[i] ELSE InFlight[i - Len(pulled)]
  BY <1>2, ConcatProperties DEF All
<1> QED
  BY <1>1, <1>2, <1>3, LenProperties

LEMMA LinuxStart ==
  ASSUME Init
  PROVE  StreamInv /\ Channel!Init
<1>1. wire = <<>> /\ m_buf = <<>> /\ pushed = <<>> /\ pulled = <<>> /\ whole = 0
  BY DEF Init, StreamInit
<1>2. Up
  BY DEF Init, Up, Ended
<1>3. Typed
  BY <1>1 DEF Typed
<1>4. m_buf \o wire = <<>> /\ InFlight = <<>> /\ All = <<>>
  BY <1>1, ExactNothing DEF InFlight, All
<1>5. StreamInv
  BY <1>1, <1>3, <1>4, ExactNothing DEF StreamInv
<1>6. First(pulled, whole) = <<>> /\ First(InFlight, whole - Len(pulled)) = <<>>
  <2>1. <<>> \in Seq(Cut) /\ Len(<<>>) = 0
    OBVIOUS
  <2>2. First(<<>>, 0) = <<>>
    <3>1. SubSeq(<<>>, 1, 0) = <<>>
      BY <2>1, SubSeqEmpty
    <3> QED
      BY <2>1, <3>1 DEF First
  <2> QED
    BY <1>1, <1>4, <2>1, <2>2
<1>7. (Up /\ whole = Len(pushed)) = TRUE
  BY <1>1, <1>2 DEF Up
<1> QED
  BY <1>5, <1>6, <1>7 DEF Channel!Init, InFlight

\* What the channel sees when no package is pushed or pulled, some of those in
\* flight may be lost, and it is not intact any more unless nothing changed.
LEMMA ChannelGoesDown ==
  ASSUME Typed, whole \in Nat, whole' = whole, First(pulled', whole) = First(pulled, whole),
         \E n \in 0 .. Len(First(InFlight, whole - Len(pulled))) :
           First(InFlight', whole - Len(pulled')) = SubSeq(First(InFlight, whole - Len(pulled)), 1, n),
         ~Intact'
  PROVE  Channel!GoDown
<1>1. Intact' = FALSE
  BY DEF Intact, Up
<1> QED
  BY <1>1 DEF Channel!GoDown, Intact, InFlight

\* A step that leaves the bytes alone changes nothing or takes the connection down.
LEMMA StreamStays ==
  ASSUME StreamInv, UNCHANGED <<streamVars, whole>>, Up' => Up
  PROVE  StreamInv' /\ (Channel!GoDown \/ UNCHANGED Channel!vars)
<1>1. /\ wire' = wire /\ m_buf' = m_buf /\ pushed' = pushed /\ pulled' = pulled /\ whole' = whole
      /\ InFlight' = InFlight /\ All' = All
  BY DEF streamVars, InFlight, All
<1>2. Typed' /\ Typed /\ (Intact' => Intact)
  BY <1>1 DEF StreamInv, Typed, Intact
<1>3. StreamInv'
  BY <1>1, <1>2 DEF StreamInv
<1>4. CASE Intact'
  <2>1. (Up /\ whole = Len(pushed))' = (Up /\ whole = Len(pushed))
    BY <1>2, <1>4 DEF Intact, Up
  <2> QED
    BY <1>1, <1>3, <2>1 DEF Channel!vars, InFlight
<1>5. CASE ~Intact'
  <2> DEFINE q == First(InFlight, whole - Len(pulled))
  <2>1. whole \in Nat /\ Len(pulled) \in Nat /\ InFlight \in Seq(Cut)
    BY <1>2, AllType DEF StreamInv
  <2>2. q \in Seq(Cut)
    BY <2>1, FirstProperties
  <2> HIDE DEF q
  <2>3. Len(q) \in 0 .. Len(q) /\ SubSeq(q, 1, Len(q)) = q
    BY <2>2, LenProperties, SubSeqFull
  <2> QED
    BY <1>1, <1>2, <1>3, <1>5, <2>1, <2>3, ChannelGoesDown DEF q
<1> QED
  BY <1>4, <1>5

\* A step that drops what the kernel holds takes the connection down.
LEMMA StreamDrops ==
  ASSUME StreamInv, wire' = <<>>, UNCHANGED <<m_buf, pushed, pulled, whole>>, ~Up'
  PROVE  StreamInv' /\ Channel!GoDown
<1>1. Typed /\ m_buf \in Seq(Byte) /\ wire \in Seq(Byte) /\ whole \in Nat
  BY AllType DEF StreamInv, Typed
<1>2. m_buf' \o wire' = m_buf
  BY <1>1, ConcatEmptySeq
<1>3. PICK n \in 0 .. Len(InFlight) : InFlight' = SubSeq(InFlight, 1, n)
  BY <1>1, <1>2, FramesOfPrefix DEF InFlight
<1>4. Typed'
  BY <1>1 DEF Typed
<1>5. /\ InFlight \in Seq(Cut) /\ Len(InFlight) \in Nat /\ Len(pulled) \in Nat
      /\ Len(All) = Len(pulled) + Len(InFlight)
      /\ \A i \in 1 .. Len(All) :
           All[i] = IF i <= Len(pulled) THEN pulled[i] ELSE InFlight[i - Len(pulled)]
  BY <1>1, AllType
<1> DEFINE f == InFlight'
<1>6. f \in Seq(Cut) /\ Len(f) = n /\ \A i \in 1 .. n : f[i] = InFlight[i]
  BY <1>3, <1>5, FirstOfFront
<1>a. All' = pulled \o f /\ pulled \in Seq(Cut)
  BY <1>1 DEF All, Typed
<1> HIDE DEF f
<1>b. /\ Len(All') = Len(pulled) + Len(f)
       /\ \A i \in 1 .. Len(pulled) + Len(f) :
            All'[i] = IF i <= Len(pulled) THEN pulled[i] ELSE f[i - Len(pulled)]
  BY <1>6, <1>a, ConcatProperties
<1>7. \A i \in 1 .. Len(All') : i <= Len(All) /\ All'[i] = All[i]
  <2> DEFINE x == Len(pulled)
             y == Len(InFlight)
  <2>1. /\ x \in Nat /\ y \in Nat /\ n \in 0 .. y
        /\ Len(All) = x + y /\ Len(All') = x + n
        /\ \A i \in 1 .. x + y : All[i] = IF i <= x THEN pulled[i] ELSE InFlight[i - x]
        /\ \A i \in 1 .. x + n : All'[i] = IF i <= x THEN pulled[i] ELSE f[i - x]
    BY <1>3, <1>5, <1>6, <1>b
  <2> HIDE DEF x, y
  <2> SUFFICES ASSUME NEW i \in 1 .. x + n
               PROVE  i <= x + y /\ All'[i] = All[i]
    BY <2>1
  <2>2. i \in 1 .. x + y /\ (i > x => i - x \in 1 .. n)
    BY <2>1
  <2> QED
    BY <1>6, <2>1, <2>2
<1>8. ~Intact' /\ ~Up'
  BY DEF Intact
<1>9. StreamInv'
  <2>1. \A i \in 1 .. whole : i <= Len(All') => All'[i] = pushed[i]
    <3>1. \A i \in 1 .. whole : i <= Len(All) => All[i] = pushed[i]
      BY DEF StreamInv
    <3>2. \A i \in 1 .. whole : i <= Len(All') => i \in 1 .. Len(All')
      BY <1>1, <1>5, <1>6, <1>b
    <3> QED
      BY <1>7, <3>1, <3>2
  <2>2. (whole \in 0 .. Len(pushed))'
    BY DEF StreamInv
  <2> QED
    BY <1>4, <1>8, <2>1, <2>2 DEF StreamInv
<1>10. Channel!GoDown
  <2> DEFINE k == whole - Len(pulled)
  <2>1. k \in Int
    BY <1>1, <1>5
  <2> HIDE DEF k
  <2>2. \E j \in 0 .. Len(First(InFlight, k)) :
          First(InFlight', k) = SubSeq(First(InFlight, k), 1, j)
    BY <1>3, <1>5, <2>1, FirstOfFront
  <2> QED
    BY <1>1, <1>8, <2>2, ChannelGoesDown DEF k
<1> QED
  BY <1>9, <1>10

-----------------------------------------------------------------------------
(* push and pull *)

LEMMA PushKeepsUp ==
  ASSUME NEW p, Push(p)
  PROVE  Up /\ Up' /\ Up = TRUE /\ Up' = TRUE
<1>1. UNCHANGED connVars /\ net = "up" /\ "writer" \in open /\ ~Ended("reader")
  BY DEF Push, mayPush
<1>2. Up /\ Up'
  BY <1>1 DEF Up, Ends, Ended, connVars, setupVars
<1> QED
  BY <1>2 DEF Up

LEMMA LinuxPush ==
  ASSUME LengthsFit, StreamInv, NEW p \in Package, Push(p), Len(Encode(p)) <= Free, Intact
  PROVE  StreamInv' /\ Channel!Send(p)
<1> DEFINE e == Encode(p)
           f == InFlight'
           n == Len(pushed)
<1>1. /\ Up /\ Up' /\ Typed /\ whole = n /\ Exact(m_buf \o wire) /\ Len(All) = n
      /\ push(p, Len(e)) /\ whole' = n + 1
      /\ \A i \in 1 .. n : All[i] = pushed[i]
  <2>1. Up /\ Up' /\ Typed /\ whole = n /\ Exact(m_buf \o wire) /\ Len(All) = whole
    BY PushKeepsUp DEF StreamInv, Intact
  <2>2. push(p, Len(e)) /\ whole' = n + 1
    BY <2>1 DEF Push
  <2>3. \A i \in 1 .. whole : All[i] = pushed[i]
    <3>1. n \in Nat
      BY <2>1, AllType
    <3>2. \A i \in 1 .. whole : i <= Len(All)
      BY <2>1, <3>1
    <3> QED
      BY <3>2 DEF StreamInv
  <2> QED
    BY <2>1, <2>2, <2>3
<1>2. e \in Seq(Byte) /\ p \in Cut
  BY EncodeProperties, PackageType
<1>3. /\ wire' = wire \o e /\ m_buf' = m_buf /\ pulled' = pulled
      /\ pushed' = Append(pushed, p)
  <2>1. SubSeq(e, 1, Len(e)) = e
    BY <1>2, SubSeqFull
  <2> QED
    BY <1>1, <2>1 DEF push
<1>4. (m_buf \o wire)' = (m_buf \o wire) \o e
  <2>1. m_buf \in Seq(Byte) /\ wire \in Seq(Byte) /\ e \in Seq(Byte)
    BY <1>1, <1>2 DEF Typed
  <2> HIDE DEF e
  <2>2. (m_buf \o wire) \o e = m_buf \o (wire \o e)
    BY ONLY <2>1, ConcatAssociative
  <2> QED
    BY <1>3, <2>2
<1>5. Exact((m_buf \o wire)') /\ f = Append(InFlight, p)
  BY <1>1, <1>4, AllType, ExactPush DEF InFlight
<1>6. Typed'
  BY <1>1, <1>2, <1>3, ConcatProperties, AppendProperties DEF Typed
<1>7. /\ InFlight \in Seq(Cut) /\ n \in Nat /\ Len(pulled) \in Nat /\ Len(InFlight) \in Nat
      /\ n = Len(pulled) + Len(InFlight) /\ pulled \in Seq(Cut) /\ pushed \in Seq(Cut)
      /\ All \in Seq(Cut)
  BY <1>1, AllType DEF Typed
<1>8. All' = Append(All, p)
  <2>1. All' = pulled \o Append(InFlight, p)
    BY <1>3, <1>5 DEF All
  <2> QED
    BY <1>2, <1>7, <2>1, AppendBehind DEF All
<1>9. /\ Len(All') = n + 1 /\ Len(pushed') = n + 1
      /\ \A i \in 1 .. n + 1 : All'[i] = pushed'[i]
  <2>1. Len(pushed) = n /\ Len(All) = n /\ \A i \in 1 .. n : All[i] = pushed[i]
    BY <1>1
  <2> HIDE DEF n
  <2>2. Len(Append(All, p)) = n + 1 /\ Len(Append(pushed, p)) = n + 1
    BY <1>2, <1>7, <2>1, AppendProperties
  <2>3. \A i \in 1 .. n + 1 : Append(All, p)[i] = Append(pushed, p)[i]
    BY <1>2, <1>7, <2>1, AppendProperties
  <2> QED
    BY <1>3, <1>8, <2>2, <2>3
<1>10. StreamInv'
  BY <1>1, <1>5, <1>6, <1>7, <1>9 DEF StreamInv
<1>11. Channel!Send(p)
  <2>1. (Up /\ whole = Len(pushed)) = TRUE /\ (Up /\ whole = Len(pushed))' = TRUE
    BY <1>1, <1>9 DEF Up
  <2>2. First(pulled, whole) = pulled /\ First(pulled', whole') = pulled
    BY <1>1, <1>3, <1>7, FirstAll
  <2>3. First(InFlight, whole - Len(pulled)) = InFlight
    BY <1>1, <1>7, FirstAll
  <2>4. First(f, whole' - Len(pulled')) = f
    <3>1. f \in Seq(Cut) /\ Len(f) = Len(InFlight) + 1
      BY <1>2, <1>5, <1>7, AppendProperties
    <3> HIDE DEF f
    <3>2. whole' - Len(pulled') \in Int /\ Len(f) <= whole' - Len(pulled')
      BY <1>1, <1>3, <1>7, <3>1
    <3> QED
      BY <3>1, <3>2, FirstAll
  <2> QED
    BY <1>5, <2>1, <2>2, <2>3, <2>4 DEF Channel!Send, InFlight
<1> QED
  BY <1>10, <1>11

\* A write that the kernel takes in part, and every write behind one.
LEMMA LinuxPushBroken ==
  ASSUME StreamInv, NEW p \in Package, Push(p), ~(Len(Encode(p)) <= Free /\ Intact)
  PROVE  StreamInv' /\ (Channel!GoDown \/ UNCHANGED Channel!vars)
<1> DEFINE z == IF Len(Encode(p)) <= Free THEN Len(Encode(p)) ELSE Free
           e == SubSeq(Encode(p), 1, z)
           n == Len(pushed)
           f == InFlight'
<1>1. Up /\ Up' /\ Typed /\ whole \in 0 .. n /\ push(p, z) /\ whole' = whole
  BY PushKeepsUp DEF StreamInv, Intact, Push
<1>2. e \in Seq(Byte) /\ p \in Cut
  <2>1. Encode(p) \in Seq(Byte) /\ p \in Cut /\ Len(wire) \in Nat
    BY <1>1, EncodeProperties, PackageType, LenProperties DEF Typed
  <2>2. z \in 0 .. Len(Encode(p))
    <3>1. SendRoom \in Nat /\ Free > 0
      BY SendRoomAssumption DEF Push
    <3>2. Len(Encode(p)) \in Nat
      BY <2>1, LenProperties
    <3> QED
      BY <2>1, <3>1, <3>2 DEF Free
  <2> HIDE DEF z
  <2>3. SubSeq(Encode(p), 1, z) \in Seq(Byte)
    BY <2>1, <2>2, LenProperties
  <2> QED
    BY <2>1, <2>3
<1>3. /\ wire' = wire \o e /\ m_buf' = m_buf /\ pulled' = pulled
      /\ pushed' = Append(pushed, p)
  BY <1>1 DEF push
<1> HIDE DEF z, e
<1>4. (m_buf \o wire)' = (m_buf \o wire) \o e
  <2>1. m_buf \in Seq(Byte) /\ wire \in Seq(Byte) /\ e \in Seq(Byte)
    BY <1>1, <1>2 DEF Typed
  <2> HIDE DEF e
  <2>2. (m_buf \o wire) \o e = m_buf \o (wire \o e)
    BY ONLY <2>1, ConcatAssociative
  <2> QED
    BY <1>3, <2>2
<1>5. Typed'
  BY <1>1, <1>2, <1>3, ConcatProperties, AppendProperties DEF Typed
<1>6. /\ InFlight \in Seq(Cut) /\ n \in Nat /\ Len(pulled) \in Nat /\ Len(InFlight) \in Nat
      /\ Len(All) = Len(pulled) + Len(InFlight) /\ pulled \in Seq(Cut) /\ pushed \in Seq(Cut)
      /\ \A i \in 1 .. Len(All) :
           All[i] = IF i <= Len(pulled) THEN pulled[i] ELSE InFlight[i - Len(pulled)]
      /\ m_buf \o wire \in Seq(Byte)
  BY <1>1, AllType DEF Typed
<1>7. f \in Seq(Cut) /\ Len(f) \in Nat
  <2>1. f = Frames((m_buf \o wire) \o e)
    BY <1>4 DEF InFlight
  <2> QED
    BY <1>2, <1>6, <2>1, FramesUnfold, ConcatProperties, LenProperties
<1>8. PICK m \in 0 .. Len(f) : InFlight = SubSeq(f, 1, m)
  <2>1. f = Frames((m_buf \o wire) \o e)
    BY <1>4 DEF InFlight
  <2> QED
    BY <1>2, <1>6, <2>1, FramesOfPrefix DEF InFlight
<1>9. All' = pulled \o f
  BY <1>3 DEF All
<1> HIDE DEF f, n
<1>10. Len(InFlight) = m /\ \A i \in 1 .. m : InFlight[i] = f[i]
  BY <1>7, <1>8, FirstOfFront
<1>11. /\ Len(All') = Len(pulled) + Len(f)
       /\ \A i \in 1 .. Len(pulled) + Len(f) :
            All'[i] = IF i <= Len(pulled) THEN pulled[i] ELSE f[i - Len(pulled)]
  BY <1>6, <1>7, <1>9, ConcatProperties
<1>12. /\ whole <= Len(All) /\ Len(All) <= Len(All')
       /\ \A i \in 1 .. Len(All) : All'[i] = All[i]
  <2>1. whole <= Len(All)
    BY <1>1 DEF StreamInv
  <2> DEFINE x == Len(pulled)
             y == Len(f)
  <2>2. /\ x \in Nat /\ y \in Nat /\ m \in 0 .. y
        /\ Len(All) = x + m /\ Len(All') = x + y
        /\ \A i \in 1 .. x + m : All[i] = IF i <= x THEN pulled[i] ELSE InFlight[i - x]
        /\ \A i \in 1 .. x + y : All'[i] = IF i <= x THEN pulled[i] ELSE f[i - x]
    BY <1>6, <1>7, <1>8, <1>10, <1>11
  <2> HIDE DEF x, y
  <2>3. ASSUME NEW i \in 1 .. x + m
        PROVE  All'[i] = All[i]
    <3>1. i \in 1 .. x + y /\ (i > x => i - x \in 1 .. m)
      BY <2>2
    <3> QED
      BY <1>10, <2>2, <3>1
  <2>4. x + m <= x + y
    BY <2>2
  <2> QED
    BY <2>1, <2>2, <2>3, <2>4
<1>13. /\ Len(pushed') = n + 1
       /\ \A i \in 1 .. n : pushed'[i] = pushed[i]
  <2>1. Len(pushed) = n
    BY DEF n
  <2>2. Len(Append(pushed, p)) = n + 1 /\ \A i \in 1 .. n : Append(pushed, p)[i] = pushed[i]
    BY <1>2, <1>6, <2>1, AppendProperties
  <2> QED
    BY <1>3, <2>2
<1>14. ~Intact'
  BY <1>1, <1>6, <1>13 DEF Intact
<1>15. StreamInv'
  <2>1. whole' \in 0 .. Len(pushed')
    BY <1>1, <1>6, <1>13
  <2>2. \A i \in 1 .. whole : All'[i] = pushed'[i]
    <3>1. \A i \in 1 .. whole : i <= Len(All) => All[i] = pushed[i]
      BY DEF StreamInv
    <3>2. \A i \in 1 .. whole : i \in 1 .. Len(All) /\ i \in 1 .. n
      BY <1>1, <1>6, <1>12
    <3> QED
      BY <1>12, <1>13, <3>1, <3>2
  <2>3. whole' <= Len(All')
    BY <1>1, <1>6, <1>7, <1>11, <1>12
  <2> QED
    BY <1>1, <1>5, <1>14, <2>1, <2>2, <2>3 DEF StreamInv
<1>16. First(f, whole - Len(pulled)) = First(InFlight, whole - Len(pulled))
  <2> DEFINE k == whole - Len(pulled)
  <2>1. k \in Int /\ k <= m
    BY <1>1, <1>6, <1>10, <1>12
  <2> HIDE DEF k
  <2>2. First(f, k) = First(InFlight, k)
    BY <1>7, <1>8, <2>1, FirstOfFront
  <2> QED
    BY <2>2 DEF k
<1>17. CASE Intact
  <2> DEFINE q == First(InFlight, whole - Len(pulled))
  <2>1. whole \in Nat
    BY <1>1, <1>6
  <2>2. q \in Seq(Cut)
    BY <1>6, <2>1, FirstProperties
  <2> HIDE DEF q
  <2>3. Len(q) \in 0 .. Len(q) /\ SubSeq(q, 1, Len(q)) = q
    BY <2>2, LenProperties, SubSeqFull
  <2> QED
    BY <1>1, <1>3, <1>14, <1>15, <1>16, <2>1, <2>3, ChannelGoesDown DEF q, f
<1>18. CASE ~Intact
  <2>1. (Up /\ whole = Len(pushed)) = FALSE /\ (Up /\ whole = Len(pushed))' = FALSE
    BY <1>14, <1>18 DEF Intact, Up
  <2> QED
    BY <1>1, <1>3, <1>15, <1>16, <2>1 DEF Channel!vars, InFlight, f
<1> QED
  BY <1>17, <1>18

LEMMA LinuxPull ==
  ASSUME StreamInv, NEW k \in 0 .. Len(wire), pull(k), Up' = Up, whole' = whole
  PROVE  StreamInv' /\ (Channel!Receive \/ UNCHANGED Channel!vars)
<1> DEFINE t == SubSeq(wire, k + 1, Len(wire))
           b == m_buf \o wire
           f == InFlight'
<1>1. /\ Typed /\ Intact \in BOOLEAN /\ (Intact => Exact(b))
      /\ pushed' = pushed /\ whole \in 0 .. Len(pushed) /\ Intact' = Intact
  BY DEF StreamInv, Intact, pull, Up
<1>2. t \in Seq(Byte) /\ (m_buf \o SubSeq(wire, 1, k)) \o t = b
  BY <1>1, PullView
<1>3. wire' = t
  BY DEF pull
<1> HIDE DEF t, b
<1>4. /\ Typed'
      /\ Intact => Exact(m_buf' \o t)
      /\ \/ pulled' = pulled /\ Frames(m_buf' \o t) = Frames(b)
         \/ /\ Frames(b) # <<>>
            /\ pulled' = Append(pulled, Head(Frames(b)))
            /\ Frames(m_buf' \o t) = Tail(Frames(b))
  BY <1>1, <1>2, PullStep
<1>5. (m_buf \o wire)' = m_buf' \o t
  BY <1>3
<1>6. \/ pulled' = pulled /\ f = InFlight
      \/ /\ InFlight # <<>>
         /\ pulled' = Append(pulled, Head(InFlight))
         /\ f = Tail(InFlight)
  BY <1>4, <1>5 DEF InFlight, b
<1>7. /\ InFlight \in Seq(Cut) /\ Len(InFlight) \in Nat /\ Len(pulled) \in Nat
      /\ pulled \in Seq(Cut) /\ Len(pushed) \in Nat
  BY <1>1, AllType DEF Typed
<1>8. All' = All
  <2>1. CASE pulled' = pulled /\ f = InFlight
    BY <2>1 DEF All
  <2>2. CASE /\ InFlight # <<>>
             /\ pulled' = Append(pulled, Head(InFlight))
             /\ f = Tail(InFlight)
    <3>1. Append(pulled, Head(InFlight)) \o Tail(InFlight) = pulled \o InFlight
      BY <1>7, <2>2, HeadMoves
    <3> QED
      BY <2>2, <3>1 DEF All
  <2> QED
    BY <1>6, <2>1, <2>2
<1>9. StreamInv'
  BY <1>1, <1>4, <1>5, <1>8 DEF StreamInv
<1>10. Channel!Receive \/ UNCHANGED Channel!vars
  <2>0. (Up /\ whole = Len(pushed))' = (Up /\ whole = Len(pushed)) /\ whole \in Nat
    BY <1>1, <1>7 DEF Up
  <2>1. CASE pulled' = pulled /\ f = InFlight
    BY <2>0, <2>1 DEF Channel!vars, InFlight
  <2>2. CASE /\ InFlight # <<>>
             /\ pulled' = Append(pulled, Head(InFlight))
             /\ f = Tail(InFlight)
    <3>1. /\ First(pulled', whole) =
               IF Len(pulled) < whole THEN Append(First(pulled, whole), Head(First(InFlight, whole - Len(pulled))))
                                      ELSE First(pulled, whole)
          /\ First(f, whole - Len(pulled')) =
               IF Len(pulled) < whole THEN Tail(First(InFlight, whole - Len(pulled)))
                                      ELSE First(InFlight, whole - Len(pulled))
          /\ Len(pulled) < whole => First(InFlight, whole - Len(pulled)) # <<>>
      BY <1>7, <2>0, <2>2, FirstMoves
    <3> QED
      BY <2>0, <3>1 DEF Channel!Receive, Channel!vars, InFlight
  <2> QED
    BY <1>6, <2>1, <2>2
<1> QED
  BY <1>9, <1>10

\* The steps that set the connection up, and the failures of write and read.
LEMMA UpStays ==
  ASSUME \/ listen \/ connect \/ pullConnection \/ PushToClosed \/ PushReset
         \/ PushThrows \/ \E end \in Ends : Close(end)
  PROVE  UNCHANGED <<streamVars, whole>> /\ (Up' => Up)
<1>1. CASE listen
  BY <1>1 DEF listen, Up, Ended
<1>2. CASE connect
  BY <1>2 DEF connect, Up, Ended
<1>3. CASE pullConnection
  <2> SUFFICES ASSUME Up' PROVE Up
    BY <1>3 DEF pullConnection
  <2> SUFFICES ASSUME NEW end \in Ends PROVE ~Ended(end)
    BY <1>3 DEF Up, pullConnection
  <2>1. ~Ended(end)'
    BY DEF Up
  <2> QED
    BY <1>3, <2>1 DEF pullConnection, Ended
<1>4. CASE PushToClosed
  BY <1>4 DEF PushToClosed, Up, Ended
<1>5. CASE PushReset
  BY <1>5 DEF PushReset, Up, Ended, setupVars
<1>6. CASE PushThrows
  <2>1. UNCHANGED <<streamVars, setupVars, m_isConnected, net, whole>> /\ open' \subseteq open
    BY <1>6 DEF PushThrows
  <2> QED
    BY <2>1 DEF Up, Ended, setupVars
<1>7. ASSUME NEW end \in Ends, Close(end)
      PROVE  UNCHANGED <<streamVars, whole>> /\ (Up' => Up)
  <2>1. UNCHANGED <<streamVars, setupVars, m_isConnected, net, whole>> /\ open' \subseteq open
    BY <1>7 DEF Close
  <2> QED
    BY <2>1 DEF Up, Ended, setupVars
<1> QED
  BY <1>1, <1>2, <1>3, <1>4, <1>5, <1>6, <1>7

LEMMA LinuxStep ==
  ASSUME LengthsFit, StreamInv, [Next]_vars
  PROVE  StreamInv' /\ [Channel!Next]_(Channel!vars)
<1>1. CASE UNCHANGED vars
  <2>1. UNCHANGED <<streamVars, whole>> /\ Up' = Up
    BY <1>1 DEF vars, connVars, setupVars, Up, Ended
  <2> QED
    BY <2>1, StreamStays DEF Channel!Next
<1>2. CASE \/ listen \/ connect \/ pullConnection \/ PushToClosed \/ PushReset
           \/ PushThrows \/ \E end \in Ends : Close(end)
  BY <1>2, UpStays, StreamStays DEF Channel!Next
<1>3. CASE closeServer
  <2>1. CASE connection = "pending" /\ net = "up"
    <3>1. wire' = <<>> /\ UNCHANGED <<m_buf, pushed, pulled, whole>> /\ ~Up'
      BY <1>3, <2>1 DEF closeServer, Up
    <3> QED
      BY <3>1, StreamDrops DEF Channel!Next
  <2>2. CASE ~(connection = "pending" /\ net = "up")
    <3>1. UNCHANGED <<streamVars, whole>> /\ Up' = Up
      BY <1>3, <2>2 DEF closeServer, Up, Ended, streamVars
    <3> QED
      BY <3>1, StreamStays DEF Channel!Next
  <2> QED
    BY <2>1, <2>2
<1>4. ASSUME NEW p \in Package, Push(p)
      PROVE  StreamInv' /\ [Channel!Next]_(Channel!vars)
  <2>1. CASE Len(Encode(p)) <= Free /\ Intact
    BY <1>4, <2>1, LinuxPush DEF Channel!Next, Package
  <2>2. CASE ~(Len(Encode(p)) <= Free /\ Intact)
    BY <1>4, <2>2, LinuxPushBroken DEF Channel!Next
  <2> QED
    BY <2>1, <2>2
<1>5. ASSUME NEW k \in 0 .. RingRoom, Pull(k)
      PROVE  StreamInv' /\ [Channel!Next]_(Channel!vars)
  <2>1. Up' = Up /\ whole' = whole /\ k <= Len(wire) /\ pull(k)
    BY <1>5 DEF Pull, Up, Ended, connVars, setupVars
  <2>2. k \in 0 .. Len(wire)
    BY <2>1, LenProperties DEF StreamInv, Typed
  <2> QED
    BY <2>1, <2>2, LinuxPull DEF Channel!Next
<1>6. CASE PullReset
  <2>1. Up' = Up /\ whole' = whole /\ pull(0)
    BY <1>6 DEF PullReset, Up, Ended, setupVars
  <2>2. 0 \in 0 .. Len(wire)
    BY LenProperties DEF StreamInv, Typed
  <2> QED
    BY <2>1, <2>2, LinuxPull DEF Channel!Next
<1>7. CASE Reset
  <2>1. wire' = <<>> /\ UNCHANGED <<m_buf, pushed, pulled, whole>> /\ ~Up'
    BY <1>7 DEF Reset, Up
  <2> QED
    BY <2>1, StreamDrops DEF Channel!Next
<1> QED
  BY <1>1, <1>2, <1>3, <1>4, <1>5, <1>6, <1>7 DEF Next, SomePull

-----------------------------------------------------------------------------

(***************************************************************************)
(* A TCP connection hands its bytes over so that whole packages arrive in  *)
(* the order they were pushed, in whatever pieces the bytes are taken and  *)
(* arrive, whenever either end goes, whenever the kernel resets it, and    *)
(* until the kernel takes a package in part only.                          *)
(***************************************************************************)
THEOREM LinuxImplementsChannel ==
  ASSUME LengthsFit
  PROVE  Spec => ImplementsChannel
<1>1. Init => StreamInv /\ Channel!Init
  BY LinuxStart
<1>2. StreamInv /\ [Next]_vars => StreamInv' /\ [Channel!Next]_(Channel!vars)
  BY LinuxStep
<1> QED
  BY <1>1, <1>2, PTL DEF Spec, ImplementsChannel, Channel!Spec

(***************************************************************************)
(* What the reader was given first is what was pushed first, in that       *)
(* order, as far as it was pushed before the first short write.            *)
(***************************************************************************)
THEOREM LinuxInOrder ==
  ASSUME LengthsFit
  PROVE  Spec => []WholeInOrder
<1>1. Init => StreamInv
  BY LinuxStart
<1>2. StreamInv /\ [Next]_vars => StreamInv'
  BY LinuxStep
<1>3. StreamInv => WholeInOrder
  <2> SUFFICES ASSUME StreamInv, NEW i \in 1 .. whole, i <= Len(pulled)
               PROVE  pulled[i] = pushed[i]
    BY DEF WholeInOrder
  <2>1. /\ Len(pulled) \in Nat /\ Len(InFlight) \in Nat /\ whole \in Nat
        /\ Len(All) = Len(pulled) + Len(InFlight)
        /\ \A j \in 1 .. Len(All) :
             All[j] = IF j <= Len(pulled) THEN pulled[j] ELSE InFlight[j - Len(pulled)]
    BY AllType DEF StreamInv
  <2>2. i \in 1 .. Len(All)
    BY <2>1
  <2>3. All[i] = pushed[i]
    BY <2>1, <2>2 DEF StreamInv
  <2> QED
    BY <2>1, <2>2, <2>3
<1> QED
  BY <1>1, <1>2, <1>3, PTL DEF Spec
=============================================================================
