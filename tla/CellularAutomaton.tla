-------------------------- MODULE CellularAutomaton --------------------------
(***************************************************************************)
(* CellularAutomaton (math/cellularautomaton.h): generations of cells on a *)
(* matrix whose edges meet, by the rules the program has.  Beside a matrix *)
(* a twin is kept that began as the same pattern further along, and goes   *)
(* through the same generations.                                           *)
(***************************************************************************)
EXTENDS Integers, FiniteSets

CONSTANTS Shape,         \* <<width, height>> of matrices
          SizeBits,      \* width of size_t
          MaxGenerations \* bound: generations a matrix goes through

\* That a power of two is a natural the provers have to be told.
ASSUME CellularAutomatonAssumption ==
  /\ Shape \subseteq (Nat \ {0}) \X (Nat \ {0})
  /\ SizeBits \in Nat /\ 2 ^ SizeBits \in Nat \ {0} /\ MaxGenerations \in Nat

VARIABLES shape, rule, neighborhood,
          matrix,
          along,  \* how much further the twin is
          twin,
          generation

automatonVars == <<shape, rule, neighborhood, matrix, along, twin, generation>>

-----------------------------------------------------------------------------
\* Neighbours that make a cell come to life and that let it live, and how many
\* generations it takes to die.
simpleRule(birth, survival, period) ==
  [kind |-> "simple", birth |-> birth, survival |-> survival, period |-> period]
gameOfLife == simpleRule({3}, {2, 3}, 2)
maze == simpleRule({3}, 1 .. 5, 2)
replicator == simpleRule({1}, 0 .. 8, 2)
star == simpleRule({2, 7, 8}, 3 .. 6, 6)
starWars == simpleRule({2}, 3 .. 5, 4)

\* What a cell becomes, and with how many neighbours that are so already.
Empty == 0
Wire == 1
Signal == 2
SignalEnd == 3
wireWorld ==
  [kind |-> "extended",
   of |-> [c \in {Wire, Signal, SignalEnd} |->
             CASE c = Wire      -> [to |-> Signal, counts |-> {1, 2}]
               [] c = Signal    -> [to |-> SignalEnd, counts |-> 0 .. 8]
               [] c = SignalEnd -> [to |-> Wire, counts |-> 0 .. 8]]]

Rules == {gameOfLife, maze, replicator, star, starWars, wireWorld}

\* By the differences of their coordinates.
mooreNeighborhood == ((-1 .. 1) \X (-1 .. 1)) \ {<<0, 0>>}
vonNeumannNeighborhood == {<<1, 0>>, <<0, 1>>, <<-1, 0>>, <<0, -1>>}

x(s, i) == i % s[1]
y(s, i) == i \div s[1]
Cells(s) == 0 .. s[1] * s[2] - 1

\* Slip: the end of a row is followed by the next row.
at_unwrapped(m, s, p) == m[(p[2] * s[1] + p[1]) % (s[1] * s[2])]

\* at of both neighborhoods.
at(m, s, p) == m[(p[2] % s[2]) * s[1] + (p[1] % s[1])]

\* x - 1 of the first column is the greatest size_t: the last column, if the
\* width divides 2^SizeBits.
neighbour(i, d) ==
  <<(x(shape, i) + d[1]) % (2 ^ SizeBits), (y(shape, i) + d[2]) % (2 ^ SizeBits)>>

count(m, i, value) == Cardinality({d \in neighborhood : at(m, shape, neighbour(i, d)) = value})

\* proceed by a Rule: a cell that dies goes down one by one.
becomes(m, i) ==
  LET top == rule.period - 1
      c == count(m, i, top)
  IN CASE m[i] = top -> IF c \in rule.survival THEN m[i] ELSE m[i] - 1
       [] m[i] = 0   -> IF c \in rule.birth THEN top ELSE 0
       [] OTHER      -> m[i] - 1

\* proceed by an ExtendedRule.
becomesExtended(m, i) ==
  IF m[i] \notin DOMAIN rule.of THEN m[i]
  ELSE LET r == rule.of[m[i]]
       IN IF count(m, i, r.to) \in r.counts THEN r.to ELSE m[i]

\* All cells by the generation before.
next(m) ==
  [i \in Cells(shape) |->
     IF rule.kind = "simple" THEN becomes(m, i) ELSE becomesExtended(m, i)]

\* The same pattern further along.
moved(m, s, d) ==
  [i \in Cells(s) |->
     m[((y(s, i) + d[2]) % s[2]) * s[1] + ((x(s, i) + d[1]) % s[1])]]

-----------------------------------------------------------------------------
InitAutomaton ==
  /\ shape = <<1, 1>>
  /\ rule = wireWorld
  /\ neighborhood = mooreNeighborhood
  /\ matrix = [i \in {0} |-> Empty]
  /\ along = <<0, 0>>
  /\ twin = matrix
  /\ generation = 0

\* What a program begins with: cells alive and dead, or wires with a signal.
Begin(s, r, n, alive, d) ==
  /\ generation = 0
  /\ shape' = s
  /\ rule' = r
  /\ neighborhood' = n
  /\ matrix' = [i \in Cells(s) |->
       IF i \notin alive THEN Empty
       ELSE IF r.kind = "simple" THEN r.period - 1
       ELSE IF \A j \in alive : i <= j THEN Signal ELSE Wire]
  /\ along' = d
  /\ twin' = moved(matrix', s, d)
  /\ generation' = 1

\* proceed, of a matrix or of a MatrixProxy.
Proceed ==
  /\ generation \in 1 .. MaxGenerations
  /\ matrix' = next(matrix)
  /\ twin' = next(twin)
  /\ generation' = generation + 1
  /\ UNCHANGED <<shape, rule, neighborhood, along>>

NextAutomaton ==
  \/ \E s \in Shape, r \in Rules, n \in {mooreNeighborhood, vonNeumannNeighborhood} :
       \E alive \in SUBSET Cells(s), d \in {<<1, 0>>, <<0, 1>>} : Begin(s, r, n, alive, d)
  \/ Proceed

SpecAutomaton == InitAutomaton /\ [][NextAutomaton]_automatonVars

-----------------------------------------------------------------------------
(***************************************************************************)
(* The edges of a matrix meet: a pattern goes through the same generations *)
(* wherever it is, also over an edge: along the rows if their length is a  *)
(* power of two, and along the columns likewise.  (Of another length, the  *)
(* first column's cells have neighbours that do not have them.)            *)
(***************************************************************************)
EdgesMeet ==
  (\A k \in 1 .. 2 : along[k] # 0 => 2 ^ SizeBits % shape[k] = 0) =>
     twin = moved(matrix, shape, along)
=============================================================================
