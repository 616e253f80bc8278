------------------------------ MODULE Colider ------------------------------
(***************************************************************************)
(* Colider (math/colider.h, .cpp): convex shapes that are turned and       *)
(* moved, and narrowCollision, which projects two of them onto the normals *)
(* of their edges and says how they have to move apart.  Coordinates are   *)
(* integers, of a unit so fine that edges along and across the axes and at *)
(* half a right angle project without remainder; turns are by right        *)
(* angles.  Where the two touch is left out.                               *)
(***************************************************************************)
EXTENDS Integers, Sequences, FiniteSets

CONSTANTS Vertices,  \* shapes, each a sequence of vertices
          Place2D    \* positions

VARIABLES colider,   \* the two Coliders: m_edges, m_matrix as turns, m_position
          collision  \* what narrowCollision returned for them as they are

coliderVars == <<colider, collision>>

Coliders == {1, 2}
NotAsked == [asked |-> FALSE]
NoWay == <<>>  \* they do not collide

plus2(v, w) == <<v[1] + w[1], v[2] + w[2]>>
minus2(v, w) == <<v[1] - w[1], v[2] - w[2]>>
dot(v, w) == v[1] * w[1] + v[2] * w[2]
leftNormal(v) == <<v[2], -v[1]>>

\* Vector::projection.
projection(v, b) ==
  LET along(i) == (dot(v, b) * b[i]) \div dot(b, b)
  IN IF dot(b, b) = 0 THEN <<0, 0>> ELSE <<along(1), along(2)>>

makeEdges(vertices) ==
  [i \in DOMAIN vertices |->
     [position |-> vertices[i],
      vector |-> minus2(vertices[(i % Len(vertices)) + 1], vertices[i])]]

\* A matrix of so many right angles.
turnedBy(quarters, v) ==
  CASE quarters = 0 -> v
    [] quarters = 1 -> <<-v[2], v[1]>>
    [] quarters = 2 -> <<-v[1], -v[2]>>
    [] OTHER        -> <<v[2], -v[1]>>

transformed(c) ==
  [i \in DOMAIN c.m_edges |->
     [position |-> turnedBy(c.m_matrix, c.m_edges[i].position),
      vector |-> turnedBy(c.m_matrix, c.m_edges[i].vector)]]

\* From the leftmost point to the rightmost one.
fromLeftToRight(points) ==
  LET left == CHOOSE p \in points : \A q \in points : p[1] <= q[1]
      right == CHOOSE p \in points : \A q \in points : p[1] >= q[1]
  IN [position |-> left, vector |-> minus2(right, left)]

\* On a vertical normal all are as far left, and the first stands for both.
objectProjection(edges, normal) ==
  IF edges = <<>> THEN [position |-> <<0, 0>>, vector |-> <<0, 0>>]
  ELSE IF normal[1] = 0
    THEN [position |-> projection(edges[1].position, normal), vector |-> <<0, 0>>]
  ELSE fromLeftToRight(
         {projection(edges[e].position, normal) : e \in DOMAIN edges}
           \cup {plus2(projection(edges[e].position, normal),
                      projection(edges[e].vector, normal)) : e \in DOMAIN edges})

\* Slip: the second one is never around the first.
penetration_within(x0, w0, x1, w1) ==
  \/ (x1 - x0) * (x1 - x0 - w0) < 0
  \/ (x1 + w1 - x0) * (x1 + w1 - x0 - w0) < 0

\* One has an end inside the other: which neither has if both are the same.
penetration(x0, w0, x1, w1) ==
  \/ (x1 - x0) * (x1 - x0 - w0) < 0
  \/ (x1 + w1 - x0) * (x1 + w1 - x0 - w0) < 0
  \/ (x0 - x1) * (x0 - x1 - w1) < 0
  \/ (x0 + w0 - x1) * (x0 + w0 - x1 - w1) < 0

\* The projection of a Colider where it is, and the second moved onto the line
\* of the first.
placed(p, c) == [p EXCEPT !.position = plus2(@, c.m_position)]
onOneLine(p, q) ==
  <<p, [q EXCEPT !.position =
          plus2(@, projection(minus2(p.position, @), leftNormal(p.vector)))]>>

projections(c0, c1, normal) ==
  onOneLine(placed(objectProjection(transformed(c0), normal), c0),
            placed(objectProjection(transformed(c1), normal), c1))

-----------------------------------------------------------------------------
InitColiders ==
  /\ colider = [c \in Coliders |-> [m_edges |-> <<>>, m_matrix |-> 0, m_position |-> <<0, 0>>]]
  /\ collision = NotAsked

Set(c, what) ==
  /\ colider' = [colider EXCEPT ![c] = what]
  /\ collision' = NotAsked
setVertices(c, vertices) == Set(c, [colider[c] EXCEPT !.m_edges = makeEdges(vertices)])
setMatrix(c, quarters) == Set(c, [colider[c] EXCEPT !.m_matrix = quarters])
setPosition(c, p) == Set(c, [colider[c] EXCEPT !.m_position = p])

\* Half of what they overlap by, away from the other.
escapeVector(p, q) ==
  LET overlap == IF p.position[1] < q.position[1]
                   THEN minus2(q.position, plus2(p.vector, p.position))
                   ELSE minus2(plus2(q.vector, q.position), p.position)
  IN <<overlap[1] \div 2, overlap[2] \div 2>>

penetrates(pair) ==
  penetration(pair[1].position[1], pair[1].vector[1],
              pair[2].position[1], pair[2].vector[1])

\* The first of the shortest.
shortest(ways) ==
  LET length(i) == dot(ways[i], ways[i])
  IN ways[CHOOSE i \in DOMAIN ways : \A j \in DOMAIN ways :
            length(i) < length(j) \/ (length(i) = length(j) /\ i <= j)]

\* They collide if as many normals see them overlap as there are that both have
\* an extent along; the shortest way out is the result, for the second one reversed.
escape(both) ==
  LET penetrated == {i \in DOMAIN both : penetrates(both[i])}
      significant == {i \in DOMAIN both : \A k \in 1 .. 2 : both[i][k].vector # <<0, 0>>}
  IN IF penetrated # {} /\ Cardinality(penetrated) >= Cardinality(significant)
       THEN shortest([i \in penetrated |-> escapeVector(both[i][1], both[i][2])])
       ELSE NoWay

narrowCollision(c0, c1) ==
  LET edges == transformed(colider[c0]) \o transformed(colider[c1])
      way == escape([i \in DOMAIN edges |->
                       projections(colider[c0], colider[c1], leftNormal(edges[i].vector))])
  IN /\ ~collision.asked
     /\ collision' = [asked |-> TRUE, first |-> c0, escape |-> way]
     /\ UNCHANGED colider

NextColiders ==
  \/ \E c \in Coliders :
       \/ \E vertices \in Vertices : setVertices(c, vertices)
       \/ \E quarters \in 0 .. 3 : setMatrix(c, quarters)
       \/ \E p \in Place2D : setPosition(c, p)
  \/ \E c \in Coliders : narrowCollision(c, 3 - c)

-----------------------------------------------------------------------------
\* The edges of one where it is, moved on by d, and on which side of one of
\* them a point is.
Outline(c, d) ==
  LET edges == transformed(colider[c])
  IN {[position |-> plus2(plus2(edges[i].position, colider[c].m_position), d),
       vector |-> edges[i].vector] : i \in DOMAIN edges}
Side(edge, p) == dot(leftNormal(edge.vector), minus2(p, edge.position))

\* An edge of the one has all of the other outside.
Separates(outline, other) ==
  \E edge \in outline : \A own \in outline, e \in other :
    Side(edge, own.position) * Side(edge, e.position) <= 0
Apart(outline, other) ==
  outline = {} \/ other = {} \/ Separates(outline, other) \/ Separates(other, outline)

\* Along some normal, not a vertical one, both reach equally far, and
\* penetration sees nothing.
Alike(outline, other) ==
  LET Extent(o, n) == {dot(n, e.position) : e \in o}
      Ends(s) == {x \in s : (\A z \in s : x <= z) \/ (\A z \in s : x >= z)}
  IN \E edge \in outline \cup other :
       LET n == leftNormal(edge.vector)
       IN n[1] # 0 /\ Ends(Extent(outline, n)) = Ends(Extent(other, n))

(***************************************************************************)
(* Two shapes that share some of the plane collide, however they were      *)
(* turned and moved, unless they are alike along a normal; and if they     *)
(* collide they share nothing any more once each has gone its part of the  *)
(* way out.                                                                *)
(***************************************************************************)
CollisionsResolved ==
  collision.asked =>
    LET c == collision.first
        apart(d) == Apart(Outline(c, d), Outline(3 - c, minus2(<<0, 0>>, d)))
    IN IF collision.escape # NoWay THEN apart(collision.escape)
       ELSE \/ apart(<<0, 0>>)
            \/ Alike(Outline(c, <<0, 0>>), Outline(3 - c, <<0, 0>>))
=============================================================================
