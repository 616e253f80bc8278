------------------------------ MODULE Physics ------------------------------
(***************************************************************************)
(* PhysicalObject (math/physicalobject.h, .cpp) on its Kinematics          *)
(* (math/kinematics.h), and what Entity writes to the net of it and reads  *)
(* on a replica (entity.cpp), which proceeds on its own in between.  The   *)
(* plane is cut down to one axis and a turn to its quarters; numbers are   *)
(* integers, of which those below Eps are what cmpf takes for zero.        *)
(***************************************************************************)
EXTENDS Integers, Sequences

CONSTANTS Strength,       \* forces, modules and coefficients the program uses
          Point,          \* positions it aims at
          Eps,            \* cmpf's epsilon
          NotFinite,      \* what is no finite number
          MaxPhysicsSteps \* bound: what the program does to the object, in all

ASSUME PhysicsAssumption ==
  /\ Strength \subseteq Int /\ Point \subseteq Int
  /\ Eps \in Nat \ {0} /\ NotFinite \notin Int /\ MaxPhysicsSteps \in Nat

VARIABLES body,    \* the PhysicalObject on the server
          needSync, \* its m_needSyncNet
          sentBody,  \* packages on their way to the replica
          replica, \* the replica
          crawled, \* history: it moved since it was written, and cmpf saw nothing
          centred, \* history: it was asked to gravitate to where it is
          physicsSteps

physicsVars == <<body, needSync, sentBody, replica, crawled, centred, physicsSteps>>

\* NotFinite: a double takes it along from then on.
finite(x) == x # NotFinite
plus(x, y) == IF finite(x) /\ finite(y) THEN x + y ELSE NotFinite
times(x, y) == IF finite(x) /\ finite(y) THEN x * y ELSE NotFinite
minus(x, y) == plus(x, times(y, -1))
abs(x) == IF finite(x) /\ x < 0 THEN -x ELSE x
sgn(x) == IF ~finite(x) THEN x ELSE IF x > 0 THEN 1 ELSE IF x = 0 THEN 0 ELSE -1

\* Division, rounded towards zero.
over(x, y) ==
  IF ~finite(x) \/ ~finite(y) \/ y = 0 THEN NotFinite
  ELSE sgn(x) * sgn(y) * (abs(x) \div abs(y))

\* Math::cmpf and Math::null.
cmpf(x, y) == finite(x) /\ finite(y) /\ abs(x - y) < Eps
null(x) == cmpf(x, 0)

\* A turn in quarters, so that Pi / 2 is 1.
Turn == 4
constrainRadians(x) == IF finite(x) THEN x % Turn ELSE x
cosine(x) == CASE ~finite(x) -> NotFinite
               [] x % Turn = 0 -> 1
               [] x % Turn = 2 -> -1
               [] OTHER -> 0

radiansDifference(x, y) ==
  LET d == minus(x, y)
  IN IF ~finite(d) THEN d
     ELSE IF 2 * d > Turn THEN d - Turn
     ELSE IF 2 * d < -Turn THEN d + Turn ELSE d

\* Whether the angle is to the left of what it has to become.
radiansDirection(destination, x) ==
  LET d == minus(constrainRadians(destination), constrainRadians(x))
  IN IF finite(d) /\ d < 0 THEN 2 * abs(d) < Turn ELSE ~finite(d) \/ 2 * abs(d) >= Turn

\* eFunction: a factor that goes from one at rest to nothing at the limit.
limited(value, velocity, limit) ==
  IF null(limit) \/ ~finite(velocity) \/ abs(velocity) > abs(limit) THEN times(value, 0)
  ELSE over(times(value, abs(limit) - abs(velocity)), abs(limit))

-----------------------------------------------------------------------------
AtRest == [value |-> 0, velocity |-> 0, acceleration |-> 0]

InitPhysics ==
  /\ body = [position |-> AtRest, rotation |-> AtRest, m_mass |-> Eps,
             m_friction |-> Eps, m_rotationMatrix |-> 0,
             m_blockFrictionPerTick |-> FALSE]
  /\ replica = body
  /\ needSync = TRUE
  /\ sentBody = <<>>
  /\ crawled = FALSE
  /\ centred = FALSE
  /\ physicsSteps = 0

\* Kinematics::addAcceleration, addFriction and accept, for a time of one; the
\* rotation's value processor keeps it within the turn.
addAcceleration(k, x) == [k EXCEPT !.acceleration = plus(@, x)]
addFriction(k, x) == addAcceleration(k, times(k.velocity, times(x, -1)))
accept(k) ==
  LET velocity == plus(k.velocity, k.acceleration)
  IN [value |-> plus(k.value, velocity), velocity |-> velocity, acceleration |-> 0]

still(k) == null(k.velocity) /\ null(k.acceleration)

moves(b) == ~still(b.rotation) \/ ~still(b.position)

Rests(b) == /\ b.position.velocity = 0 /\ b.position.acceleration = 0
            /\ b.rotation.velocity = 0 /\ b.rotation.acceleration = 0

withFriction(b) ==
  LET x == over(b.m_friction, b.m_mass)
  IN IF null(b.m_mass) THEN b
     ELSE [b EXCEPT
       !.rotation = addFriction(@, x),
       !.position = IF b.m_blockFrictionPerTick THEN @ ELSE addFriction(@, x)]

\* The second half of proceedPhysics.
proceeded(b) ==
  LET r == accept(b.rotation)
      angle == constrainRadians(r.value)
  IN [b EXCEPT !.rotation = [r EXCEPT !.value = angle],
               !.m_rotationMatrix = angle,
               !.position = accept(b.position),
               !.m_blockFrictionPerTick = FALSE]

\* Slip: what it came to is looked at, not what it was.
noticed_after(b) == moves(proceeded(b))

\* What proceedPhysics finds to synchronize, before it accepts.
noticed(b) == moves(b)

Step == physicsSteps < MaxPhysicsSteps /\ physicsSteps' = physicsSteps + 1

proceedPhysics ==
  LET b == withFriction(body)
  IN /\ Step
     /\ body' = proceeded(b)
     /\ needSync' = (needSync \/ noticed(b))
     /\ crawled' = (crawled \/ (~moves(b) /\ ~Rests(b)))
     /\ UNCHANGED <<sentBody, replica, centred>>

\* A change to the object: it is to be synchronized.
Change(b) ==
  /\ Step
  /\ body' = b
  /\ needSync' = TRUE
  /\ UNCHANGED <<sentBody, replica, crawled, centred>>

setMass(x) == ~cmpf(body.m_mass, x) /\ Change([body EXCEPT !.m_mass = x])
setFriction(x) == ~cmpf(body.m_friction, x) /\ Change([body EXCEPT !.m_friction = x])
blockFrictionPerTick ==
  ~body.m_blockFrictionPerTick /\ Change([body EXCEPT !.m_blockFrictionPerTick = TRUE])

\* Accelerations and the matrix are what they were.
resetPhysicsProperties(p, r, velocity, rotationVelocity) ==
  Change([body EXCEPT !.position.value = p, !.position.velocity = velocity,
                      !.rotation.value = r, !.rotation.velocity = rotationVelocity])

\* addForce and addLimitedForce, addRotationForce and addLimitedRotationForce.
Accelerates(x) == ~null(body.m_mass) /\ ~null(x)
forced(b, x) ==
  IF Accelerates(x) THEN [b EXCEPT !.position = addAcceleration(@, over(x, b.m_mass))] ELSE b
turned(b, x) ==
  IF Accelerates(x) THEN [b EXCEPT !.rotation = addAcceleration(@, over(x, b.m_mass))] ELSE b
addForce(x) == Accelerates(x) /\ Change(forced(body, x))
addLimitedForce(x, limit) ==
  /\ Accelerates(x)
  /\ Change([body EXCEPT !.position =
       addAcceleration(@, limited(over(x, body.m_mass), @.velocity, limit))])
addRotationForce(x) == Accelerates(x) /\ Change(turned(body, x))
addLimitedRotationForce(x, limit) ==
  /\ Accelerates(x)
  /\ Change([body EXCEPT !.rotation =
       addAcceleration(@, limited(over(x, body.m_mass), @.velocity, limit))])

-----------------------------------------------------------------------------
\* The forces of the program, along the axis: forwards by the matrix, to the
\* left and right and limited by the rotation itself.
addForwardForce(x) == addForce(times(cosine(body.m_rotationMatrix), x))
addSideForce(x, side) == addForce(times(cosine(plus(body.rotation.value, side)), x))
addLimitedSideForce(x, side, limit) ==
  addLimitedForce(times(cosine(plus(body.rotation.value, side)), x), limit)

addPursuitForce(p, time) ==
  /\ ~null(time)
  /\ addForce(over(minus(minus(p, body.position.value), body.position.velocity), time))

restoringForce(p, x) == times(minus(p, body.position.value), x)
addRestoringForce(p, x) == addForce(restoringForce(p, x))

\* Slip: no distance is too close to the limit.
addFollowForce_unguarded(p, limit, x) ==
  LET d == minus(p, body.position.value)
      y == over(abs(d), minus(limit, abs(d)))
  IN /\ ~null(limit)
     /\ addForce(times(times(IF null(d) THEN 0 ELSE sgn(d), times(y, y)), x))

\* With a = 1 - distance / limit, the square of 1 / a - 1.
addFollowForce(p, limit, x) ==
  LET d == minus(p, body.position.value)
      gap == minus(limit, abs(d))
      y == over(abs(d), gap)
  IN /\ ~null(limit)
     /\ ~null(gap)
     /\ addForce(times(times(IF null(d) THEN 0 ELSE sgn(d), times(y, y)), x))

\* dockNodes' f.
falling(x, c) == IF finite(x) /\ x > c THEN over(c, x + 1 - c) ELSE x

distanceRelatedForce(p, limit, x) ==
  LET d == minus(p, body.position.value)
  IN IF null(d) \/ limit < 0 THEN 0 ELSE times(times(sgn(d), falling(abs(d), limit)), x)
addDistanceRelatedForce(p, limit, x) == addForce(distanceRelatedForce(p, limit, x))

\* direction * coeficient / direction^2: nothing looks at the distance.
addGravityForce(p, x) ==
  LET d == minus(p, body.position.value)
      force == over(times(d, x), times(d, d))
  IN /\ Accelerates(force)
     /\ Step
     /\ body' = [body EXCEPT !.position = addAcceleration(@, over(force, body.m_mass))]
     /\ needSync' = TRUE
     /\ centred' = (centred \/ d = 0)
     /\ UNCHANGED <<sentBody, replica, crawled>>

addRotationGravityForce(angle, x) ==
  LET d == radiansDifference(angle, body.rotation.value)
  IN ~null(d) /\ addRotationForce(over(x, d))
addRotationPursuitForce(angle, time) ==
  LET d == radiansDifference(angle, body.rotation.value)
  IN ~null(time) /\ addRotationForce(over(minus(d, body.rotation.velocity), time))
addRotationFollowForce(angle, limit, x) ==
  LET d == radiansDifference(angle, body.rotation.value)
      gap == minus(limit, d)
  IN ~null(limit) /\ ~null(gap) /\ addRotationForce(times(abs(over(d, gap)), x))
rotationRestoringForce(angle, x) ==
  times(radiansDifference(angle, body.rotation.value), x)
addRotationRestoringForce(angle, x) == addRotationForce(rotationRestoringForce(angle, x))
addTargetRotationForse(angle, x, limit) ==
  addLimitedRotationForce(
    IF radiansDirection(angle, body.rotation.value) THEN -x ELSE x, limit)
distanceRelatedRotationForce(angle, limit, x) ==
  LET d == radiansDifference(angle, body.rotation.value)
      force == falling(abs(d), limit)
  IN times(IF finite(d) /\ d >= 0 THEN force ELSE times(force, -1), x)
addDistanceRelatedRotationForce(angle, limit, x) ==
  addRotationForce(distanceRelatedRotationForce(angle, limit, x))

\* connectNodes and dockNodes: a node of the object, a step from its centre and
\* itself turned by Node, and one of another object, at p and turned to angle.
\* The two objects take the same forces towards each other; this is one's share.
Node == 2
rotatedOffset == cosine(body.m_rotationMatrix)
pulled(force, rotationForce) ==
  /\ Accelerates(force) \/ Accelerates(rotationForce)
  /\ Change(turned(forced(body, force), rotationForce))
connectNodes(p, angle, x) ==
  pulled(restoringForce(minus(p, rotatedOffset), x),
         rotationRestoringForce(radiansDifference(angle, Node), x))
dockNodes(p, angle, x) ==
  pulled(distanceRelatedForce(minus(p, rotatedOffset), 8, x),
         distanceRelatedRotationForce(radiansDifference(angle, Node), 1, x))

\* Every force, towards points and angles, with the limit of a force's size.
Forces ==
  physicsSteps < MaxPhysicsSteps /\ \E x \in Strength, p \in Point :
    \/ addForwardForce(x)
    \/ \E side \in {-1, 1} : addSideForce(x, side)
    \/ \E side \in -1 .. 1 : addLimitedSideForce(x, side, x)
    \/ addPursuitForce(p, x)
    \/ addRestoringForce(p, x)
    \/ addFollowForce(p, x, x)
    \/ addDistanceRelatedForce(p, x, x)
    \/ addGravityForce(p, x)

RotationForces ==
  physicsSteps < MaxPhysicsSteps /\ \E x \in Strength, angle \in 0 .. Turn - 1 :
    \/ addRotationGravityForce(angle, x)
    \/ addRotationPursuitForce(angle, x)
    \/ addRotationFollowForce(angle, x, x)
    \/ addRotationRestoringForce(angle, x)
    \/ addTargetRotationForse(angle, x, x)
    \/ addDistanceRelatedRotationForce(angle, x, x)

Joints ==
  physicsSteps < MaxPhysicsSteps /\ \E x \in Strength, p \in Point, angle \in 0 .. Turn - 1 :
    connectNodes(p, angle, x) \/ dockNodes(p, angle, x)

-----------------------------------------------------------------------------
\* Entity::needSyncNet, writePhysicsToNet.
writeNet ==
  /\ needSync
  /\ sentBody = <<>>
  /\ sentBody' = Append(sentBody, body)
  /\ needSync' = FALSE
  /\ crawled' = FALSE
  /\ UNCHANGED <<body, replica, centred, physicsSteps>>

readNet ==
  /\ sentBody # <<>>
  /\ replica' = Head(sentBody)
  /\ sentBody' = Tail(sentBody)
  /\ UNCHANGED <<body, needSync, crawled, centred, physicsSteps>>

\* proceedPhysics of the replica.
replicaProceeds ==
  /\ Step
  /\ replica' = proceeded(withFriction(replica))
  /\ UNCHANGED <<body, needSync, sentBody, crawled, centred>>

NextPhysics ==
  \/ proceedPhysics
  \/ \E x \in {0} \cup Strength : setMass(x) \/ setFriction(x)
  \/ blockFrictionPerTick
  \/ \E p \in Point, r \in 0 .. Turn - 1 : resetPhysicsProperties(p, r, p, r)
  \/ Forces
  \/ RotationForces
  \/ Joints
  \/ writeNet
  \/ readNet
  \/ replicaProceeds

SpecPhysics == InitPhysics /\ [][NextPhysics]_physicsVars

-----------------------------------------------------------------------------
(***************************************************************************)
(* An object that rests and has nothing to synchronize is where its        *)
(* replica is, turned as it is, and as heavy: whatever forces were on it   *)
(* between which ticks and writes, and though the replica went on by       *)
(* itself; but for what it crawled, more slowly than cmpf tells, since it  *)
(* was written.                                                            *)
(***************************************************************************)
RestingReplicaAgrees ==
  (~needSync /\ sentBody = <<>> /\ Rests(body) /\ ~crawled) =>
    /\ replica.position = body.position
    /\ replica.rotation = body.rotation
    /\ replica.m_mass = body.m_mass /\ replica.m_friction = body.m_friction

Numbers3(k) == {k.value, k.velocity, k.acceleration}

(***************************************************************************)
(* Whatever the forces, what an object and its replica have are numbers,   *)
(* until the object is to gravitate to the very place where it is: from    *)
(* then on both have none.                                                 *)
(***************************************************************************)
NumbersStayFinite ==
  ~centred => \A b \in {body, replica} :
    NotFinite \notin Numbers3(b.position) \cup Numbers3(b.rotation)
                       \cup {b.m_mass, b.m_friction, b.m_rotationMatrix}
=============================================================================
