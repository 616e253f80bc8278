----------------------- MODULE GameApplication_proofs -----------------------
(***************************************************************************)
(* Proofs about the application: its list of entities and its observers,   *)
(* its tasks, and the messages and promices of the loop; and about what    *)
(* its Context holds, settings behind observers and the variants they are. *)
(***************************************************************************)
EXTENDS GameApplication, Settings, Lists_proofs, FiniteSetTheorems

-----------------------------------------------------------------------------
(* The list of entities and its observers *)

ObserversSound ==
  /\ m_entityLifeTimeObservers \in Seq(Observer)
  /\ expired \subseteq Observer
  /\ Observer \ expired \subseteq Range(m_entityLifeTimeObservers)
  /\ view \in [Observer -> SUBSET Entity]

ListInv ==
  /\ m_entities \in Seq(Entity)
  /\ NothingDangling
  /\ ObserversSound
  /\ ObserversAgree

\* What a step does to the list and to its observers.
LEMMA ListSteps ==
  ASSUME [Next]_vars
  PROVE  \/ UNCHANGED <<m_entities, m_autoIt, destroyed, observerVars>>
         \/ addEntity
         \/ dropObserver /\ UNCHANGED listVars
         \/ nextCycle /\ UNCHANGED <<m_entities, destroyed, observerVars>>
         \/ \E i \in DOMAIN m_entities : Destroy(i)
<1> USE DEF listVars, observerVars
<1>1. CASE UNCHANGED vars
  BY <1>1 DEF vars
<1>2. CASE start \/ return
  BY <1>2 DEF start, return
<1>3. CASE userCode
  BY <1>3 DEF userCode, userOperation, emit, quitLater, dropObserver, schedule
<1>4. CASE top \/ preProceed \/ proceedOne \/ proceeded \/ renderOne \/ nextHandler
  BY <1>4 DEF top, preProceed, proceedOne, proceeded, renderOne, nextHandler, control
<1>5. CASE flush \/ flushed \/ taskOne \/ bottom
  BY <1>5 DEF flush, flushed, taskOne, bottom, control
<1>6. CASE rendered
  BY <1>6 DEF rendered
<1>7. CASE destroyEntity
  BY <1>7 DEF destroyEntity
<1>8. CASE destroyAllEntities \/ destroyEntitiesWithTag
  BY <1>8 DEF destroyAllEntities, destroyEntitiesWithTag, destroyMany
<1> QED
  BY <1>1, <1>2, <1>3, <1>4, <1>5, <1>6, <1>7, <1>8 DEF Next, exec

\* Telling the observers leaves those that exist on their list.
LEMMA EmitTells ==
  ASSUME ObserversSound, NEW appeared \in SUBSET Entity, NEW gone,
         Emit(appeared, gone)
  PROVE  /\ ObserversSound'
         /\ \A o \in Observer \ expired' :
              o \notin expired /\ view'[o] = (view[o] \cup appeared) \ gone
<1> DEFINE s == m_entityLifeTimeObservers
           living == Select(s, Observer \ expired)
<1>1. PICK ended \in SUBSET {living[i] : i \in 2 .. Len(living)} :
        /\ expired' = expired \cup ended
        /\ s' = Select(living, Observer \ ended)
        /\ view' = [o \in Observer |->
             IF o \in Range(living) \ ended THEN (view[o] \cup appeared) \ gone
             ELSE {}]
  BY DEF Emit
<1>2. /\ Range(living) = Range(s) \cap (Observer \ expired)
      /\ living \in Seq(Observer \cap (Observer \ expired))
  BY RangeOfSelect, SelectPicks DEF ObserversSound
<1>3. living \in Seq(Observer)
  BY <1>2, SeqMonotonic
<1> HIDE DEF living
<1>4. ended \subseteq Observer
  <2>1. \A i \in 2 .. Len(living) : living[i] \in Observer
    BY <1>3, LenProperties
  <2> QED
    BY <1>1, <2>1
<1>5. /\ Range(s') = Range(living) \cap (Observer \ ended)
      /\ s' \in Seq(Observer \cap (Observer \ ended))
  BY <1>1, <1>3, RangeOfSelect, SelectPicks
<1>6. s' \in Seq(Observer)
  BY <1>5, SeqMonotonic
<1>7. \A o \in Observer \ expired' : o \notin expired /\ o \in Range(living) \ ended
  BY <1>1, <1>2 DEF ObserversSound
<1>8. /\ view' \in [Observer -> SUBSET Entity]
      /\ \A o \in Observer \ expired' : view'[o] = (view[o] \cup appeared) \ gone
  BY <1>1, <1>7 DEF ObserversSound
<1> QED
  BY <1>1, <1>4, <1>5, <1>6, <1>7, <1>8 DEF ObserversSound

\* An entity that was neither on the list nor deleted is appended.
LEMMA AddKeepsList ==
  ASSUME ListInv, addEntity
  PROVE  ListInv'
<1> USE DEF ListInv
<1>1. PICK e \in Entity \ (destroyed \cup Range(m_entities)) :
        /\ m_entities' = Append(m_entities, e)
        /\ Emit({e}, {})
  BY DEF addEntity
<1>2. m_autoIt' = m_autoIt /\ destroyed' = destroyed
  BY <1>1 DEF addEntity
<1>3. m_entities' \in Seq(Entity) /\ Range(m_entities') = Range(m_entities) \cup {e}
  BY <1>1, RangeAppend
<1>4. \A i, j \in DOMAIN m_entities' : m_entities'[i] = m_entities'[j] => i = j
  BY <1>1, DistinctAfterAppend DEF NothingDangling
<1>5. NothingDangling'
  BY <1>1, <1>2, <1>3, <1>4 DEF NothingDangling
<1>6. /\ ObserversSound'
      /\ \A o \in Observer \ expired' :
           o \notin expired /\ view'[o] = (view[o] \cup {e}) \ {}
  <2>1. {e} \in SUBSET Entity /\ Emit({e}, {})
    BY <1>1
  <2> QED
    BY <2>1, EmitTells
<1>7. ObserversAgree'
  BY <1>3, <1>6 DEF ObserversAgree
<1> QED
  BY <1>3, <1>5, <1>6, <1>7

\* The iterator of the list goes from one element to another.
LEMMA NextCycleKeepsList ==
  ASSUME ListInv, nextCycle, UNCHANGED <<m_entities, destroyed, observerVars>>
  PROVE  ListInv'
<1> USE DEF ListInv
<1>1. DOMAIN m_entities = 1 .. Len(m_entities) /\ Len(m_entities) \in Nat
  BY LenProperties
<1>2. m_autoIt' \in Range(m_entities) \cup {End}
  <2> DEFINE i == CHOOSE j \in 1 .. Len(m_entities) : m_entities[j] = m_autoIt
  <2>1. m_autoIt' = IF m_entities = <<>> THEN End
                    ELSE IF m_autoIt = End \/ i = Len(m_entities)
                      THEN m_entities[1] ELSE m_entities[i + 1]
    BY DEF nextCycle
  <2>2. CASE m_entities = <<>>
    BY <2>1, <2>2
  <2>3. CASE m_entities # <<>> /\ m_autoIt = End
    <3>1. 1 \in DOMAIN m_entities
      BY <1>1, <2>3, EmptySeq
    <3> QED
      BY <2>1, <2>3, <3>1 DEF Range
  <2>4. CASE m_entities # <<>> /\ m_autoIt # End
    <3>1. \E j \in 1 .. Len(m_entities) : m_entities[j] = m_autoIt
      BY <1>1, <2>4 DEF NothingDangling, Range
    <3>2. PICK k \in 1 .. Len(m_entities) : k = i
      BY <3>1
    <3>3. /\ 1 \in 1 .. Len(m_entities)
          /\ k # Len(m_entities) => k + 1 \in 1 .. Len(m_entities)
      <4> DEFINE n == Len(m_entities)
      <4>1. n \in Nat /\ k \in 1 .. n
        BY <1>1
      <4> HIDE DEF n
      <4> QED
        BY <4>1 DEF n
    <3> HIDE DEF i
    <3> QED
      BY <1>1, <2>1, <2>4, <3>2, <3>3 DEF Range
  <2> QED
    BY <2>2, <2>3, <2>4
<1> QED
  BY <1>2 DEF NothingDangling, ObserversSound, ObserversAgree, observerVars

\* An element leaves the list; the iterator moves off it.
LEMMA DestroyKeepsList ==
  ASSUME ListInv, NEW i \in DOMAIN m_entities, Destroy(i)
  PROVE  ListInv'
<1> USE DEF ListInv
<1> DEFINE e == m_entities[i]
<1>1. /\ m_entities' = RemoveAt(m_entities, i)
      /\ destroyed' = destroyed \cup ({e} \cap Heap)
      /\ Emit({}, {e})
      /\ m_autoIt' = IF m_autoIt # e THEN m_autoIt
                     ELSE IF i < Len(m_entities) THEN m_entities[i + 1] ELSE End
  BY DEF Destroy, erase
<1>2. /\ Range(m_entities') \subseteq Range(m_entities)
      /\ Range(m_entities) \subseteq Range(m_entities') \cup {e}
      /\ m_entities' \in Seq(Entity)
  BY <1>1, RangeRemoveAt, RemoveAtProperties
<1>3. /\ \A j, k \in DOMAIN m_entities' : m_entities'[j] = m_entities'[k] => j = k
      /\ e \notin Range(m_entities')
  BY <1>1, DistinctAfterRemoveAt DEF NothingDangling
<1>4. Range(m_entities') = Range(m_entities) \ {e}
  BY <1>2, <1>3
<1>5. m_autoIt' \in Range(m_entities') \cup {End}
  <2>1. CASE m_autoIt # e
    BY <1>1, <1>4, <2>1 DEF NothingDangling
  <2>2. CASE m_autoIt = e /\ i < Len(m_entities)
    <3>1. i + 1 \in DOMAIN m_entities /\ i + 1 # i
      BY <2>2, LenProperties
    <3>2. m_entities[i + 1] # e /\ m_entities[i + 1] \in Range(m_entities)
      BY <3>1 DEF NothingDangling, Range
    <3> QED
      BY <1>1, <1>4, <2>2, <3>2
  <2> QED
    BY <1>1, <2>1, <2>2
<1>6. NothingDangling'
  BY <1>1, <1>3, <1>4, <1>5 DEF NothingDangling
<1>7. /\ ObserversSound'
      /\ \A o \in Observer \ expired' :
           o \notin expired /\ view'[o] = (view[o] \cup {}) \ {e}
  <2>1. {} \in SUBSET Entity
    OBVIOUS
  <2> QED
    BY <1>1, <2>1, EmitTells
<1>8. ObserversAgree'
  BY <1>4, <1>7 DEF ObserversAgree
<1> QED
  BY <1>2, <1>6, <1>7, <1>8

LEMMA ListStep ==
  ASSUME ListInv, [Next]_vars
  PROVE  ListInv'
<1>1. CASE UNCHANGED <<m_entities, m_autoIt, destroyed, observerVars>>
  BY <1>1 DEF ListInv, NothingDangling, ObserversSound, ObserversAgree, observerVars
<1>2. CASE dropObserver /\ UNCHANGED listVars
  BY <1>2 DEF dropObserver, ListInv, NothingDangling, ObserversSound,
              ObserversAgree, listVars
<1> QED
  BY <1>1, <1>2, ListSteps, AddKeepsList, NextCycleKeepsList, DestroyKeepsList

\* At the start every observer is on the list.
LEMMA ListInit == Init => ListInv
<1> SUFFICES ASSUME Init
             PROVE  ListInv
  OBVIOUS
<1> DEFINE s == m_entityLifeTimeObservers
           D == 1 .. Cardinality(Observer)
<1>1. s \in [D -> Observer] /\ \A i, j \in D : i # j => s[i] # s[j]
  BY DEF Init, SetToSeqs
<1>2. IsFiniteSet(Observer) /\ Cardinality(Observer) \in Nat
  BY GameApplicationAssumption, FS_CardinalityType
<1>3. s \in Seq(Observer)
  BY <1>1, <1>2
<1>4. s \in Injection(D, Observer)
  BY <1>1 DEF Injection, IsInjective
<1>5. IsFiniteSet(D) /\ Cardinality(D) = Cardinality(Observer)
  BY <1>2, FS_Interval
<1>6. s \in Surjection(D, Observer)
  BY <1>2, <1>4, <1>5, FS_Injection
<1>7. Range(s) = Observer
  BY <1>6 DEF Surjection, Range
<1>8. Range(<<>>) = {} /\ <<>> \in Seq(Entity)
  BY DEF Range
<1> QED
  BY <1>3, <1>7, <1>8 DEF Init, ListInv, NothingDangling, ObserversSound, ObserversAgree

(***************************************************************************)
(* Whatever the handlers of the destroy messages, the extensions and the   *)
(* tasks do, the list of exec holds no entity twice or after destroy       *)
(* deleted it, and its iterator is at one of its elements or at its end.   *)
(***************************************************************************)
THEOREM ListNeverDangles == Spec => []NothingDangling
<1>1. ListInv => NothingDangling
  BY DEF ListInv
<1> QED
  BY <1>1, ListInit, ListStep, PTL DEF Spec

(***************************************************************************)
(* An observer of the entities' life time that still exists knows exactly  *)
(* the entities on the list, whichever other observers expire and are      *)
(* dropped by emitEntityAdded and emitEntityRemoved.                       *)
(***************************************************************************)
THEOREM ObserversKnow == Spec => []ObserversAgree
<1>1. ListInv => ObserversAgree
  BY DEF ListInv
<1> QED
  BY <1>1, ListInit, ListStep, PTL DEF Spec

-----------------------------------------------------------------------------
(* The tasks *)

Task == [repeat : BOOLEAN, due : BOOLEAN, id : TaskId]

(***************************************************************************)
(* The tasks on the list have their own ids, all given by schedule, and a  *)
(* task that was not scheduled has not run.                                *)
(***************************************************************************)
TasksSound ==
  /\ m_scheduledTasks \in Seq(Task)
  /\ scheduled \in 0 .. MaxTasks
  /\ runs \in [TaskId -> 0 .. MaxRuns]
  /\ \A i \in DOMAIN m_scheduledTasks : m_scheduledTasks[i].id <= scheduled
  /\ \A i, j \in DOMAIN m_scheduledTasks :
       m_scheduledTasks[i].id = m_scheduledTasks[j].id => i = j
  /\ \A t \in TaskId : t > scheduled => runs[t] = 0

TasksInv == TasksSound /\ TasksRunOnce

\* What a step does to the tasks.
LEMMA TaskSteps ==
  ASSUME [Next]_vars
  PROVE  \/ UNCHANGED taskVars
         \/ \E repeat, due \in BOOLEAN : schedule(repeat, due)
         \/ taskOne
<1> USE DEF taskVars
<1>1. CASE UNCHANGED vars
  BY <1>1 DEF vars
<1>2. CASE start \/ return
  BY <1>2 DEF start, return
<1>3. CASE userCode
  BY <1>3 DEF userCode, userOperation, addEntity, emit, quitLater, dropObserver
<1>4. CASE top \/ preProceed \/ proceedOne \/ proceeded \/ renderOne \/ nextHandler
  BY <1>4 DEF top, preProceed, proceedOne, proceeded, renderOne, nextHandler, control
<1>5. CASE flush \/ flushed \/ bottom
  BY <1>5 DEF flush, flushed, bottom, control
<1>6. CASE rendered \/ destroyEntity \/ destroyAllEntities \/ destroyEntitiesWithTag
  BY <1>6 DEF rendered, destroyEntity, destroyAllEntities,
              destroyEntitiesWithTag, destroyMany
<1> QED
  BY <1>1, <1>2, <1>3, <1>4, <1>5, <1>6 DEF Next, exec

\* A new task gets an id no other has.
LEMMA ScheduleKeepsTasks ==
  ASSUME TasksInv, NEW repeat \in BOOLEAN, NEW due \in BOOLEAN,
         schedule(repeat, due)
  PROVE  TasksInv'
<1> USE DEF TasksInv
<1> DEFINE task == [repeat |-> repeat, due |-> due, id |-> scheduled + 1]
           s == m_scheduledTasks
           a == Append(s, task)
<1>1. /\ scheduled < MaxTasks /\ scheduled' = scheduled + 1
      /\ s' = a /\ runs' = runs
  BY DEF schedule
<1>2. /\ s \in Seq(Task) /\ scheduled \in Nat /\ MaxTasks \in Nat
      /\ scheduled + 1 \in TaskId /\ task \in Task
  BY <1>1, GameApplicationAssumption DEF TasksSound, TaskId, Task
<1>3. /\ DOMAIN s = 1 .. Len(s) /\ Len(s) \in Nat
      /\ a \in Seq(Task) /\ DOMAIN a = 1 .. Len(s) + 1
      /\ \A k \in 1 .. Len(s) : a[k] = s[k]
      /\ a[Len(s) + 1] = task
  BY <1>2, AppendProperties, LenProperties
<1>4. \A k \in 1 .. Len(s) : s[k].id \in TaskId /\ s[k].id <= scheduled
  <2>1. \A k \in 1 .. Len(s) : s[k] \in Task
    BY <1>2, ElementOfSeq
  <2> QED
    BY <1>3, <2>1 DEF TasksSound, Task
<1>5. task.id = scheduled + 1 /\ runs[scheduled + 1] = 0
  BY <1>2 DEF TasksSound
<1> HIDE DEF a, task
<1>6. \A k \in DOMAIN a : a[k].id <= scheduled + 1
  BY <1>2, <1>3, <1>4, <1>5 DEF TaskId
<1>7. \A j, k \in DOMAIN a : a[j].id = a[k].id => j = k
  BY <1>2, <1>3, <1>4, <1>5 DEF TasksSound
<1>8. TasksSound'
  BY <1>1, <1>2, <1>3, <1>6, <1>7 DEF TasksSound, TaskId
<1>9. \A k \in DOMAIN a : ~a[k].repeat => runs[a[k].id] = 0
  BY <1>3, <1>5 DEF TasksRunOnce
<1>10. ASSUME NEW t \in 1 .. scheduled + 1
       PROVE  (\E k \in DOMAIN a : a[k].id = t) \/ runs[t] = 1
  <2>1. CASE t = scheduled + 1
    BY <1>3, <1>5, <2>1
  <2>2. CASE t \in 1 .. scheduled
    BY <1>3, <2>2 DEF TasksRunOnce
  <2> QED
    BY <1>2, <2>1, <2>2
<1> QED
  BY <1>1, <1>8, <1>9, <1>10 DEF TasksRunOnce

\* A task runs, and leaves the list unless it repeats.
LEMMA TaskKeepsTasks ==
  ASSUME TasksInv, taskOne
  PROVE  TasksInv'
<1> USE DEF TasksInv
<1> DEFINE s == m_scheduledTasks
           task == s[turn]
           r == RemoveAt(s, turn)
           ran == [runs EXCEPT ![task.id] = IF @ < MaxRuns THEN @ + 1 ELSE @]
<1>1. /\ turn \in DOMAIN s /\ scheduled' = scheduled
      /\ \/ runs' = ran /\ ~task.repeat /\ s' = r
         \/ runs' = runs /\ s' = s
  BY DEF taskOne
<1>2. s \in Seq(Task) /\ task \in Task /\ task.id \in TaskId /\ task.id <= scheduled
  <2>1. s \in Seq(Task) /\ turn \in 1 .. Len(s)
    BY <1>1, LenProperties DEF TasksSound
  <2>2. task \in Task
    BY <2>1, ElementOfSeq
  <2> HIDE DEF task
  <2>3. task.id <= scheduled
    BY <1>1 DEF TasksSound, task
  <2> QED
    BY <2>1, <2>2, <2>3 DEF Task
<1>3. /\ ran \in [TaskId -> 0 .. MaxRuns]
      /\ \A t \in TaskId : t # task.id => ran[t] = runs[t]
      /\ runs[task.id] = 0 => ran[task.id] = 1
  BY <1>2 DEF TasksSound, MaxRuns
<1>4. scheduled \in Nat /\ \A t \in TaskId : t > scheduled => t # task.id
  BY <1>2 DEF TasksSound, TaskId
<1>5. \A t \in 1 .. scheduled : t \in TaskId
  BY GameApplicationAssumption DEF TasksSound, TaskId
<1>6. \A k \in DOMAIN s : s[k].id \in TaskId
  <2>1. \A k \in DOMAIN s : s[k] \in Task
    BY <1>2, ElementOfSeq, LenProperties
  <2> HIDE DEF task
  <2> QED
    BY <2>1 DEF Task
<1> HIDE DEF task, r, ran
<1>7. CASE runs' = runs /\ s' = s
  BY <1>1, <1>7 DEF TasksSound, TasksRunOnce
<1>8. CASE runs' = ran /\ ~task.repeat /\ s' = r
  <2>1. /\ DOMAIN s = 1 .. Len(s) /\ Len(s) \in Nat \ {0} /\ turn \in 1 .. Len(s)
        /\ DOMAIN r = 1 .. Len(s) - 1
        /\ \A k \in 1 .. Len(s) - 1 : r[k] = IF k < turn THEN s[k] ELSE s[k + 1]
    BY <1>1, <1>2, RemovedDomain DEF r
  <2>2. r \in Seq(Task)
    BY <1>1, <1>2, RemoveAtProperties DEF r
  <2> DEFINE place(k) == IF k < turn THEN k ELSE k + 1
  <2>3. \A k \in DOMAIN r : place(k) \in DOMAIN s /\ r[k] = s[place(k)] /\ place(k) # turn
    BY <2>1
  <2>4. \A j, k \in DOMAIN r : place(j) = place(k) => j = k
    BY <2>1
  <2>5. \A k \in DOMAIN s : k # turn => \E j \in DOMAIN r : place(j) = k
    <3>1. ASSUME NEW k \in DOMAIN s, k # turn
          PROVE  \E j \in DOMAIN r : place(j) = k
      <4>1. k < turn => k \in DOMAIN r /\ place(k) = k
        BY <2>1, <3>1
      <4>2. k > turn => k - 1 \in DOMAIN r /\ place(k - 1) = k
        BY <2>1, <3>1
      <4> QED
        BY <2>1, <3>1, <4>1, <4>2
    <3> QED
      BY <3>1
  <2> HIDE DEF place
  <2>6. \A k \in DOMAIN r : r[k].id \in TaskId /\ r[k].id # task.id
    BY <1>1, <1>6, <2>3 DEF TasksSound, task
  <2>7. TasksSound'
    BY <1>1, <1>3, <1>4, <1>8, <2>2, <2>3, <2>4 DEF TasksSound
  <2>8. ASSUME NEW k \in DOMAIN r, ~r[k].repeat
        PROVE  ran[r[k].id] = 0
    BY <1>3, <2>3, <2>6, <2>8 DEF TasksRunOnce
  <2>9. ASSUME NEW t \in 1 .. scheduled
        PROVE  (\E k \in DOMAIN r : r[k].id = t) \/ ran[t] = 1
    <3>1. CASE t = task.id
      <4>1. runs[task.id] = 0
        BY <1>1, <1>8 DEF TasksRunOnce, task
      <4> QED
        BY <1>3, <3>1, <4>1
    <3>2. CASE t # task.id
      <4>1. runs[t] = 1 \/ \E k \in DOMAIN s : s[k].id = t /\ k # turn
        BY <3>2 DEF TasksRunOnce, task
      <4>2. runs[t] = 1 \/ \E k \in DOMAIN r : r[k].id = t
        BY <2>3, <2>5, <4>1
      <4> QED
        BY <1>3, <1>5, <3>2, <4>2
    <3> QED
      BY <3>1, <3>2
  <2> QED
    BY <1>1, <1>8, <2>7, <2>8, <2>9 DEF TasksRunOnce
<1> QED
  BY <1>1, <1>7, <1>8

(***************************************************************************)
(* A task that does not repeat runs exactly once: the loop of exec over    *)
(* m_scheduledTasks, which user code appends to while it is under way,     *)
(* neither loses a task nor runs one again.                                *)
(***************************************************************************)
THEOREM TasksRun == Spec => []TasksRunOnce
<1>1. Init => TasksInv
  <2>1. <<>> \in Seq(Task) /\ DOMAIN <<>> = {}
    OBVIOUS
  <2> QED
    BY <2>1, GameApplicationAssumption
    DEF Init, TasksInv, TasksSound, TasksRunOnce, MaxRuns, TaskId
<1>2. TasksInv /\ [Next]_vars => TasksInv'
  <2> SUFFICES ASSUME TasksInv, [Next]_vars
               PROVE  TasksInv'
    OBVIOUS
  <2>1. CASE UNCHANGED taskVars
    BY <2>1 DEF TasksInv, TasksSound, TasksRunOnce, taskVars
  <2> QED
    BY <2>1, TaskSteps, ScheduleKeepsTasks, TaskKeepsTasks
<1>3. TasksInv => TasksRunOnce
  BY DEF TasksInv
<1> QED
  BY <1>1, <1>2, <1>3, PTL DEF Spec

-----------------------------------------------------------------------------
(* The messages *)

Message == [value : MessageValue, loopCount : {0, 1}, promice : Promices]

MessagesTyped ==
  /\ m_data \in [MessageId -> Seq(Message)]
  /\ emitted \in 0 .. MaxMessages
  /\ outcome \in [Promices -> {"InProcess", "Done", "Failed"}]
  /\ flushes \in [Promices -> 0 .. 2]

\* No promice is with two messages.
PromicesUnique ==
  \A id1, id2 \in MessageId :
    \A i \in DOMAIN m_data[id1], j \in DOMAIN m_data[id2] :
      m_data[id1][i].promice = m_data[id2][j].promice => id1 = id2 /\ i = j

(***************************************************************************)
(* A message that waits was emitted, nobody was told what became of it,    *)
(* and its loopCount counts down the flushes it has been in; a promice in  *)
(* process that was emitted is with a message, and one that was not has    *)
(* never been touched.                                                     *)
(***************************************************************************)
MessagesSound ==
  /\ PromicesUnique
  /\ \A id \in MessageId : \A i \in DOMAIN m_data[id] :
       LET m == m_data[id][i] IN
       /\ m.promice <= emitted
       /\ outcome[m.promice] = "InProcess"
       /\ flushes[m.promice] + m.loopCount = m_messageLifeTime
  /\ \A n \in Promices :
       /\ n > emitted => outcome[n] = "InProcess" /\ flushes[n] = 0
       /\ n <= emitted /\ outcome[n] = "InProcess" =>
            \E id \in MessageId : \E i \in DOMAIN m_data[id] :
              m_data[id][i].promice = n
       /\ outcome[n] = "Failed" <=> flushes[n] = 2

MessagesInv == MessagesTyped /\ MessagesSound

\* What a step does to the messages; a flush is a step of its own.
LEMMA MessageSteps ==
  ASSUME ListInv, [Next]_vars
  PROVE  \/ UNCHANGED <<m_data, emitted, outcome, flushes>>
         \/ \E id \in MessageId, v \in MessageValue, seen \in {0, 1} :
              emitMessage(id, v, seen) /\ (seen = 1 => pc = "flushed")
         \/ \E id \in MessageId : popOne(id)
         \/ flush
<1> USE DEF messageVars
<1>1. CASE UNCHANGED vars
  BY <1>1 DEF vars
<1>2. CASE start \/ return
  BY <1>2 DEF start, return, settle
<1>3. CASE userCode
  <2>1. CASE addEntity \/ quitLater \/ dropObserver \/ \E repeat, due \in BOOLEAN :
               schedule(repeat, due)
    BY <2>1 DEF addEntity, quitLater, dropObserver, schedule
  <2>2. CASE emit
    <3>1. Range(m_entities) \subseteq MessageValue /\ None \in MessageValue
      BY GameApplicationAssumption, RangeOfSeq DEF ListInv
    <3>2. /\ "DestroyEntity" \in MessageId /\ "DestroyAllEntities" \in MessageId
          /\ "DestroyEntitiesWithTag" \in MessageId /\ "UserMessage" \in MessageId
      BY GameApplicationAssumption
    <3>3. PICK seen \in {0, 1} :
            /\ seen = 1 => pc = "flushed"
            /\ \/ \E e \in Range(m_entities) : emitMessage("DestroyEntity", e, seen)
               \/ emitMessage("DestroyAllEntities", None, seen)
               \/ emitMessage("DestroyEntitiesWithTag", None, seen)
               \/ emitMessage("UserMessage", None, seen)
      BY <2>2 DEF emit
    <3> QED
      BY <3>1, <3>2, <3>3
  <2> QED
    BY <1>3, <2>1, <2>2 DEF userCode, userOperation
<1>4. CASE top \/ proceedOne \/ proceeded \/ renderOne \/ nextHandler \/ flushed \/ bottom
  BY <1>4 DEF top, proceedOne, proceeded, renderOne, nextHandler, flushed, bottom, control
<1>5. CASE rendered \/ taskOne
  BY <1>5 DEF rendered, taskOne
<1>6. CASE preProceed
  BY <1>6, GameApplicationAssumption DEF preProceed
<1>7. CASE destroyEntity
  BY <1>7, GameApplicationAssumption DEF destroyEntity
<1>8. CASE destroyAllEntities \/ destroyEntitiesWithTag
  BY <1>8, GameApplicationAssumption
  DEF destroyAllEntities, destroyEntitiesWithTag, destroyMany
<1> QED
  BY <1>1, <1>2, <1>3, <1>4, <1>5, <1>6, <1>7, <1>8 DEF Next, exec

\* The messages under id are a sequence of messages.
LEMMA QueueOf ==
  ASSUME MessagesTyped, NEW id \in MessageId
  PROVE  /\ m_data[id] \in Seq(Message)
         /\ Len(m_data[id]) \in Nat /\ DOMAIN m_data[id] = 1 .. Len(m_data[id])
         /\ \A i \in DOMAIN m_data[id] :
              /\ m_data[id][i] \in Message
              /\ m_data[id][i].promice \in Promices
              /\ m_data[id][i].loopCount \in {0, 1}
<1>1. m_data[id] \in Seq(Message)
  BY DEF MessagesTyped
<1>2. Len(m_data[id]) \in Nat /\ DOMAIN m_data[id] = 1 .. Len(m_data[id])
  BY <1>1, LenProperties
<1>3. \A i \in DOMAIN m_data[id] : m_data[id][i] \in Message
  BY <1>1, <1>2, ElementOfSeq
<1> QED
  BY <1>1, <1>2, <1>3 DEF Message

LEMMA EmitKeepsMessages ==
  ASSUME MessagesInv, NEW id \in MessageId, NEW v \in MessageValue,
         NEW seen \in {0, 1}, emitMessage(id, v, seen)
  PROVE  MessagesInv'
<1> USE DEF MessagesInv
<1> DEFINE n == emitted + 1
           m == [value |-> v, loopCount |-> m_messageLifeTime - seen, promice |-> n]
           s == m_data[id]
           a == Append(s, m)
<1>1. /\ emitted < MaxMessages /\ emitted' = n
      /\ m_data' = [m_data EXCEPT ![id] = a]
      /\ flushes' = [flushes EXCEPT ![n] = seen] /\ outcome' = outcome
  BY DEF emitMessage
<1>2. /\ emitted \in Nat /\ MaxMessages \in Nat /\ n \in Promices
      /\ m_data \in [MessageId -> Seq(Message)]
  BY <1>1, MessageQueueAssumption DEF MessagesTyped, Promices
<1>3. m \in Message /\ m.promice = n /\ seen + m.loopCount = m_messageLifeTime
  BY <1>2 DEF Message, m_messageLifeTime
<1>4. /\ s \in Seq(Message) /\ Len(s) \in Nat /\ DOMAIN s = 1 .. Len(s)
      /\ a \in Seq(Message) /\ DOMAIN a = 1 .. Len(s) + 1
      /\ \A k \in 1 .. Len(s) : a[k] = s[k]
      /\ a[Len(s) + 1] = m
  BY <1>3, QueueOf, AppendProperties, LenProperties
<1> HIDE DEF m, a
<1>5. /\ m_data'[id] = a
      /\ \A id2 \in MessageId : id2 # id => m_data'[id2] = m_data[id2]
  BY <1>1, <1>2
<1>6. MessagesTyped'
  BY <1>1, <1>2, <1>4 DEF MessagesTyped
<1>7. \A id2 \in MessageId : \A i \in DOMAIN m_data[id2] :
        /\ m_data[id2][i].promice \in Promices
        /\ m_data[id2][i].promice # n
  BY <1>2, QueueOf DEF MessagesSound, Promices
<1>8. \A id2 \in MessageId : \A i \in DOMAIN m_data'[id2] :
        \/ i \in DOMAIN m_data[id2] /\ m_data'[id2][i] = m_data[id2][i]
        \/ id2 = id /\ i = Len(s) + 1 /\ m_data'[id2][i] = m
  BY <1>4, <1>5
<1>9. \A id2 \in MessageId : \A i \in DOMAIN m_data[id2] :
        i \in DOMAIN m_data'[id2] /\ m_data'[id2][i] = m_data[id2][i]
  <2> TAKE id2 \in MessageId
  <2>1. CASE id2 = id
    <3>1. DOMAIN s \subseteq DOMAIN a /\ \A i \in DOMAIN s : a[i] = s[i]
      BY <1>4
    <3> QED
      BY <1>5, <2>1, <3>1
  <2>2. CASE id2 # id
    BY <1>5, <2>2
  <2> QED
    BY <2>1, <2>2
<1>10. PromicesUnique'
  BY <1>3, <1>7, <1>8 DEF PromicesUnique, MessagesSound
<1>11. ASSUME NEW id2 \in MessageId, NEW i \in DOMAIN m_data'[id2]
       PROVE  LET p == m_data'[id2][i] IN
              /\ p.promice <= n /\ outcome[p.promice] = "InProcess"
              /\ flushes'[p.promice] + p.loopCount = m_messageLifeTime
  <2>1. CASE i \in DOMAIN m_data[id2] /\ m_data'[id2][i] = m_data[id2][i]
    BY <1>1, <1>2, <1>7, <2>1 DEF MessagesSound, MessagesTyped, Promices
  <2>2. CASE m_data'[id2][i] = m
    BY <1>1, <1>2, <1>3, <2>2 DEF MessagesSound, MessagesTyped
  <2> QED
    BY <1>8, <2>1, <2>2
<1>12. ASSUME NEW k \in Promices
       PROVE  /\ k > n => outcome[k] = "InProcess" /\ flushes'[k] = 0
              /\ k <= n /\ outcome[k] = "InProcess" =>
                   \E id2 \in MessageId : \E i \in DOMAIN m_data'[id2] :
                     m_data'[id2][i].promice = k
              /\ outcome[k] = "Failed" <=> flushes'[k] = 2
  <2>1. CASE k = n
    <3>1. outcome[k] = "InProcess" /\ flushes'[k] = seen
      BY <1>1, <1>2, <2>1 DEF MessagesSound, MessagesTyped
    <3>2. Len(s) + 1 \in DOMAIN m_data'[id] /\ m_data'[id][Len(s) + 1].promice = k
      BY <1>3, <1>4, <1>5, <2>1
    <3> QED
      BY <1>2, <2>1, <3>1, <3>2
  <2>2. CASE k # n
    <3>1. flushes'[k] = flushes[k]
      BY <1>1, <2>2 DEF MessagesTyped
    <3>2. k \in Nat /\ (k > n => k > emitted) /\ (k <= n => k <= emitted)
      BY <1>2, <2>2 DEF Promices
    <3> QED
      BY <1>9, <3>1, <3>2 DEF MessagesSound
  <2> QED
    BY <2>1, <2>2
<1> QED
  BY <1>1, <1>6, <1>10, <1>11, <1>12 DEF MessagesSound

LEMMA PopKeepsMessages ==
  ASSUME MessagesInv, NEW id \in MessageId, popOne(id)
  PROVE  MessagesInv'
<1> USE DEF MessagesInv
<1> DEFINE s == m_data[id]
           r == Tail(s)
           p == Head(s).promice
<1>1. /\ s # <<>> /\ emitted' = emitted /\ flushes' = flushes
      /\ m_data' = [m_data EXCEPT ![id] = r]
      /\ outcome' = [outcome EXCEPT ![p] = "Done"]
  BY DEF popOne, containsMessage
<1>2. /\ s \in Seq(Message) /\ Len(s) \in Nat \ {0} /\ DOMAIN s = 1 .. Len(s)
      /\ r \in Seq(Message) /\ DOMAIN r = 1 .. Len(s) - 1
      /\ \A k \in 1 .. Len(s) - 1 : r[k] = s[k + 1]
      /\ p = s[1].promice
  BY <1>1, QueueOf, HeadTailProperties, LenProperties, EmptySeq
<1>3. 1 \in DOMAIN s /\ p \in Promices
  BY <1>2, QueueOf
<1> HIDE DEF r, p
<1>4. /\ m_data'[id] = r
      /\ \A id2 \in MessageId : id2 # id => m_data'[id2] = m_data[id2]
  BY <1>1 DEF MessagesTyped
<1>5. /\ outcome'[p] = "Done"
      /\ \A k \in Promices : k # p => outcome'[k] = outcome[k]
      /\ outcome[p] = "InProcess"
  BY <1>1, <1>2, <1>3 DEF MessagesTyped, MessagesSound
<1>6. MessagesTyped'
  BY <1>1, <1>2 DEF MessagesTyped
<1> DEFINE place(id2, i) == IF id2 = id THEN i + 1 ELSE i
<1>7. \A id2 \in MessageId : \A i \in DOMAIN m_data'[id2] :
        /\ place(id2, i) \in DOMAIN m_data[id2]
        /\ m_data'[id2][i] = m_data[id2][place(id2, i)]
        /\ ~(id2 = id /\ place(id2, i) = 1)
  <2> TAKE id2 \in MessageId
  <2>1. CASE id2 = id
    <3> SUFFICES ASSUME NEW i \in 1 .. Len(s) - 1
                 PROVE  i + 1 \in DOMAIN s /\ r[i] = s[i + 1] /\ i + 1 # 1
      BY <1>2, <1>4, <2>1
    <3> QED
      BY <1>2
  <2>2. CASE id2 # id
    BY <1>4, <2>2
  <2> QED
    BY <2>1, <2>2
<1>8. \A id2 \in MessageId : \A i \in DOMAIN m_data[id2] :
        \/ id2 = id /\ i = 1
        \/ \E j \in DOMAIN m_data'[id2] : m_data'[id2][j] = m_data[id2][i]
  <2>1. ASSUME NEW i \in DOMAIN s, i # 1
        PROVE  i - 1 \in DOMAIN r /\ r[i - 1] = s[i]
    BY <1>2, <2>1
  <2> QED
    BY <1>4, <2>1
<1>9. \A id2 \in MessageId : \A i, j \in DOMAIN m_data'[id2] :
        place(id2, i) = place(id2, j) => i = j
  <2>1. \A id2 \in MessageId : \A i \in DOMAIN m_data'[id2] : i \in Nat
    BY <1>2, <1>4, QueueOf
  <2> QED
    BY <2>1
<1> HIDE DEF place
<1>10. PromicesUnique'
  <2> SUFFICES ASSUME NEW id1 \in MessageId, NEW id2 \in MessageId,
                      NEW i \in DOMAIN m_data'[id1], NEW j \in DOMAIN m_data'[id2],
                      m_data'[id1][i].promice = m_data'[id2][j].promice
               PROVE  id1 = id2 /\ i = j
    BY DEF PromicesUnique
  <2>1. id1 = id2 /\ place(id1, i) = place(id2, j)
    BY <1>7 DEF MessagesSound, PromicesUnique
  <2> QED
    BY <1>9, <2>1
<1>11. \A id2 \in MessageId : \A i \in DOMAIN m_data'[id2] :
         /\ m_data'[id2][i].promice # p
         /\ m_data'[id2][i].promice \in Promices
  <2>1. ASSUME NEW id2 \in MessageId, NEW i \in DOMAIN m_data[id2],
               m_data[id2][i].promice = p
        PROVE  id2 = id /\ i = 1
    BY <1>2, <1>3, <2>1 DEF MessagesSound, PromicesUnique
  <2> QED
    BY <1>7, <2>1, QueueOf
<1>12. \A id2 \in MessageId : \A i \in DOMAIN m_data'[id2] :
         LET m == m_data'[id2][i] IN
         /\ m.promice <= emitted
         /\ outcome'[m.promice] = "InProcess"
         /\ flushes[m.promice] + m.loopCount = m_messageLifeTime
  BY <1>5, <1>7, <1>11 DEF MessagesSound
<1>13. ASSUME NEW k \in Promices
       PROVE  /\ k > emitted => outcome'[k] = "InProcess" /\ flushes[k] = 0
              /\ k <= emitted /\ outcome'[k] = "InProcess" =>
                   \E id2 \in MessageId : \E i \in DOMAIN m_data'[id2] :
                     m_data'[id2][i].promice = k
              /\ outcome'[k] = "Failed" <=> flushes[k] = 2
  <2>1. CASE k = p
    <3>1. s[1].loopCount \in {0, 1}
      BY <1>3, QueueOf
    <3>2. /\ s[1].promice <= emitted
          /\ flushes[s[1].promice] + s[1].loopCount = m_messageLifeTime
      BY <1>3 DEF MessagesSound
    <3>3. k = s[1].promice /\ k \in Nat
      BY <1>2, <2>1 DEF Promices
    <3>4. emitted \in Nat /\ flushes[k] \in Nat
      BY DEF MessagesTyped
    <3>5. ~(k > emitted) /\ flushes[k] # 2
      BY <3>1, <3>2, <3>3, <3>4 DEF m_messageLifeTime
    <3> QED
      BY <1>5, <2>1, <3>5
  <2>2. CASE k # p
    <3>1. outcome'[k] = outcome[k]
      BY <1>5, <2>2
    <3>2. ASSUME NEW id2 \in MessageId, NEW i \in DOMAIN m_data[id2],
                 m_data[id2][i].promice = k
          PROVE  \E j \in DOMAIN m_data'[id2] : m_data'[id2][j].promice = k
      <4>1. ~(id2 = id /\ i = 1)
        BY <1>2, <2>2, <3>2
      <4> QED
        BY <1>8, <3>2, <4>1
    <3> QED
      BY <3>1, <3>2 DEF MessagesSound
  <2> QED
    BY <2>1, <2>2
<1> QED
  BY <1>1, <1>6, <1>10, <1>12, <1>13 DEF MessagesSound

\* What a flush leaves of a queue: the messages whose life goes on, in their
\* order, at the places place[k] they had before.
LEMMA FlushedQueue ==
  ASSUME MessagesTyped, flushMessages, NEW id \in MessageId
  PROVE  /\ m_data'[id] \in Seq(Message)
         /\ DOMAIN m_data'[id] = 1 .. Len(m_data'[id])
         /\ \E place \in [DOMAIN m_data'[id] -> DOMAIN m_data[id]] :
              /\ \A j, k \in DOMAIN m_data'[id] : place[j] = place[k] => j = k
              /\ \A k \in DOMAIN m_data'[id] :
                   /\ m_data[id][place[k]].loopCount = 1
                   /\ m_data'[id][k].loopCount = 0
                   /\ m_data'[id][k].promice = m_data[id][place[k]].promice
              /\ \A i \in DOMAIN m_data[id] : m_data[id][i].loopCount = 1
                   => \E k \in DOMAIN m_data'[id] : place[k] = i
<1> DEFINE s == m_data[id]
           S == {m \in Range(s) : m.loopCount > 0}
           rest == Select(s, S)
           aged(m) == [m EXCEPT !.loopCount = @ - 1]
           t == [i \in DOMAIN rest |-> aged(rest[i])]
<1>1. m_data'[id] = t
  BY DEF flushMessages
<1>2. s \in Seq(Message) /\ Len(s) \in Nat /\ DOMAIN s = 1 .. Len(s)
  BY QueueOf
<1>3. rest \in Seq(Message \cap S) /\ Picks(rest, s, Len(s), S)
  BY <1>2, SelectPicks
<1>4. Len(rest) \in Nat /\ DOMAIN rest = 1 .. Len(rest)
  BY <1>3, LenProperties
<1>5. \A k \in 1 .. Len(rest) : rest[k] \in Message /\ rest[k] \in S
  BY <1>3, ElementOfSeq
<1>6. \A i \in DOMAIN s : s[i] \in S <=> s[i].loopCount = 1
  BY QueueOf DEF Range
<1>7. \A k \in 1 .. Len(rest) : rest[k].loopCount = 1 /\ aged(rest[k]) \in Message
  <2>1. ASSUME NEW k \in 1 .. Len(rest)
        PROVE  rest[k].loopCount = 1 /\ aged(rest[k]) \in Message
    <3>1. rest[k] \in Message /\ rest[k].loopCount > 0
      BY <1>5
    <3> HIDE DEF rest
    <3>2. rest[k].loopCount = 1
      BY <3>1 DEF Message
    <3> QED
      BY <3>1, <3>2 DEF Message
  <2> QED
    BY <2>1
<1>8. PICK place \in [1 .. Len(rest) -> 1 .. Len(s)] :
        /\ \A j, k \in 1 .. Len(rest) : j < k => place[j] < place[k]
        /\ \A k \in 1 .. Len(rest) : rest[k] = s[place[k]]
        /\ \A i \in 1 .. Len(s) : s[i] \in S => \E k \in 1 .. Len(rest) : place[k] = i
  BY <1>3 DEF Picks
<1> HIDE DEF rest
<1>9. /\ t \in Seq(Message) /\ DOMAIN t = DOMAIN rest
      /\ \A k \in DOMAIN rest : t[k] = aged(rest[k])
  BY <1>4, <1>7
<1>10. DOMAIN t = 1 .. Len(t)
  BY <1>9, LenProperties
<1>11. \A k \in DOMAIN rest : t[k].loopCount = 0 /\ t[k].promice = rest[k].promice
  <2>1. ASSUME NEW k \in DOMAIN rest
        PROVE  aged(rest[k]).loopCount = 0 /\ aged(rest[k]).promice = rest[k].promice
    <3>1. rest[k] \in Message /\ rest[k].loopCount = 1
      BY <1>4, <1>5, <1>7
    <3> QED
      BY <3>1 DEF Message
  <2> QED
    BY <1>9, <2>1
<1>12. \A j, k \in 1 .. Len(rest) : place[j] = place[k] => j = k
  <2>1. ASSUME NEW j \in 1 .. Len(rest), NEW k \in 1 .. Len(rest), place[j] = place[k]
        PROVE  j = k
    <3>1. ~(j < k) /\ ~(k < j)
      BY <1>2, <1>8, <2>1
    <3> QED
      BY <1>4, <3>1
  <2> QED
    BY <2>1
<1> HIDE DEF t, S
<1>13. place \in [DOMAIN t -> DOMAIN s]
  BY <1>2, <1>4, <1>8, <1>9
<1>14. \A k \in DOMAIN t : /\ s[place[k]].loopCount = 1
                           /\ t[k].loopCount = 0
                           /\ t[k].promice = s[place[k]].promice
  BY <1>4, <1>7, <1>8, <1>9, <1>11
<1>15. \A i \in DOMAIN s : s[i].loopCount = 1 => \E k \in DOMAIN t : place[k] = i
  BY <1>2, <1>4, <1>6, <1>8, <1>9
<1>16. \A j, k \in DOMAIN t : place[j] = place[k] => j = k
  BY <1>4, <1>9, <1>12
<1> QED
  BY <1>1, <1>9, <1>10, <1>13, <1>14, <1>15, <1>16

\* Waiting, by the places of the messages.
LEMMA WaitingMessages ==
  ASSUME MessagesTyped, NEW n
  PROVE  (\E m \in Waiting : m.promice = n)
           <=> \E id \in MessageId : \E i \in DOMAIN m_data[id] :
                 m_data[id][i].promice = n
  BY DEF Waiting, Range

\* A flush settles the promices of the messages it ends and ages the others.
LEMMA FlushKeepsMessages ==
  ASSUME MessagesInv, flushMessages
  PROVE  MessagesInv'
<1> USE DEF MessagesInv
<1> DEFINE ends(n) == \E id \in MessageId : \E i \in DOMAIN m_data[id] :
                        m_data[id][i].promice = n /\ m_data[id][i].loopCount = 0
           waits(n) == \E id \in MessageId : \E i \in DOMAIN m_data[id] :
                         m_data[id][i].promice = n
<1>1. /\ emitted' = emitted
      /\ DOMAIN m_data' = MessageId
      /\ outcome' = [n \in Promices |-> IF ends(n) THEN "Failed" ELSE outcome[n]]
      /\ flushes' = [n \in Promices |-> IF waits(n) THEN flushes[n] + 1 ELSE flushes[n]]
  <2>1. ASSUME NEW n
        PROVE  (\E m \in Waiting : m.promice = n /\ ~(m.loopCount > 0)) <=> ends(n)
    <3>1. \A id \in MessageId : \A i \in DOMAIN m_data[id] :
            m_data[id][i].loopCount = 0 <=> ~(m_data[id][i].loopCount > 0)
      BY QueueOf
    <3> QED
      BY <3>1 DEF Waiting, Range
  <2>2. ASSUME NEW n
        PROVE  (\E m \in Waiting : m.promice = n) <=> waits(n)
    BY WaitingMessages
  <2> HIDE DEF ends, waits
  <2> QED
    BY <2>1, <2>2 DEF flushMessages
<1>2. \A id \in MessageId : m_data'[id] \in Seq(Message)
  BY FlushedQueue
<1>3. \A id1, id2 \in MessageId :
        \A i \in DOMAIN m_data[id1], j \in DOMAIN m_data[id2] :
          m_data[id1][i].promice = m_data[id2][j].promice => id1 = id2 /\ i = j
  BY DEF MessagesSound, PromicesUnique
\* A message before the flush.
<1>4. ASSUME NEW id \in MessageId, NEW i \in DOMAIN m_data[id]
      PROVE  LET m == m_data[id][i] IN
             /\ m.promice \in Promices /\ m.promice <= emitted
             /\ waits(m.promice) /\ outcome[m.promice] = "InProcess"
             /\ m.loopCount = 1 => /\ flushes[m.promice] = 0 /\ ~ends(m.promice)
             /\ m.loopCount = 0 => /\ flushes[m.promice] = 1 /\ ends(m.promice)
             /\ m.loopCount \in {0, 1}
  <2>1. /\ m_data[id][i].promice \in Promices
        /\ m_data[id][i].loopCount \in {0, 1}
    BY QueueOf
  <2>2. \A n \in Promices : flushes[n] \in Nat
    BY DEF MessagesTyped
  <2>3. /\ m_data[id][i].promice <= emitted
        /\ outcome[m_data[id][i].promice] = "InProcess"
        /\ flushes[m_data[id][i].promice] + m_data[id][i].loopCount = 1
    BY DEF MessagesSound, m_messageLifeTime
  <2>4. m_data[id][i].loopCount = 1 => ~ends(m_data[id][i].promice)
    BY <1>3
  <2> QED
    BY <2>1, <2>2, <2>3, <2>4
\* A message after the flush.
<1>5. ASSUME NEW id \in MessageId, NEW k \in DOMAIN m_data'[id]
      PROVE  \E i \in DOMAIN m_data[id] :
               /\ m_data[id][i].loopCount = 1
               /\ m_data'[id][k].loopCount = 0
               /\ m_data'[id][k].promice = m_data[id][i].promice
  BY FlushedQueue
<1>6. ASSUME NEW id \in MessageId, NEW i \in DOMAIN m_data[id],
             m_data[id][i].loopCount = 1
      PROVE  \E k \in DOMAIN m_data'[id] :
               m_data'[id][k].promice = m_data[id][i].promice
  BY <1>6, FlushedQueue
<1>7. PromicesUnique'
  <2> SUFFICES ASSUME NEW id1 \in MessageId, NEW id2 \in MessageId,
                      NEW j \in DOMAIN m_data'[id1], NEW k \in DOMAIN m_data'[id2],
                      m_data'[id1][j].promice = m_data'[id2][k].promice
               PROVE  id1 = id2 /\ j = k
    BY DEF PromicesUnique
  <2>1. id1 = id2
    BY <1>3, <1>5
  <2>2. PICK place \in [DOMAIN m_data'[id1] -> DOMAIN m_data[id1]] :
          /\ \A h, l \in DOMAIN m_data'[id1] : place[h] = place[l] => h = l
          /\ \A l \in DOMAIN m_data'[id1] :
               m_data'[id1][l].promice = m_data[id1][place[l]].promice
    BY FlushedQueue
  <2>3. place[j] = place[k]
    BY <1>3, <2>1, <2>2
  <2> QED
    BY <2>1, <2>2, <2>3
<1> HIDE DEF ends, waits
<1>8. ASSUME NEW n \in Promices
      PROVE  /\ outcome'[n] = IF ends(n) THEN "Failed" ELSE outcome[n]
             /\ flushes'[n] = IF waits(n) THEN flushes[n] + 1 ELSE flushes[n]
  BY <1>1
<1>9. ASSUME NEW id \in MessageId, NEW k \in DOMAIN m_data'[id]
      PROVE  LET m == m_data'[id][k] IN
             /\ m.promice <= emitted'
             /\ outcome'[m.promice] = "InProcess"
             /\ flushes'[m.promice] + m.loopCount = m_messageLifeTime
  <2>1. PICK i \in DOMAIN m_data[id] :
          /\ m_data[id][i].loopCount = 1
          /\ m_data'[id][k].loopCount = 0
          /\ m_data'[id][k].promice = m_data[id][i].promice
    BY <1>5
  <2> DEFINE n == m_data[id][i].promice
  <2>2. /\ n \in Promices /\ n <= emitted /\ waits(n) /\ outcome[n] = "InProcess"
        /\ flushes[n] = 0 /\ ~ends(n)
    BY <1>4, <2>1
  <2>3. outcome'[n] = "InProcess" /\ flushes'[n] = 1
    BY <1>8, <2>2
  <2> QED
    BY <1>1, <2>1, <2>2, <2>3 DEF m_messageLifeTime
<1>10. ASSUME NEW n \in Promices
       PROVE  /\ n > emitted => outcome'[n] = "InProcess" /\ flushes'[n] = 0
              /\ n <= emitted /\ outcome'[n] = "InProcess" =>
                   \E id \in MessageId : \E k \in DOMAIN m_data'[id] :
                     m_data'[id][k].promice = n
              /\ outcome'[n] = "Failed" <=> flushes'[n] = 2
              /\ flushes'[n] \in 0 .. 2
              /\ outcome'[n] \in {"InProcess", "Done", "Failed"}
  <2>1. CASE ~waits(n)
    <3>1. ~ends(n)
      BY <2>1 DEF waits, ends
    <3>2. outcome'[n] = outcome[n] /\ flushes'[n] = flushes[n]
      BY <1>8, <2>1, <3>1
    <3>3. /\ flushes[n] \in 0 .. 2
          /\ outcome[n] \in {"InProcess", "Done", "Failed"}
      BY DEF MessagesTyped
    <3>4. ~(n <= emitted /\ outcome[n] = "InProcess")
      BY <2>1 DEF MessagesSound, waits
    <3> QED
      BY <3>2, <3>3, <3>4 DEF MessagesSound
  <2>2. CASE waits(n)
    <3>1. PICK id \in MessageId : \E i \in DOMAIN m_data[id] :
            m_data[id][i].promice = n
      BY <2>2 DEF waits
    <3>2. PICK i \in DOMAIN m_data[id] : m_data[id][i].promice = n
      BY <3>1
    <3>3. n <= emitted /\ n \in Nat /\ emitted \in Nat /\ outcome[n] = "InProcess"
      BY <1>4, <3>2 DEF Promices, MessagesTyped
    <3>4. CASE m_data[id][i].loopCount = 1
      <4>1. flushes[n] = 0 /\ ~ends(n)
        BY <1>4, <3>2, <3>4
      <4>2. outcome'[n] = "InProcess" /\ flushes'[n] = 1
        BY <1>8, <2>2, <3>3, <4>1
      <4>3. \E k \in DOMAIN m_data'[id] : m_data'[id][k].promice = n
        BY <1>6, <3>2, <3>4
      <4> QED
        BY <3>3, <4>2, <4>3
    <3>5. CASE m_data[id][i].loopCount = 0
      <4>1. flushes[n] = 1 /\ ends(n)
        BY <1>4, <3>2, <3>5
      <4>2. outcome'[n] = "Failed" /\ flushes'[n] = 2
        BY <1>8, <2>2, <4>1
      <4> QED
        BY <3>3, <4>2
    <3> QED
      BY <1>4, <3>4, <3>5
  <2> QED
    BY <2>1, <2>2
<1>11. MessagesTyped'
  <2>1. m_data' \in [MessageId -> Seq(Message)]
    <3>1. m_data' = [id \in MessageId |-> m_data'[id]]
      BY DEF flushMessages
    <3> QED
      BY <1>2, <3>1
  <2>2. /\ outcome' \in [Promices -> {"InProcess", "Done", "Failed"}]
        /\ flushes' \in [Promices -> 0 .. 2]
    <3>1. outcome' = [n \in Promices |-> outcome'[n]]
          /\ flushes' = [n \in Promices |-> flushes'[n]]
      BY <1>1
    <3> QED
      BY <1>10, <3>1
  <2> QED
    BY <1>1, <2>1, <2>2 DEF MessagesTyped
<1> QED
  BY <1>1, <1>7, <1>9, <1>10, <1>11 DEF MessagesSound

LEMMA MessagesStep ==
  ASSUME ListInv, MessagesInv, [Next]_vars
  PROVE  MessagesInv'
<1>1. CASE UNCHANGED <<m_data, emitted, outcome, flushes>>
  BY <1>1 DEF MessagesInv, MessagesTyped, MessagesSound, PromicesUnique
<1> QED
  BY <1>1, MessageSteps, EmitKeepsMessages, PopKeepsMessages, FlushKeepsMessages
  DEF flush

LEMMA MessagesInit == Init => MessagesInv
<1> SUFFICES ASSUME Init
             PROVE  MessagesInv
  OBVIOUS
<1>1. \A id \in MessageId : m_data[id] = <<>>
  BY DEF Init, InitMessages
<1>2. <<>> \in Seq(Message) /\ DOMAIN <<>> = {}
  OBVIOUS
<1>3. MessagesTyped
  BY <1>2, MessageQueueAssumption DEF Init, InitMessages, MessagesTyped
<1>4. \A n \in Promices : n > emitted /\ outcome[n] = "InProcess" /\ flushes[n] = 0
  BY DEF Init, InitMessages, Promices
<1>5. PromicesUnique
  BY <1>1, <1>2 DEF PromicesUnique
<1> QED
  BY <1>1, <1>2, <1>3, <1>4, <1>5 DEF MessagesInv, MessagesSound, Promices, Init, InitMessages

\* What a Promice is, unless its callbacks run, is what became of its message.
Settled ==
  /\ ~calling => m_state = outcome
  /\ \A n \in Promices : m_state[n] \in {"InProcess", outcome[n]}

LEMMA SettledStep ==
  ASSUME ListInv, MessagesInv, Settled, [Next]_vars
  PROVE  Settled'
<1> USE DEF goto, at, control
<1>1. CASE UNCHANGED messageVars /\ (calling' = calling \/ ~calling)
  BY <1>1 DEF messageVars, Settled
<1>2. CASE return
  BY <1>2 DEF return, settle, Settled
<1>3. ASSUME NEW id \in MessageId, NEW v \in MessageValue, NEW seen \in {0, 1},
             emitMessage(id, v, seen), calling' = calling
      PROVE  Settled'
  BY <1>3 DEF emitMessage, Settled
<1>4. ASSUME NEW id \in MessageId, popOne(id), calling'
      PROVE  Settled'
  <2> DEFINE p == Head(m_data[id]).promice
  <2>1. /\ m_state' = m_state /\ outcome' = [outcome EXCEPT ![p] = "Done"]
        /\ m_data[id] # <<>>
    BY <1>4 DEF popOne, containsMessage
  <2>2. p \in Promices /\ outcome[p] = "InProcess"
    <3>1. /\ 1 \in DOMAIN m_data[id] /\ Head(m_data[id]) = m_data[id][1]
      BY <2>1, QueueOf, HeadTailProperties, LenProperties, EmptySeq DEF MessagesInv
    <3> QED
      BY <3>1, QueueOf DEF MessagesInv, MessagesSound
  <2> HIDE DEF p
  <2> QED
    BY <1>4, <2>1, <2>2 DEF Settled, MessagesInv, MessagesTyped
<1>5. CASE flush
  <2>1. m_state' = m_state /\ calling' = (outcome' # outcome) /\ ~calling
    BY <1>5 DEF flush, flushMessages
  <2>2. ASSUME NEW n \in Promices
        PROVE  outcome'[n] = outcome[n] \/ outcome[n] = "InProcess"
    <3>1. outcome'[n] = IF \E m \in Waiting : m.promice = n /\ ~(m.loopCount > 0)
                        THEN "Failed" ELSE outcome[n]
      BY <1>5 DEF flush, flushMessages
    <3>2. ASSUME NEW m \in Waiting, m.promice = n
          PROVE  outcome[n] = "InProcess"
      <4>1. \E id \in MessageId : \E i \in DOMAIN m_data[id] : m_data[id][i].promice = n
        BY <3>2, WaitingMessages DEF MessagesInv
      <4> QED
        BY <4>1 DEF MessagesInv, MessagesSound
    <3> QED
      BY <3>1, <3>2
  <2>3. ~calling' => outcome' = outcome
    BY <2>1
  <2> QED
    BY <2>1, <2>2, <2>3 DEF Settled
<1>6. CASE UNCHANGED vars
  BY <1>1, <1>6 DEF vars
<1>7. CASE start \/ top \/ proceedOne \/ proceeded \/ renderOne \/ nextHandler \/ flushed
           \/ bottom \/ rendered \/ taskOne
  BY <1>1, <1>7 DEF start, top, proceedOne, proceeded, renderOne, nextHandler, flushed, bottom,
                    rendered, taskOne
<1>8. CASE userCode
  <2>1. CASE addEntity \/ quitLater \/ dropObserver \/ \E repeat, due \in BOOLEAN :
               schedule(repeat, due)
    BY <1>1, <1>8, <2>1 DEF userCode, addEntity, quitLater, dropObserver, schedule
  <2>2. CASE emit
    <3>1. m_state' = m_state /\ outcome' = outcome
      BY <2>2 DEF emit, emitMessage
    <3> QED
      BY <1>8, <3>1 DEF userCode, Settled
  <2> QED
    BY <1>8, <2>1, <2>2 DEF userCode, userOperation
<1>9. CASE preProceed \/ destroyEntity
  <2>1. \/ UNCHANGED messageVars /\ calling' = calling
        \/ \E id \in MessageId : popOne(id) /\ calling'
    BY <1>9, GameApplicationAssumption DEF preProceed, destroyEntity
  <2> QED
    BY <1>1, <1>4, <2>1
<1>10. CASE destroyAllEntities \/ destroyEntitiesWithTag
  <2>1. \/ UNCHANGED messageVars /\ ~calling
        \/ \E id \in MessageId : popOne(id) /\ calling'
    BY <1>10, GameApplicationAssumption
    DEF destroyAllEntities, destroyEntitiesWithTag, destroyMany
  <2> QED
    BY <1>1, <1>4, <2>1
<1> QED
  BY <1>2, <1>5, <1>6, <1>7, <1>8, <1>9, <1>10 DEF Next, exec

(***************************************************************************)
(* The Promice emitMessage returned is in process until the callbacks of   *)
(* its message have returned, and then done, if a handler popped that, or  *)
(* failed, if a second flush found it there; and never by two messages.    *)
(***************************************************************************)
THEOREM PromicesKept == Spec => []PromicesMatchMessages
<1>1. MessagesInv /\ Settled => PromicesMatchMessages
  <2> SUFFICES ASSUME MessagesInv, Settled, NEW n \in 1 .. emitted
               PROVE  /\ m_state[n] \in {"InProcess", outcome[n]}
                      /\ outcome[n] = "InProcess" <=> \E m \in Waiting : m.promice = n
                      /\ \A id1, id2 \in MessageId :
                           \A i \in DOMAIN m_data[id1], j \in DOMAIN m_data[id2] :
                             m_data[id1][i].promice = n /\ m_data[id2][j].promice = n
                               => id1 = id2 /\ i = j
                      /\ outcome[n] = "Failed" <=> flushes[n] = 2
    BY DEF PromicesMatchMessages, Settled
  <2>1. n \in Promices /\ n <= emitted
    BY MessageQueueAssumption DEF MessagesInv, MessagesTyped, Promices
  <2>2. outcome[n] = "InProcess" <=>
          \E id \in MessageId : \E i \in DOMAIN m_data[id] : m_data[id][i].promice = n
    BY <2>1 DEF MessagesInv, MessagesSound
  <2>3. outcome[n] = "InProcess" <=> \E m \in Waiting : m.promice = n
    BY <2>2, WaitingMessages DEF MessagesInv
  <2> QED
    BY <2>1, <2>3 DEF MessagesInv, MessagesSound, PromicesUnique, Settled
<1>2. Init => ListInv /\ MessagesInv /\ Settled
  <2>1. Init => Settled
    BY DEF Init, InitMessages, Settled
  <2> QED
    BY <2>1, ListInit, MessagesInit
<1>3. ListInv /\ MessagesInv /\ Settled /\ [Next]_vars
        => (ListInv /\ MessagesInv /\ Settled)'
  BY ListStep, MessagesStep, SettledStep
<1> QED
  BY <1>1, <1>2, <1>3, PTL DEF Spec

-----------------------------------------------------------------------------
(* The handlers *)

\* The messages under id have not been in a flush.
EachOnce(id) == \A i \in DOMAIN m_data[id] : m_data[id][i].loopCount = 1

(***************************************************************************)
(* A handler that ran in this turn of the loop left no message behind that *)
(* has been in a flush: what came since is new.                            *)
(***************************************************************************)
HandlersRan ==
  /\ pc \in {"DestroyAllEntities", "DestroyEntitiesWithTag", "flush"}
       => EachOnce("DestroyEntity")
  /\ pc \in {"DestroyEntitiesWithTag", "flush"} => EachOnce("DestroyAllEntities")
  /\ pc = "flush" => EachOnce("DestroyEntitiesWithTag")
  /\ ~throttled /\ pc \in {"proceed", "render", "DestroyEntity", "DestroyAllEntities",
                           "DestroyEntitiesWithTag", "flush"}
       => EachOnce("UserMessage")

\* The parts of the loop that may follow one another.
LEMMA ControlSteps ==
  ASSUME [Next]_vars
  PROVE  /\ throttled' = throttled
         /\ \/ pc' = pc
            \/ pc' \in {"top", "preProceed", "finished", "flushed", "tasks"}
            \/ pc = "top" /\ throttled /\ pc' = "render" /\ UNCHANGED messageVars
            \/ /\ pc = "preProceed" /\ ~containsMessage("UserMessage")
               /\ pc' = "proceed" /\ UNCHANGED messageVars
            \/ pc = "proceed" /\ pc' = "render" /\ UNCHANGED messageVars
            \/ pc = "render" /\ pc' = "DestroyEntity" /\ UNCHANGED messageVars
            \/ nextHandler
<1> USE DEF goto, at, control
<1>1. CASE UNCHANGED vars
  BY <1>1 DEF vars
<1>2. CASE start \/ return \/ userCode
  BY <1>2 DEF start, return, userCode
<1>3. CASE top
  BY <1>3 DEF top
<1>4. CASE preProceed
  BY <1>4 DEF preProceed, messageVars
<1>5. CASE proceedOne \/ proceeded \/ renderOne
  BY <1>5 DEF proceedOne, proceeded, renderOne
<1>6. CASE rendered
  BY <1>6 DEF rendered
<1>7. CASE destroyEntity
  BY <1>7 DEF destroyEntity
<1>8. CASE destroyAllEntities \/ destroyEntitiesWithTag
  BY <1>8 DEF destroyAllEntities, destroyEntitiesWithTag, destroyMany
<1>9. CASE nextHandler
  BY <1>9 DEF nextHandler
<1>10. CASE flush \/ flushed
  BY <1>10 DEF flush, flushed
<1>11. CASE taskOne \/ bottom
  BY <1>11 DEF taskOne, bottom
<1> QED
  BY <1>1, <1>2, <1>3, <1>4, <1>5, <1>6, <1>7, <1>8, <1>9, <1>10, <1>11 DEF Next, exec

\* Outside a flush new messages are fresh, and what is popped is gone.
LEMMA FreshStep ==
  ASSUME ListInv, MessagesInv, [Next]_vars, pc # "flushed", pc' # "flushed",
         NEW id \in MessageId, EachOnce(id)
  PROVE  EachOnce(id)'
<1>1. CASE UNCHANGED <<m_data, emitted, outcome, flushes>>
  BY <1>1 DEF EachOnce
<1>2. ASSUME NEW id2 \in MessageId, NEW v \in MessageValue, NEW seen \in {0, 1},
             emitMessage(id2, v, seen), seen = 1 => pc = "flushed"
      PROVE  EachOnce(id)'
  <2> DEFINE m == [value |-> v, loopCount |-> m_messageLifeTime - seen,
                   promice |-> emitted + 1]
  <2>1. m.loopCount = 1
    BY <1>2 DEF m_messageLifeTime
  <2>2. m \in Message
    BY <1>2, <2>1, MessageQueueAssumption
    DEF emitMessage, Message, Promices, MessagesInv, MessagesTyped
  <2> HIDE DEF m
  <2>3. m_data' = [m_data EXCEPT ![id2] = Append(m_data[id2], m)]
    BY <1>2 DEF emitMessage, m
  <2>4. /\ DOMAIN Append(m_data[id2], m) = 1 .. Len(m_data[id2]) + 1
        /\ \A k \in 1 .. Len(m_data[id2]) : Append(m_data[id2], m)[k] = m_data[id2][k]
        /\ Append(m_data[id2], m)[Len(m_data[id2]) + 1] = m
        /\ DOMAIN m_data[id2] = 1 .. Len(m_data[id2]) /\ Len(m_data[id2]) \in Nat
    BY <2>2, QueueOf, AppendProperties, LenProperties DEF MessagesInv
  <2>5. CASE id2 = id
    <3>1. m_data'[id] = Append(m_data[id], m)
      BY <2>3, <2>5 DEF MessagesInv, MessagesTyped
    <3>2. \A k \in DOMAIN Append(m_data[id], m) : Append(m_data[id], m)[k].loopCount = 1
      BY <2>1, <2>4, <2>5 DEF EachOnce
    <3> QED
      BY <3>1, <3>2 DEF EachOnce
  <2>6. CASE id2 # id
    BY <2>3, <2>6 DEF MessagesInv, MessagesTyped, EachOnce
  <2> QED
    BY <2>5, <2>6
<1>3. ASSUME NEW id2 \in MessageId, popOne(id2)
      PROVE  EachOnce(id)'
  <2>1. m_data' = [m_data EXCEPT ![id2] = Tail(m_data[id2])] /\ m_data[id2] # <<>>
    BY <1>3 DEF popOne, containsMessage
  <2>2. /\ DOMAIN Tail(m_data[id2]) = 1 .. Len(m_data[id2]) - 1
        /\ \A k \in 1 .. Len(m_data[id2]) - 1 : Tail(m_data[id2])[k] = m_data[id2][k + 1]
        /\ DOMAIN m_data[id2] = 1 .. Len(m_data[id2]) /\ Len(m_data[id2]) \in Nat
    BY <2>1, QueueOf, HeadTailProperties, LenProperties DEF MessagesInv
  <2>3. CASE id2 = id
    <3>1. m_data'[id] = Tail(m_data[id])
      BY <2>1, <2>3 DEF MessagesInv, MessagesTyped
    <3> QED
      BY <2>2, <2>3, <3>1 DEF EachOnce
  <2>4. CASE id2 # id
    BY <2>1, <2>4 DEF MessagesInv, MessagesTyped, EachOnce
  <2> QED
    BY <2>3, <2>4
<1> QED
  BY <1>1, <1>2, <1>3, MessageSteps DEF flush, goto

LEMMA HandlersStep ==
  ASSUME ListInv, MessagesInv, HandlersRan, [Next]_vars
  PROVE  HandlersRan'
<1>1. /\ "DestroyEntity" \in MessageId /\ "DestroyAllEntities" \in MessageId
      /\ "DestroyEntitiesWithTag" \in MessageId /\ "UserMessage" \in MessageId
  BY GameApplicationAssumption
<1>2. \A id \in MessageId : ~containsMessage(id) => EachOnce(id)
  BY DEF containsMessage, EachOnce
<1>3. throttled' = throttled
  BY ControlSteps
<1>4. CASE pc = "flushed" \/ pc' = "flushed"
  <2>1. pc' \in {"top", "preProceed", "finished", "flushed", "tasks"}
    BY <1>4, ControlSteps DEF nextHandler, at
  <2> QED
    BY <2>1 DEF HandlersRan
<1>5. CASE pc # "flushed" /\ pc' # "flushed"
  <2>1. \A id \in MessageId : EachOnce(id) => EachOnce(id)'
    BY <1>5, FreshStep
  <2>2. CASE pc' = pc
    BY <1>1, <1>3, <2>1, <2>2 DEF HandlersRan
  <2>3. CASE pc' \in {"top", "preProceed", "finished", "flushed", "tasks"}
    BY <2>3 DEF HandlersRan
  <2>4. CASE pc = "top" /\ throttled /\ pc' = "render"
    BY <1>3, <2>4 DEF HandlersRan
  <2>5. CASE /\ pc = "preProceed" /\ ~containsMessage("UserMessage")
             /\ pc' = "proceed"
    BY <1>1, <1>2, <2>1, <2>5 DEF HandlersRan
  <2>6. CASE \/ pc = "proceed" /\ pc' = "render"
             \/ pc = "render" /\ pc' = "DestroyEntity"
    BY <1>1, <1>3, <2>1, <2>6 DEF HandlersRan
  <2>7. CASE nextHandler
    BY <1>1, <1>2, <1>3, <2>1, <2>7 DEF HandlersRan, nextHandler, at, goto
  <2>8. \/ pc' = pc
        \/ pc' \in {"top", "preProceed", "finished", "flushed", "tasks"}
        \/ pc = "top" /\ throttled /\ pc' = "render"
        \/ pc = "preProceed" /\ ~containsMessage("UserMessage") /\ pc' = "proceed"
        \/ pc = "proceed" /\ pc' = "render"
        \/ pc = "render" /\ pc' = "DestroyEntity"
        \/ nextHandler
    BY ControlSteps
  <2> QED
    BY <2>2, <2>3, <2>4, <2>5, <2>6, <2>7, <2>8
<1> QED
  BY <1>4, <1>5

(***************************************************************************)
(* The flush of exec ends no message whose handler could not have seen it: *)
(* a request to destroy entities, whenever it was emitted, lives until the *)
(* handler's next turn, and so does a message to the user's own handler    *)
(* while every turn of the loop proceeds.                                  *)
(***************************************************************************)
THEOREM HandlersSeeMessages == Spec => MessagesServed
<1> DEFINE Inv == ListInv /\ MessagesInv /\ HandlersRan
           Served == \A id \in MessageId :
                       (id = "UserMessage" => ~throttled) => NoneFlushed(id)
<1>1. Init => Inv
  BY ListInit, MessagesInit DEF Init, HandlersRan
<1>2. Inv /\ [Next]_vars => Inv'
  BY ListStep, MessagesStep, HandlersStep
<1>3. Inv /\ [Next]_vars => [Served]_vars
  <2> SUFFICES ASSUME ListInv, MessagesInv, HandlersRan, [Next]_vars,
                      NEW id \in MessageId, id = "UserMessage" => ~throttled,
                      NEW i \in DOMAIN m_data[id]
               PROVE  outcome'[m_data[id][i].promice] # "Failed"
    BY DEF NoneFlushed, Range
  <2> DEFINE n == m_data[id][i].promice
  <2>1. n \in Promices /\ outcome[n] = "InProcess"
    BY QueueOf DEF MessagesInv, MessagesSound
  <2>2. CASE UNCHANGED <<m_data, emitted, outcome, flushes>>
    BY <2>1, <2>2
  <2>3. ASSUME NEW id2 \in MessageId, NEW v \in MessageValue, NEW seen \in {0, 1},
               emitMessage(id2, v, seen)
        PROVE  outcome'[n] # "Failed"
    BY <2>1, <2>3 DEF emitMessage
  <2>4. ASSUME NEW id2 \in MessageId, popOne(id2)
        PROVE  outcome'[n] # "Failed"
    BY <2>1, <2>4 DEF popOne, MessagesInv, MessagesTyped
  <2>5. CASE flush
    <3>1. pc = "flush" /\ flushMessages
      BY <2>5 DEF flush, at
    <3>2. EachOnce(id)
      BY <3>1, GameApplicationAssumption DEF HandlersRan
    <3>3. ASSUME NEW m \in Waiting, m.promice = n
          PROVE  m.loopCount > 0
      <4>1. PICK id2 \in MessageId : \E j \in DOMAIN m_data[id2] : m = m_data[id2][j]
        BY <3>3 DEF Waiting, Range
      <4>2. PICK j \in DOMAIN m_data[id2] : m = m_data[id2][j]
        BY <4>1
      <4>3. id2 = id /\ j = i
        BY <3>3, <4>2 DEF MessagesInv, MessagesSound, PromicesUnique
      <4>4. m.loopCount = 1
        BY <3>2, <4>2, <4>3 DEF EachOnce
      <4> QED
        BY <4>4
    <3>4. outcome'[n] = outcome[n]
      BY <2>1, <3>1, <3>3 DEF flushMessages
    <3> QED
      BY <2>1, <3>4
  <2> QED
    BY <2>2, <2>3, <2>4, <2>5, MessageSteps
<1> HIDE DEF Inv
<1>4. Spec => [][Served]_vars
  BY <1>1, <1>2, <1>3, PTL DEF Spec
<1> QED
  BY <1>4 DEF MessagesServed

-----------------------------------------------------------------------------
(* Variant: the value is its own *)

Types == NumberTypes \cup {"string", NoType}
StoredValues == VariantValues \cup {NullValue, Freed}

\* Data belong to one variant each, and are of the type that one tells.
VariantsInv ==
  /\ variant \in [Slot -> [m_rttiObject : Types, m_data : 0 .. MaxData]]
  /\ store \in [1 .. MaxData -> StoredValues]
  /\ allocated \in 0 .. MaxData
  /\ \A s \in Slot :
       /\ variant[s].m_data <= allocated
       /\ variant[s].m_data = 0 => variant[s].m_rttiObject = NoType
       /\ IsFull(variant[s]) => store[variant[s].m_data].type = variant[s].m_rttiObject
  /\ \A s, t \in Slot :
       variant[s].m_data # 0 /\ variant[s].m_data = variant[t].m_data => s = t

LEMMA ValueTypes ==
  /\ NullValue \in StoredValues /\ Freed \in StoredValues
  /\ \A v \in VariantValues : v \in StoredValues /\ v.type \in Types \ {NoType}
  /\ \A v \in StoredValues : v.text # "stale"
<1>1. \A v \in VariantValues : v.type \in {"int", "double", "string"} /\ v.text \in {"number", "word"}
  BY DEF VariantValues, Num, Str
<1>2. NullValue.text = "empty" /\ Freed.text = "freed"
  BY DEF NullValue, Freed
<1> QED
  BY <1>1, <1>2 DEF StoredValues, Types, NumberTypes, NoType

LEMMA VariantsInit == InitVariants => VariantsInv
<1> SUFFICES ASSUME InitVariants
             PROVE  VariantsInv
  OBVIOUS
<1>1. /\ variant = [s \in Slot |-> Fresh] /\ store = [d \in 1 .. MaxData |-> NullValue]
      /\ allocated = 0
  BY DEF InitVariants
<1>2. MaxData \in Nat
  BY VariantsAssumption
<1>3. Fresh \in [m_rttiObject : Types, m_data : 0 .. MaxData] /\ Fresh.m_data = 0
      /\ Fresh.m_rttiObject = NoType
  BY <1>2 DEF Fresh, Types
<1> QED
  BY <1>1, <1>2, <1>3, ValueTypes DEF VariantsInv, IsFull

(***************************************************************************)
(* New data in a slot, while other data may be freed that the slot had.    *)
(***************************************************************************)
LEMMA NewDataKeeps ==
  ASSUME VariantsInv, NEW s \in Slot, NEW v \in StoredValues, NEW T \in Types \ {NoType},
         v.type = T, allocated < MaxData, allocated' = allocated + 1,
         NEW old, old \in [1 .. MaxData -> StoredValues],
         \A e \in 1 .. MaxData : e # variant[s].m_data => old[e] = store[e],
         store' = [old EXCEPT ![allocated + 1] = v],
         variant' = [variant EXCEPT ![s] = [m_rttiObject |-> T, m_data |-> allocated + 1]]
  PROVE  /\ VariantsInv'
         /\ \A t \in Slot : t # s => valueOf(t)' = valueOf(t)
         /\ valueOf(s)' = v
<1> DEFINE n == allocated + 1  x == [m_rttiObject |-> T, m_data |-> n]
<1>1. allocated \in Nat /\ n \in 1 .. MaxData /\ MaxData \in Nat /\ n = allocated + 1 /\ n # 0
  BY VariantsAssumption DEF VariantsInv
<1>2. /\ variant \in [Slot -> [m_rttiObject : Types, m_data : 0 .. MaxData]]
      /\ \A t \in Slot : variant[t].m_data \in 0 .. allocated
  BY <1>1 DEF VariantsInv
<1> HIDE DEF n
<1>3. x \in [m_rttiObject : Types, m_data : 0 .. MaxData] /\ x.m_data = n /\ x.m_rttiObject = T
  BY <1>1
<1>4. variant' = [variant EXCEPT ![s] = x] /\ store' = [old EXCEPT ![n] = v]
  BY DEF n
<1> HIDE DEF x
<1>5. /\ variant' \in [Slot -> [m_rttiObject : Types, m_data : 0 .. MaxData]]
      /\ variant'[s] = x /\ \A t \in Slot \ {s} : variant'[t] = variant[t]
  BY <1>2, <1>3, <1>4
<1>6. /\ store' \in [1 .. MaxData -> StoredValues] /\ store'[n] = v
      /\ \A e \in 1 .. MaxData : e # n /\ e # variant[s].m_data => store'[e] = store[e]
  BY <1>1, <1>4
<1>7. \A t \in Slot \ {s} : /\ variant[t].m_data # n
                            /\ variant[t].m_data # 0 => /\ variant[t].m_data # variant[s].m_data
                                                        /\ variant[t].m_data \in 1 .. MaxData
  <2> TAKE t \in Slot \ {s}
  <2>1. variant[t].m_data \in 0 .. allocated
    BY <1>2
  <2>2. variant[t].m_data # 0 => variant[t].m_data # variant[s].m_data
    BY DEF VariantsInv
  <2>3. variant[t].m_data \in 0 .. MaxData
    BY <1>2
  <2> QED
    BY <1>1, <2>1, <2>2, <2>3
<1>8. \A t \in Slot \ {s} :
        variant[t].m_data # 0 => store'[variant[t].m_data] = store[variant[t].m_data]
  BY <1>6, <1>7
<1>9. \A t \in Slot \ {s} : valueOf(t)' = valueOf(t)
  <2> TAKE t \in Slot \ {s}
  <2>1. variant'[t] = variant[t]
    BY <1>5
  <2> QED
    BY <1>8, <2>1 DEF valueOf, IsFull
<1>10. valueOf(s)' = v
  BY <1>1, <1>3, <1>5, <1>6 DEF valueOf, IsFull
<1>11. allocated' \in 0 .. MaxData /\ allocated' = n
  BY <1>1
<1>12. \A t \in Slot :
        /\ variant'[t].m_data <= allocated'
        /\ variant'[t].m_data = 0 => variant'[t].m_rttiObject = NoType
        /\ IsFull(variant'[t]) => store'[variant'[t].m_data].type = variant'[t].m_rttiObject
  <2> TAKE t \in Slot
  <2>1. CASE t = s
    BY <1>1, <1>3, <1>5, <1>6, <1>11, <2>1
  <2>2. CASE t # s
    <3>1. variant'[t] = variant[t] /\ variant[t].m_data <= allocated'
      BY <1>1, <1>2, <1>5, <1>11, <2>2
    <3> QED
      BY <1>8, <2>2, <3>1 DEF VariantsInv, IsFull
  <2> QED
    BY <2>1, <2>2
<1>13. \A t, u \in Slot : variant'[t].m_data # 0 /\ variant'[t].m_data = variant'[u].m_data => t = u
  <2>1. \A t, u \in Slot : variant[t].m_data # 0 /\ variant[t].m_data = variant[u].m_data => t = u
    BY DEF VariantsInv
  <2> QED
    BY <1>3, <1>5, <1>7, <2>1
<1> QED
  BY <1>5, <1>6, <1>9, <1>10, <1>11, <1>12, <1>13 DEF VariantsInv

\* What a slot's own steps do to the others: nothing.
LEMMA AssignKeeps ==
  ASSUME VariantsInv, NEW s \in Slot, NEW v \in VariantValues, Assign(s, v)
  PROVE  VariantsInv' /\ \A t \in Slot : t # s => valueOf(t)' = valueOf(t)
<1> DEFINE x == variant[s]
           old == IF IsFull(x) THEN [store EXCEPT ![x.m_data] = Freed] ELSE store
<1>1. /\ x \in [m_rttiObject : Types, m_data : 0 .. MaxData]
      /\ store \in [1 .. MaxData -> StoredValues] /\ v \in StoredValues
      /\ v.type \in Types \ {NoType} /\ MaxData \in Nat
      /\ variant \in [Slot -> [m_rttiObject : Types, m_data : 0 .. MaxData]]
  BY ValueTypes, VariantsAssumption DEF VariantsInv
<1>2. CASE x.m_data # 0 /\ x.m_rttiObject = NoType
  <2>1. variant' = variant /\ store' = store /\ allocated' = allocated
    BY <1>2 DEF Assign
  <2> QED
    BY <2>1 DEF VariantsInv, valueOf, IsFull
<1>3. CASE x.m_data # 0 /\ x.m_rttiObject # NoType /\ x.m_rttiObject = v.type
  <2>1. variant' = variant /\ store' = [store EXCEPT ![x.m_data] = v] /\ allocated' = allocated
    BY <1>3 DEF Assign
  <2> DEFINE d == x.m_data
  <2>2. d \in 1 .. MaxData
    BY <1>1, <1>3
  <2>3. \A t \in Slot : t # s => variant[t].m_data # d
    BY <1>3 DEF VariantsInv
  <2>4. v.type = variant[s].m_rttiObject /\ d = variant[s].m_data
    BY <1>3
  <2>5. store' = [store EXCEPT ![d] = v]
    BY <2>1
  <2> HIDE DEF d
  <2>6. /\ store' \in [1 .. MaxData -> StoredValues] /\ store'[d] = v
        /\ \A e \in 1 .. MaxData : e # d => store'[e] = store[e]
    BY <1>1, <2>2, <2>5
  <2>7. \A t \in Slot : variant[t].m_data \in 0 .. MaxData
    BY <1>1
  <2>8. \A t \in Slot : t # s /\ variant[t].m_data # 0
          => store'[variant[t].m_data] = store[variant[t].m_data]
    BY <1>1, <2>3, <2>6, <2>7
  <2>9. \A t \in Slot : t # s => valueOf(t)' = valueOf(t)
    BY <2>1, <2>8 DEF valueOf, IsFull
  <2>10. \A t \in Slot : IsFull(variant[t]) => store'[variant[t].m_data].type = variant[t].m_rttiObject
    <3> TAKE t \in Slot
    <3>1. CASE t = s
      BY <2>4, <2>6, <3>1
    <3>2. CASE t # s
      BY <2>8, <3>2 DEF VariantsInv, IsFull
    <3> QED
      BY <3>1, <3>2
  <2> QED
    BY <2>1, <2>6, <2>9, <2>10 DEF VariantsInv
<1>4. CASE ~(x.m_data # 0 /\ x.m_rttiObject = NoType)
           /\ ~(x.m_data # 0 /\ x.m_rttiObject = v.type)
  <2>1. /\ allocated < MaxData /\ allocated' = allocated + 1
        /\ store' = [old EXCEPT ![allocated + 1] = v]
        /\ variant' = [variant EXCEPT ![s] = [m_rttiObject |-> v.type, m_data |-> allocated + 1]]
    BY <1>4 DEF Assign
  <2>2. /\ old \in [1 .. MaxData -> StoredValues]
        /\ \A e \in 1 .. MaxData : e # variant[s].m_data => old[e] = store[e]
    BY <1>1, ValueTypes
  <2> HIDE DEF old
  <2> QED
    BY <1>1, <2>1, <2>2, NewDataKeeps
<1> QED
  BY <1>2, <1>3, <1>4

LEMMA AssignCopyKeeps ==
  ASSUME VariantsInv, NEW s \in Slot, NEW t \in Slot, AssignCopy(s, t)
  PROVE  /\ VariantsInv'
         /\ \A u \in Slot : u # s => valueOf(u)' = valueOf(u)
         /\ IsFull(variant[t]) => valueOf(s)' = valueOf(t) /\ valueOf(t)' = valueOf(t)
         /\ ~IsFull(variant[t]) /\ variant[s].m_data = 0 => UNCHANGED variantVars
<1> DEFINE w == store[variant[t].m_data]
<1>1. /\ variant \in [Slot -> [m_rttiObject : Types, m_data : 0 .. MaxData]]
      /\ store \in [1 .. MaxData -> StoredValues] /\ MaxData \in Nat
  BY VariantsAssumption DEF VariantsInv
<1>2. CASE IsFull(variant[t])
  <2>1. /\ allocated < MaxData /\ allocated' = allocated + 1
        /\ store' = [store EXCEPT ![allocated + 1] = w]
        /\ variant' = [variant EXCEPT ![s] =
              [m_rttiObject |-> variant[t].m_rttiObject, m_data |-> allocated + 1]]
    BY <1>2 DEF AssignCopy
  <2>2. /\ w \in StoredValues /\ w.type = variant[t].m_rttiObject
        /\ variant[t].m_rttiObject \in Types \ {NoType} /\ w = valueOf(t)
    <3>1. variant[t].m_data \in 1 .. MaxData /\ variant[t].m_rttiObject \in Types \ {NoType}
      BY <1>1, <1>2 DEF IsFull
    <3> QED
      BY <1>1, <1>2, <3>1 DEF VariantsInv, valueOf
  <2> HIDE DEF w
  <2>3. \A e \in 1 .. MaxData : e # variant[s].m_data => store[e] = store[e]
    OBVIOUS
  <2>4. /\ VariantsInv' /\ valueOf(s)' = w
        /\ \A u \in Slot : u # s => valueOf(u)' = valueOf(u)
    BY <1>1, <2>1, <2>2, <2>3, NewDataKeeps
  <2>5. valueOf(t)' = valueOf(t)
    BY <2>2, <2>4
  <2> QED
    BY <1>2, <2>2, <2>4, <2>5
<1>3. CASE ~IsFull(variant[t])
  <2> DEFINE x == [variant[s] EXCEPT !.m_rttiObject = variant[t].m_rttiObject]
  <2>1. /\ variant' = [variant EXCEPT ![s] = x] /\ store' = store /\ allocated' = allocated
        /\ crashed' = crashed
    BY <1>1, <1>3 DEF AssignCopy
  <2>2. variant[t].m_rttiObject = NoType
    BY <1>3 DEF VariantsInv, IsFull
  <2>3. /\ x \in [m_rttiObject : Types, m_data : 0 .. MaxData]
        /\ x.m_data = variant[s].m_data /\ x.m_rttiObject = NoType
    BY <1>1, <2>2 DEF Types
  <2>4. variant[s].m_data = 0 => x = variant[s]
    <3>1. variant[s].m_data = 0 => variant[s].m_rttiObject = NoType
      BY DEF VariantsInv
    <3> QED
      BY <1>1, <2>2, <3>1
  <2> HIDE DEF x
  <2>5. /\ variant' \in [Slot -> [m_rttiObject : Types, m_data : 0 .. MaxData]]
        /\ variant'[s] = x /\ \A u \in Slot \ {s} : variant'[u] = variant[u]
    BY <1>1, <2>1, <2>3
  <2>6. \A u \in Slot : variant'[u].m_data = variant[u].m_data
    BY <2>3, <2>5
  <2>7. \A u \in Slot \ {s} : valueOf(u)' = valueOf(u)
    BY <2>1, <2>5 DEF valueOf, IsFull
  <2>8. \A u \in Slot :
          /\ variant'[u].m_data = 0 => variant'[u].m_rttiObject = NoType
          /\ IsFull(variant'[u]) => store'[variant'[u].m_data].type = variant'[u].m_rttiObject
    <3> TAKE u \in Slot
    <3>1. CASE u = s
      BY <2>3, <2>5, <3>1 DEF IsFull
    <3>2. CASE u # s
      BY <2>1, <2>5, <3>2 DEF VariantsInv
    <3> QED
      BY <3>1, <3>2
  <2>9. VariantsInv'
    BY <2>1, <2>5, <2>6, <2>8 DEF VariantsInv
  <2>10. variant[s].m_data = 0 => variant' = variant
    BY <1>1, <2>1, <2>4
  <2> QED
    BY <1>3, <2>1, <2>7, <2>9, <2>10 DEF variantVars
<1> QED
  BY <1>2, <1>3

LEMMA DestructKeeps ==
  ASSUME VariantsInv, NEW s \in Slot, Destruct(s)
  PROVE  VariantsInv' /\ \A t \in Slot : t # s => valueOf(t)' = valueOf(t)
<1> DEFINE d == variant[s].m_data
<1>1. /\ variant' = [variant EXCEPT ![s] = Fresh] /\ allocated' = allocated
      /\ store' = IF IsFull(variant[s]) THEN [store EXCEPT ![d] = Freed] ELSE store
  BY DEF Destruct
<1>2. /\ variant \in [Slot -> [m_rttiObject : Types, m_data : 0 .. MaxData]]
      /\ store \in [1 .. MaxData -> StoredValues] /\ MaxData \in Nat
      /\ allocated \in 0 .. MaxData
  BY VariantsAssumption DEF VariantsInv
<1>3. /\ Fresh \in [m_rttiObject : Types, m_data : 0 .. MaxData]
      /\ Fresh.m_data = 0 /\ Fresh.m_rttiObject = NoType
  BY <1>2 DEF Fresh, Types
<1>4. /\ variant' \in [Slot -> [m_rttiObject : Types, m_data : 0 .. MaxData]]
      /\ variant'[s] = Fresh /\ \A t \in Slot \ {s} : variant'[t] = variant[t]
  BY <1>1, <1>2, <1>3
<1>5. /\ store' \in [1 .. MaxData -> StoredValues]
      /\ \A e \in 1 .. MaxData : e # d => store'[e] = store[e]
  <2>1. d \in 0 .. MaxData
    BY <1>2
  <2> HIDE DEF d
  <2> QED
    BY <1>1, <1>2, <2>1, ValueTypes
<1>6. \A t \in Slot \ {s} :
        variant[t].m_data # 0 => store'[variant[t].m_data] = store[variant[t].m_data]
  <2> TAKE t \in Slot \ {s}
  <2>1. variant[t].m_data \in 0 .. MaxData /\ (variant[t].m_data # 0 => variant[t].m_data # d)
    BY <1>2 DEF VariantsInv
  <2> QED
    BY <1>2, <1>5, <2>1
<1>7. \A t \in Slot \ {s} : valueOf(t)' = valueOf(t)
  BY <1>4, <1>6 DEF valueOf, IsFull
<1>8. \A t \in Slot :
        /\ variant'[t].m_data <= allocated'
        /\ variant'[t].m_data = 0 => variant'[t].m_rttiObject = NoType
        /\ IsFull(variant'[t]) => store'[variant'[t].m_data].type = variant'[t].m_rttiObject
  <2> TAKE t \in Slot
  <2>1. CASE t = s
    BY <1>1, <1>2, <1>3, <1>4, <2>1 DEF IsFull
  <2>2. CASE t # s
    BY <1>1, <1>4, <1>6, <2>2 DEF VariantsInv, IsFull
  <2> QED
    BY <2>1, <2>2
<1>9. \A t, u \in Slot : variant'[t].m_data # 0 /\ variant'[t].m_data = variant'[u].m_data => t = u
  <2>1. \A t, u \in Slot : variant[t].m_data # 0 /\ variant[t].m_data = variant[u].m_data => t = u
    BY DEF VariantsInv
  <2>2. variant'[s].m_data = 0
    BY <1>3, <1>4
  <2> QED
    BY <1>4, <2>1, <2>2
<1> QED
  BY <1>1, <1>2, <1>4, <1>5, <1>7, <1>8, <1>9 DEF VariantsInv

(***************************************************************************)
(* However variants are assigned to one another and end, the value of each *)
(* is of the type it tells and changes with its own steps only, and a copy *)
(* compares equal to what it was assigned from.                            *)
(***************************************************************************)
THEOREM ValuesAreOwned == SpecVariants => OwnsItsValue
<1>1. InitVariants => VariantsInv
  BY VariantsInit
<1>2. ASSUME VariantsInv, [NextVariants]_variantVars
      PROVE  VariantsInv'
  <2>1. CASE UNCHANGED variantVars
    BY <1>2, <2>1 DEF VariantsInv, variantVars
  <2>2. CASE \E s \in Slot, v \in VariantValues : Assign(s, v)
    BY <1>2, <2>2, AssignKeeps
  <2>3. CASE \E s, t \in Slot : AssignCopy(s, t)
    BY <1>2, <2>3, AssignCopyKeeps
  <2>4. CASE \E s \in Slot : Destruct(s)
    BY <1>2, <2>4, DestructKeeps
  <2> QED
    BY <1>2, <2>1, <2>2, <2>3, <2>4 DEF NextVariants
<1>3. ASSUME VariantsInv, [NextVariants]_variantVars
      PROVE  [\A s \in Slot :
                /\ IsFull(variant[s]) => store[variant[s].m_data].type = variant[s].m_rttiObject
                /\ ~About(s) => valueOf(s)' = valueOf(s)
                /\ \A t \in Slot :
                     (AssignCopy(s, t) /\ (variant[s].m_data = 0 \/ IsFull(variant[t])))
                        => typeSafeCompare(valueOf(s)', valueOf(t)')]_variantVars
  <2> SUFFICES ASSUME ~UNCHANGED variantVars, NEW s \in Slot
               PROVE  /\ IsFull(variant[s]) => store[variant[s].m_data].type = variant[s].m_rttiObject
                      /\ ~About(s) => valueOf(s)' = valueOf(s)
                      /\ \A t \in Slot :
                           (AssignCopy(s, t) /\ (variant[s].m_data = 0 \/ IsFull(variant[t])))
                              => typeSafeCompare(valueOf(s)', valueOf(t)')
    OBVIOUS
  <2>1. IsFull(variant[s]) => store[variant[s].m_data].type = variant[s].m_rttiObject
    BY <1>3 DEF VariantsInv
  <2>2. \/ \E u \in Slot, v \in VariantValues : Assign(u, v)
        \/ \E u, t \in Slot : AssignCopy(u, t)
        \/ \E u \in Slot : Destruct(u)
    BY <1>3 DEF NextVariants
  <2>3. ASSUME ~About(s)
        PROVE  valueOf(s)' = valueOf(s)
    <3>1. CASE \E u \in Slot, v \in VariantValues : Assign(u, v)
      <4>1. PICK u \in Slot, v \in VariantValues : Assign(u, v)
        BY <3>1
      <4>2. u # s
        BY <2>3, <4>1 DEF About
      <4> QED
        BY <1>3, <4>1, <4>2, AssignKeeps
    <3>2. CASE \E u, t \in Slot : AssignCopy(u, t)
      <4>1. PICK u \in Slot, t \in Slot : AssignCopy(u, t)
        BY <3>2
      <4>2. u # s
        BY <2>3, <4>1 DEF About
      <4> QED
        BY <1>3, <4>1, <4>2, AssignCopyKeeps
    <3>3. CASE \E u \in Slot : Destruct(u)
      <4>1. PICK u \in Slot : Destruct(u)
        BY <3>3
      <4>2. u # s
        BY <2>3, <4>1 DEF About
      <4> QED
        BY <1>3, <4>1, <4>2, DestructKeeps
    <3> QED
      BY <2>2, <3>1, <3>2, <3>3
  <2>4. ASSUME NEW t \in Slot, AssignCopy(s, t), variant[s].m_data = 0 \/ IsFull(variant[t])
        PROVE  typeSafeCompare(valueOf(s)', valueOf(t)')
    <3>1. /\ IsFull(variant[t]) => valueOf(s)' = valueOf(t) /\ valueOf(t)' = valueOf(t)
          /\ ~IsFull(variant[t]) /\ variant[s].m_data = 0 => UNCHANGED variantVars
      BY <1>3, <2>4, AssignCopyKeeps
    <3>2. IsFull(variant[t]) /\ valueOf(s)' = valueOf(t) /\ valueOf(t)' = valueOf(t)
      BY <2>4, <3>1
    <3>3. valueOf(t).text # "stale"
      <4>1. store[variant[t].m_data] \in StoredValues
        <5>1. variant[t].m_data \in 0 .. MaxData /\ store \in [1 .. MaxData -> StoredValues]
          BY <1>3 DEF VariantsInv
        <5> QED
          BY <3>2, <5>1, VariantsAssumption DEF IsFull
      <4> QED
        BY <3>2, <4>1, ValueTypes DEF valueOf
    <3> QED
      BY <3>2, <3>3 DEF typeSafeCompare
  <2> QED
    BY <2>1, <2>3, <2>4
<1> QED
  BY <1>1, <1>2, <1>3, PTL DEF SpecVariants, OwnsItsValue

-----------------------------------------------------------------------------
(* Settings: what is in the file, and what was heard *)

Text == {"number", "word", "empty", "two", "digits", "prefix", "long"}
Value == [type : NumberTypes \cup {"string", NoType}, num : Int, text : Text]
Line == [id : Setting \cup {"no file"}, fields : Seq(Value)]

\* The line that readVof finds.
IsFirst(lines, id, i) ==
  /\ i \in DOMAIN lines /\ isEntry(lines[i]) /\ lines[i].id = id
  /\ \A j \in DOMAIN lines : isEntry(lines[j]) /\ lines[j].id = id => i <= j

Holds(lines, id, v) ==
  \E i \in DOMAIN lines : IsFirst(lines, id, i) /\ Head(lines[i].fields) = v

LEMMA SettingValues ==
  ASSUME NEW v \in SettingValue
  PROVE  /\ v \in Value
         /\ v.text \in Text /\ (v.type \in NumberTypes => v.text = "number")
         /\ v.text = "word" => v = Str("word", NaN)
         /\ Keepable(v) => v.text \in {"number", "word"}
<1>1. \/ v \in [type : NumberTypes, num : Int, text : {"number"}]
      \/ v \in [type : {"string"}, num : {NaN}, text : {"word", "empty", "two"}]
      \/ v \in [type : {"string"}, num : Int, text : {"digits", "prefix", "long"}]
  BY SettingsAssumption
<1>2. NaN \in Int /\ "string" \notin NumberTypes
  BY DEF NaN, NumberTypes
<1>3. v \in Value /\ v.text \in Text /\ (v.type \in NumberTypes => v.text = "number")
  BY <1>1, <1>2 DEF Value, Text
<1>4. v.text = "word" => v = Str("word", NaN)
  BY <1>1 DEF Str
<1>5. Keepable(v) => v.text \in {"number", "word"}
  BY <1>3 DEF Keepable
<1> QED
  BY <1>3, <1>4, <1>5

\* What readVof returns: of the first line with fields, the first field.
LEMMA ReadFirst ==
  ASSUME NEW lines \in Seq(Line), NEW id, NEW v, Holds(lines, id, v)
  PROVE  readVof(lines, id) = v
<1> DEFINE named == {i \in DOMAIN lines : isEntry(lines[i]) /\ lines[i].id = id}
           first == CHOOSE i \in named : \A j \in named : i <= j
<1>1. PICK i \in DOMAIN lines : IsFirst(lines, id, i) /\ Head(lines[i].fields) = v
  BY DEF Holds
<1>2. i \in named /\ \A j \in named : i <= j
  BY <1>1 DEF IsFirst
<1>3. first \in named /\ \A j \in named : first <= j
  BY <1>2
<1>4. DOMAIN lines = 1 .. Len(lines) /\ \A j \in named : j \in DOMAIN lines
  BY LenProperties
<1>5. readVof(lines, id) = Head(lines[first].fields)
  BY <1>2 DEF readVof
<1> HIDE DEF first
<1>6. first \in Int /\ i \in Int /\ first <= i /\ i <= first
  BY <1>2, <1>3, <1>4
<1>7. first = i
  BY <1>6
<1> QED
  BY <1>1, <1>5, <1>7

LEMMA FieldsInSeq ==
  ASSUME NEW v \in Value
  PROVE  /\ fields(v) \in Seq(Value)
         /\ v.text \in {"number", "word"} => fields(v) = <<v>> /\ isEntry([id |-> 0, fields |-> fields(v)])
         /\ Str("word", NaN) \in Value /\ Str("empty", NaN) \in Value
<1>1. Str("word", NaN) \in Value /\ Str("empty", NaN) \in Value
  BY DEF Str, Value, Text, NaN, NumberTypes
<1>2. v.text \in Text
  BY DEF Value
<1>3. CASE v.text = "empty"
  BY <1>1, <1>3 DEF fields
<1>4. CASE v.text = "two"
  <2>1. fields(v) = <<Str("word", NaN), Str("word", NaN)>>
    BY <1>4 DEF fields
  <2> QED
    BY <1>1, <1>4, <2>1
<1>5. CASE v.text # "empty" /\ v.text # "two"
  <2>1. fields(v) = <<v>>
    BY <1>5 DEF fields
  <2>2. <<v>> # <<>> /\ <<v>> \in Seq(Value)
    OBVIOUS
  <2> QED
    BY <1>1, <2>1, <2>2 DEF isEntry
<1> QED
  BY <1>3, <1>4, <1>5

(***************************************************************************)
(* What writeVof does to the settings of a file that is there.             *)
(***************************************************************************)
LEMMA Rewritten ==
  ASSUME NEW lines \in Seq(Line), NEW id \in Setting, NEW v \in Value, lines # NoFile,
         NEW new, new = [id |-> id, fields |-> fields(v)],
         \E l \in Range(lines) : isEntry(l) /\ l.id = id
  PROVE  /\ writeVof(lines, id, v) \in Seq(Line)
         /\ \E from \in [1 .. Len(writeVof(lines, id, v)) -> 1 .. Len(lines)] :
              /\ \A j, k \in 1 .. Len(writeVof(lines, id, v)) : j < k => from[j] < from[k]
              /\ \A k \in 1 .. Len(writeVof(lines, id, v)) :
                   /\ isEntry(lines[from[k]])
                   /\ writeVof(lines, id, v)[k] =
                        IF lines[from[k]].id = id THEN new
                        ELSE [id |-> lines[from[k]].id, fields |-> <<Head(lines[from[k]].fields)>>]
              /\ \A i \in 1 .. Len(lines) : isEntry(lines[i])
                   => \E k \in 1 .. Len(writeVof(lines, id, v)) : from[k] = i
<1> DEFINE E == {l \in Range(lines) : isEntry(l)}
           entries == Select(lines, E)
           cut(l) == IF l.id = id THEN new ELSE [id |-> l.id, fields |-> <<Head(l.fields)>>]
           t == [i \in DOMAIN entries |-> cut(entries[i])]
<1>1. /\ entries \in Seq(Line \cap E) /\ Picks(entries, lines, Len(lines), E)
      /\ Range(entries) = Range(lines) \cap E
  BY SelectPicks, RangeOfSelect
<1>2. \E l \in Range(entries) : l.id = id
  BY <1>1
<1>3. writeVof(lines, id, v) = t
  BY <1>2 DEF writeVof
<1> DEFINE n == Len(entries)
<1>4. n \in Nat /\ DOMAIN entries = 1 .. n
  BY <1>1, LenProperties
<1>5. DOMAIN lines = 1 .. Len(lines) /\ \A i \in 1 .. Len(lines) : lines[i] \in Line
  BY LenProperties, ElementOfSeq
<1>6. PICK from \in [1 .. n -> 1 .. Len(lines)] :
        /\ \A j, k \in 1 .. n : j < k => from[j] < from[k]
        /\ \A k \in 1 .. n : entries[k] = lines[from[k]]
        /\ \A i \in 1 .. Len(lines) : lines[i] \in E => \E k \in 1 .. n : from[k] = i
  BY <1>1 DEF Picks
<1>7. \A k \in 1 .. n : entries[k] \in Line /\ isEntry(entries[k])
  BY <1>1, ElementOfSeq
<1> HIDE DEF entries, n
<1>8. new \in Line
  BY FieldsInSeq DEF Line
<1>9. \A k \in 1 .. n : cut(entries[k]) \in Line
  <2> TAKE k \in 1 .. n
  <2> DEFINE l == entries[k]
  <2>1. l \in Line /\ l.fields # <<>>
    BY <1>7 DEF isEntry
  <2> HIDE DEF l
  <2>2. Head(l.fields) \in Value
    <3>1. l.fields \in Seq(Value)
      BY <2>1 DEF Line
    <3> QED
      BY <2>1, <3>1, HeadTailProperties
  <2>3. <<Head(l.fields)>> \in Seq(Value)
    BY <2>2
  <2>4. [id |-> l.id, fields |-> <<Head(l.fields)>>] \in Line
    BY <2>1, <2>3 DEF Line
  <2> QED
    BY <1>8, <2>4 DEF l
<1>10. t \in Seq(Line) /\ Len(t) = n
  <2>1. t \in [1 .. n -> Line]
    BY <1>4, <1>9
  <2> HIDE DEF t
  <2>2. t \in Seq(Line)
    BY <1>4, <2>1, SeqDef
  <2>3. DOMAIN t = 1 .. n /\ DOMAIN t = 1 .. Len(t) /\ Len(t) \in Nat
    BY <2>1, <2>2, LenProperties
  <2> QED
    BY <1>4, <2>2, <2>3
<1>11. \A k \in 1 .. n : t[k] = cut(lines[from[k]]) /\ isEntry(lines[from[k]])
  BY <1>4, <1>6, <1>7
<1>12. \A i \in 1 .. Len(lines) : isEntry(lines[i]) => \E k \in 1 .. n : from[k] = i
  BY <1>5, <1>6 DEF Range
<1> HIDE DEF t, E
<1>13. /\ \A k \in 1 .. n : isEntry(lines[from[k]])
       /\ \A k \in 1 .. n : t[k] = IF lines[from[k]].id = id THEN new
                        ELSE [id |-> lines[from[k]].id, fields |-> <<Head(lines[from[k]].fields)>>]
  BY <1>11
<1>14. \E f \in [1 .. Len(t) -> 1 .. Len(lines)] :
         /\ \A j, k \in 1 .. Len(t) : j < k => f[j] < f[k]
         /\ \A k \in 1 .. Len(t) :
              /\ isEntry(lines[f[k]])
              /\ t[k] = IF lines[f[k]].id = id THEN new
                        ELSE [id |-> lines[f[k]].id, fields |-> <<Head(lines[f[k]].fields)>>]
         /\ \A i \in 1 .. Len(lines) : isEntry(lines[i]) => \E k \in 1 .. Len(t) : f[k] = i
  <2> HIDE DEF cut
  <2>1. Len(t) = n /\ from \in [1 .. Len(t) -> 1 .. Len(lines)]
    BY <1>6, <1>10
  <2>2. /\ \A j, k \in 1 .. Len(t) : j < k => from[j] < from[k]
        /\ \A i \in 1 .. Len(lines) : isEntry(lines[i]) => \E k \in 1 .. Len(t) : from[k] = i
    BY <1>6, <1>12, <2>1
  <2>3. \A k \in 1 .. Len(t) :
          /\ isEntry(lines[from[k]])
          /\ t[k] = IF lines[from[k]].id = id THEN new
                    ELSE [id |-> lines[from[k]].id, fields |-> <<Head(lines[from[k]].fields)>>]
    BY <1>13, <2>1
  <2> QED
    BY <2>1, <2>2, <2>3
<1>15. Len(t) \in Nat /\ t \in Seq(Line)
  BY <1>10, <1>4
<1> QED
  BY <1>3, <1>14, <1>15, ZenonT(30)

LEMMA NoFileIs == DOMAIN NoFile = {1} /\ NoFile[1].fields = <<>>
<1> DEFINE x == [id |-> "no file", fields |-> <<>>]
<1>1. NoFile = <<x>> /\ x.fields = <<>>
  BY DEF NoFile
<1> HIDE DEF x
<1> QED
  BY <1>1

\* A file without a line for the setting gets one more.
LEMMA Appended ==
  ASSUME NEW lines \in Seq(Line), NEW id \in Setting, NEW v \in Value,
         NEW new, new = [id |-> id, fields |-> fields(v)],
         lines = NoFile \/ ~\E l \in Range(lines) : isEntry(l) /\ l.id = id
  PROVE  /\ new \in Line
         /\ lines = NoFile => writeVof(lines, id, v) = <<new>>
         /\ lines # NoFile => writeVof(lines, id, v) = Append(lines, new)
         /\ \A i \in DOMAIN lines : ~(isEntry(lines[i]) /\ lines[i].id = id)
<1> DEFINE E == {l \in Range(lines) : isEntry(l)}
<1>1. new \in Line
  BY FieldsInSeq DEF Line
<1>2. CASE lines = NoFile
  <2>1. writeVof(lines, id, v) = <<new>>
    BY <1>2 DEF writeVof
  <2>2. \A i \in DOMAIN lines : lines[i].fields = <<>>
    BY <1>2, NoFileIs
  <2> QED
    BY <1>1, <1>2, <2>1, <2>2 DEF isEntry
<1>3. CASE lines # NoFile
  <2>1. Range(Select(lines, E)) = Range(lines) \cap E
    BY RangeOfSelect
  <2>2. ~\E l \in Range(Select(lines, E)) : l.id = id
    BY <1>3, <2>1
  <2>3. writeVof(lines, id, v) = Append(lines, new)
    BY <1>3, <2>2 DEF writeVof
  <2>4. \A i \in DOMAIN lines : ~(isEntry(lines[i]) /\ lines[i].id = id)
    BY <1>3 DEF Range
  <2> QED
    BY <1>1, <1>3, <2>3, <2>4
<1> QED
  BY <1>2, <1>3

\* The setting has its line then, and it is the first.
LEMMA WrittenHolds ==
  ASSUME NEW lines \in Seq(Line), NEW id \in Setting, NEW v \in Value,
         v.text \in {"number", "word"}
  PROVE  Holds(writeVof(lines, id, v), id, v)
<1> DEFINE new == [id |-> id, fields |-> fields(v)]
           t == writeVof(lines, id, v)
<1>1. new.id = id /\ isEntry(new) /\ Head(new.fields) = v
  <2>1. <<v>> # <<>> /\ Head(<<v>>) = v
    OBVIOUS
  <2>2. fields(v) = <<v>>
    BY FieldsInSeq
  <2> QED
    BY <2>1, <2>2 DEF isEntry
<1> DEFINE found == \E l \in Range(lines) : isEntry(l) /\ l.id = id
<1>2. CASE lines # NoFile /\ found
  <2>0. new = [id |-> id, fields |-> fields(v)]
    OBVIOUS
  <2> HIDE DEF new
  <2>1. t \in Seq(Line) /\
        \E from \in [1 .. Len(t) -> 1 .. Len(lines)] :
              /\ \A j, k \in 1 .. Len(t) : j < k => from[j] < from[k]
              /\ \A k \in 1 .. Len(t) :
                   /\ isEntry(lines[from[k]])
                   /\ t[k] = IF lines[from[k]].id = id THEN new
                        ELSE [id |-> lines[from[k]].id, fields |-> <<Head(lines[from[k]].fields)>>]
              /\ \A i \in 1 .. Len(lines) : isEntry(lines[i])
                   => \E k \in 1 .. Len(t) : from[k] = i
    BY <1>2, <2>0, Rewritten
  <2> HIDE DEF t, new
  <2>2. PICK from \in [1 .. Len(t) -> 1 .. Len(lines)] :
          /\ \A k \in 1 .. Len(t) :
               /\ isEntry(lines[from[k]])
               /\ t[k] = IF lines[from[k]].id = id THEN new
                    ELSE [id |-> lines[from[k]].id, fields |-> <<Head(lines[from[k]].fields)>>]
          /\ \A i \in 1 .. Len(lines) : isEntry(lines[i])
               => \E k \in 1 .. Len(t) : from[k] = i
    BY <2>1
  <2>3. DOMAIN t = 1 .. Len(t) /\ DOMAIN lines = 1 .. Len(lines) /\ Len(t) \in Nat
    BY <2>1, LenProperties
  <2> DEFINE named == {k \in 1 .. Len(t) : t[k].id = id}
  <2>4. PICK i \in 1 .. Len(lines) : isEntry(lines[i]) /\ lines[i].id = id
    BY <1>2, <2>3 DEF Range
  <2>5. PICK k \in 1 .. Len(t) : from[k] = i
    BY <2>2, <2>4
  <2>6. named # {} /\ named \subseteq Nat
    BY <1>1, <2>2, <2>3, <2>4, <2>5
  <2>7. PICK m \in named : \A j \in named : m <= j
    BY <2>6, LeastElement
  <2>8. lines[from[m]].id = id /\ t[m] = new
    <3>1. t[m].id = id /\ m \in 1 .. Len(t)
      BY <2>7
    <3>2. CASE lines[from[m]].id # id
      <4>1. t[m] = [id |-> lines[from[m]].id, fields |-> <<Head(lines[from[m]].fields)>>]
        BY <2>2, <3>1, <3>2
      <4> QED
        BY <3>1, <3>2, <4>1
    <3> QED
      BY <2>2, <3>1, <3>2
  <2>9. IsFirst(t, id, m)
    BY <1>1, <2>3, <2>7, <2>8 DEF IsFirst
  <2>10. m \in DOMAIN t
    BY <2>3, <2>7
  <2>11. Holds(t, id, v)
    BY <1>1, <2>8, <2>9, <2>10 DEF Holds
  <2> QED
    BY <2>11 DEF t
<1>3. CASE ~(lines # NoFile /\ found)
  <2>1. /\ new \in Line /\ (lines = NoFile => t = <<new>>)
        /\ lines # NoFile => t = Append(lines, new)
        /\ \A i \in DOMAIN lines : ~(isEntry(lines[i]) /\ lines[i].id = id)
    BY <1>3, Appended
  <2> HIDE DEF t, new
  <2>2. CASE lines = NoFile
    <3>1. t = <<new>>
      BY <2>1, <2>2
    <3>2. DOMAIN t = {1} /\ t[1] = new
      BY <3>1
    <3>3. IsFirst(t, id, 1)
      BY <1>1, <3>2 DEF IsFirst
    <3>4. Holds(t, id, v)
      BY <1>1, <3>2, <3>3 DEF Holds
    <3> QED
      BY <3>4 DEF t
  <2>3. CASE lines # NoFile
    <3> DEFINE n == Len(lines)
    <3>1. /\ t \in Seq(Line) /\ Len(t) = n + 1 /\ t[n + 1] = new
          /\ \A i \in 1 .. n : t[i] = lines[i]
      BY <2>1, <2>3, AppendProperties
    <3>2. n \in Nat /\ DOMAIN lines = 1 .. n /\ DOMAIN t = 1 .. Len(t)
      BY <3>1, LenProperties
    <3> HIDE DEF n
    <3>3. DOMAIN t = 1 .. n \cup {n + 1} /\ n + 1 \in DOMAIN t
      BY <3>1, <3>2
    <3>4. IsFirst(t, id, n + 1)
      BY <1>1, <2>1, <3>1, <3>2, <3>3 DEF IsFirst
    <3>5. Holds(t, id, v)
      BY <1>1, <3>1, <3>3, <3>4 DEF Holds
    <3> QED
      BY <3>5 DEF t
  <2> QED
    BY <2>2, <2>3
<1> QED
  BY <1>2, <1>3

\* The others keep theirs.
LEMMA OthersHold ==
  ASSUME NEW lines \in Seq(Line), NEW id \in Setting, NEW v \in Value,
         NEW o \in Setting, o # id, NEW w, Holds(lines, o, w)
  PROVE  Holds(writeVof(lines, id, v), o, w)
<1> DEFINE new == [id |-> id, fields |-> fields(v)]
           t == writeVof(lines, id, v)
           found == \E l \in Range(lines) : isEntry(l) /\ l.id = id
<1>0. PICK i \in DOMAIN lines : IsFirst(lines, o, i) /\ Head(lines[i].fields) = w
  BY DEF Holds
<1>1. /\ DOMAIN lines = 1 .. Len(lines) /\ Len(lines) \in Nat /\ i \in 1 .. Len(lines)
      /\ isEntry(lines[i]) /\ lines[i].id = o
      /\ \A j \in 1 .. Len(lines) : isEntry(lines[j]) /\ lines[j].id = o => i <= j
  BY <1>0, LenProperties DEF IsFirst
<1>2. new.id = id
  OBVIOUS
<1>3. CASE lines # NoFile /\ found
  <2>1. t \in Seq(Line) /\
        \E from \in [1 .. Len(t) -> 1 .. Len(lines)] :
              /\ \A j, k \in 1 .. Len(t) : j < k => from[j] < from[k]
              /\ \A k \in 1 .. Len(t) :
                   /\ isEntry(lines[from[k]])
                   /\ t[k] = IF lines[from[k]].id = id THEN new
                        ELSE [id |-> lines[from[k]].id, fields |-> <<Head(lines[from[k]].fields)>>]
              /\ \A j \in 1 .. Len(lines) : isEntry(lines[j])
                   => \E k \in 1 .. Len(t) : from[k] = j
    BY <1>3, Rewritten
  <2>10. new.id = id
    OBVIOUS
  <2> HIDE DEF t, new
  <2>2. PICK from \in [1 .. Len(t) -> 1 .. Len(lines)] :
          /\ \A j, k \in 1 .. Len(t) : j < k => from[j] < from[k]
          /\ \A k \in 1 .. Len(t) :
               /\ isEntry(lines[from[k]])
               /\ t[k] = IF lines[from[k]].id = id THEN new
                    ELSE [id |-> lines[from[k]].id, fields |-> <<Head(lines[from[k]].fields)>>]
          /\ \A j \in 1 .. Len(lines) : isEntry(lines[j])
               => \E k \in 1 .. Len(t) : from[k] = j
    BY <2>1
  <2>3. DOMAIN t = 1 .. Len(t) /\ Len(t) \in Nat
    BY <2>1, LenProperties
  <2>4. PICK k \in 1 .. Len(t) : from[k] = i
    BY <1>1, <2>2
  <2>5. t[k] = [id |-> o, fields |-> <<w>>]
    BY <1>0, <1>1, <2>2, <2>4
  <2>6. t[k].id = o /\ isEntry(t[k]) /\ Head(t[k].fields) = w
    <3>1. <<w>> # <<>> /\ Head(<<w>>) = w
      OBVIOUS
    <3> QED
      BY <2>5, <3>1 DEF isEntry
  <2>7. \A j \in 1 .. Len(t) : t[j].id = o => k <= j
    <3> TAKE j \in 1 .. Len(t)
    <3> HAVE t[j].id = o
    <3>1. lines[from[j]].id = o /\ isEntry(lines[from[j]]) /\ from[j] \in 1 .. Len(lines)
      <4>1. CASE lines[from[j]].id = id
        BY <2>2, <2>10, <4>1
      <4>2. CASE lines[from[j]].id # id
        <5>1. t[j] = [id |-> lines[from[j]].id, fields |-> <<Head(lines[from[j]].fields)>>]
          BY <2>2, <4>2
        <5>2. t[j].id = lines[from[j]].id
          BY <5>1
        <5>3. isEntry(lines[from[j]]) /\ from[j] \in 1 .. Len(lines)
          BY <2>2
        <5> QED
          BY <5>2, <5>3
      <4> QED
        BY <4>1, <4>2
    <3>2. i <= from[j]
      BY <1>1, <3>1
    <3>3. CASE j < k
      <4>1. from[j] < from[k]
        BY <2>2, <3>3
      <4>2. from[j] \in Int /\ i \in Int
        BY <1>1, <3>1
      <4> QED
        BY <2>4, <3>2, <4>1, <4>2
    <3> QED
      BY <2>3, <3>3
  <2>8. IsFirst(t, o, k)
    BY <2>3, <2>6, <2>7 DEF IsFirst
  <2>9. Holds(t, o, w)
    BY <2>3, <2>6, <2>8 DEF Holds
  <2> QED
    BY <2>9 DEF t
<1>4. CASE ~(lines # NoFile /\ found)
  <2>1. /\ new \in Line /\ (lines # NoFile => t = Append(lines, new))
    BY <1>4, Appended
  <2> HIDE DEF t, new
  <2>2. lines # NoFile
    BY <1>0, <1>1, NoFileIs DEF isEntry
  <2> DEFINE n == Len(lines)
  <2>3. /\ t \in Seq(Line) /\ Len(t) = n + 1 /\ t[n + 1] = new
        /\ \A j \in 1 .. n : t[j] = lines[j]
    BY <2>1, <2>2, AppendProperties
  <2>4. DOMAIN t = 1 .. Len(t)
    BY <2>3, LenProperties
  <2>5. n \in Nat /\ i \in 1 .. n
    BY <1>1
  <2>6. \A j \in 1 .. n : isEntry(lines[j]) /\ lines[j].id = o => i <= j
    BY <1>1
  <2> HIDE DEF n
  <2>7. DOMAIN t = 1 .. n \cup {n + 1} /\ i \in DOMAIN t
    BY <2>3, <2>4, <2>5
  <2>8. IsFirst(t, o, i)
    BY <1>1, <1>2, <2>3, <2>5, <2>6, <2>7 DEF IsFirst
  <2>9. Holds(t, o, w)
    BY <1>0, <2>3, <2>5, <2>7, <2>8 DEF Holds
  <2> QED
    BY <2>9 DEF t
<1> QED
  BY <1>3, <1>4

LEMMA WriteTyped ==
  ASSUME NEW lines \in Seq(Line), NEW id \in Setting, NEW v \in Value
  PROVE  writeVof(lines, id, v) \in Seq(Line)
<1> DEFINE new == [id |-> id, fields |-> fields(v)]
<1>1. CASE lines # NoFile /\ \E l \in Range(lines) : isEntry(l) /\ l.id = id
  BY <1>1, Rewritten
<1>2. CASE ~(lines # NoFile /\ \E l \in Range(lines) : isEntry(l) /\ l.id = id)
  <2>1. /\ new \in Line
        /\ lines = NoFile => writeVof(lines, id, v) = <<new>>
        /\ lines # NoFile => writeVof(lines, id, v) = Append(lines, new)
    BY <1>2, Appended
  <2> HIDE DEF new
  <2>2. <<new>> \in Seq(Line) /\ Append(lines, new) \in Seq(Line)
    BY <2>1, AppendProperties
  <2> QED
    BY <2>1, <2>2
<1> QED
  BY <1>1, <1>2

\* What is read is a value.
LEMMA ReadTyped ==
  ASSUME NEW lines \in Seq(Line), NEW id \in Setting
  PROVE  readVof(lines, id) \in Value
<1> DEFINE named == {i \in DOMAIN lines : isEntry(lines[i]) /\ lines[i].id = id}
           first == CHOOSE i \in named : \A j \in named : i <= j
<1>1. DOMAIN lines = 1 .. Len(lines) /\ Len(lines) \in Nat
  BY LenProperties
<1>2. CASE named = {}
  BY <1>2, FieldsInSeq DEF readVof, Str, Value, Text, NaN, NumberTypes
<1>3. CASE named # {}
  <2>1. named \subseteq Nat
    BY <1>1
  <2>2. \E i \in named : \A j \in named : i <= j
    BY <1>3, <2>1, LeastElement
  <2>3. first \in named
    BY <2>2
  <2>4. readVof(lines, id) = Head(lines[first].fields)
    BY <1>3 DEF readVof
  <2> HIDE DEF first
  <2>5. lines[first] \in Line /\ lines[first].fields # <<>>
    BY <1>1, <2>3, ElementOfSeq DEF isEntry
  <2>6. lines[first].fields \in Seq(Value)
    BY <2>5 DEF Line
  <2> QED
    BY <2>4, <2>5, <2>6, HeadTailProperties
<1> QED
  BY <1>2, <1>3

\* Files have lines of settings.
FilesInv == vof \in [Directory -> Seq(Line)] /\ cwd \in Directory

LEMMA FilesInit == InitSettings => FilesInv
<1> SUFFICES ASSUME InitSettings
             PROVE  FilesInv
  OBVIOUS
<1>1. vof = [d \in Directory |-> NoFile] /\ cwd = "program"
  BY DEF InitSettings
<1>2. NoFile \in Seq(Line)
  <2> DEFINE x == [id |-> "no file", fields |-> <<>>]
  <2>1. x \in Line
    BY DEF Line
  <2>2. NoFile = <<x>>
    BY DEF NoFile
  <2> HIDE DEF x
  <2> QED
    BY <2>1, <2>2
<1> QED
  BY <1>1, <1>2 DEF FilesInv, Directory

LEMMA FilesStep ==
  ASSUME FilesInv, [NextSettings]_settingVars
  PROVE  FilesInv'
<1>1. CASE \E id \in Setting, v \in SettingValue : SetUnknown(id, v) \/ SetKnown(id, v)
  <2>1. PICK id \in Setting, v \in SettingValue : SetUnknown(id, v) \/ SetKnown(id, v)
    BY <1>1
  <2>2. vof' = [vof EXCEPT ![cwd] = writeVof(vof[cwd], id, v)] /\ cwd' = cwd
    BY <2>1 DEF SetUnknown, SetKnown, written
  <2>3. v \in Value /\ vof[cwd] \in Seq(Line)
    BY SettingValues DEF FilesInv
  <2>4. writeVof(vof[cwd], id, v) \in Seq(Line)
    BY <2>3, WriteTyped
  <2> QED
    BY <2>2, <2>4 DEF FilesInv
<1>2. CASE vof' = vof /\ cwd' \in Directory
  BY <1>2 DEF FilesInv
<1>3. cwd \in Directory
  BY DEF FilesInv
<1>4. \/ \E id \in Setting, v \in SettingValue : SetUnknown(id, v) \/ SetKnown(id, v)
      \/ vof' = vof /\ cwd' \in Directory
  <2>1. \A id \in Setting : Watch(id) => vof' = vof /\ cwd' = cwd
    BY DEF Watch
  <2>2. \A id \in Setting, c \in Connections : Unwatch(id, c) => vof' = vof /\ cwd' = cwd
    BY DEF Unwatch
  <2>3. \A id \in Setting, v \in SettingValue : SetSame(id, v) => vof' = vof /\ cwd' = cwd
    BY DEF SetSame
  <2>4. Notify => vof' = vof /\ cwd' = cwd
    BY DEF Notify
  <2>5. \A d \in Directory : Restart(d) => vof' = vof /\ cwd' = d
    BY DEF Restart
  <2>6. UNCHANGED settingVars => vof' = vof /\ cwd' = cwd
    BY DEF settingVars
  <2> QED
    BY <1>3, <2>1, <2>2, <2>3, <2>4, <2>5, <2>6 DEF NextSettings
<1> QED
  BY <1>1, <1>2, <1>4

SettingRecords ==
  [known : BOOLEAN, value : Value, next : 0 .. MaxConnections, callbacks : SUBSET Connections]
Notifications == [id : Setting, value : Value, at : 0 .. MaxConnections]

\* Connection c was made and ended; no other gets its number.
Gone(id, c) == c \notin m_settings[id].callbacks /\ c <= m_settings[id].next

\* Those a notification still has before it are told to have been overtaken.
OvertakenAhead(k) ==
  \A c \in Connections :
    c > frames[k].at => c \in overtaken[frames[k].id] \/ Gone(frames[k].id, c)

\* The notification of the value the setting has.
Newest(k) ==
  /\ frames[k].value = m_settings[frames[k].id].value
  /\ \A j \in 1 .. Len(frames) : j > k => frames[j].id # frames[k].id

WatchTyped ==
  /\ m_settings \in [Setting -> SettingRecords]
  /\ frames \in Seq(Notifications)
  /\ heard \in [Setting -> [Connections -> Value]]
  /\ overtaken \in [Setting -> SUBSET Connections]
  /\ \A id \in Setting :
       /\ \A c \in m_settings[id].callbacks : c <= m_settings[id].next
       /\ ~m_settings[id].known => m_settings[id] = Unknown

\* Every notification that is under way is of the newest value, or those it has
\* before it were overtaken; and who has not heard the value will, or was.
WatchInv ==
  /\ WatchTyped
  /\ \A k \in 1 .. Len(frames) :
       /\ m_settings[frames[k].id].known
       /\ Newest(k) \/ OvertakenAhead(k)
  /\ \A id \in Setting : \A c \in m_settings[id].callbacks :
       \/ heard[id][c] = m_settings[id].value
       \/ c \in overtaken[id]
       \/ \E k \in 1 .. Len(frames) : frames[k].id = id /\ c > frames[k].at /\ Newest(k)

LEMMA ConnectionsBound == MaxConnections \in Nat
BY SettingsAssumption

LEMMA WatchInit == InitSettings => WatchInv
<1> SUFFICES ASSUME InitSettings
             PROVE  WatchInv
  OBVIOUS
<1>1. /\ m_settings = [id \in Setting |-> Unknown] /\ frames = <<>>
      /\ heard = [id \in Setting |-> [c \in Connections |-> NullValue]]
      /\ overtaken = [id \in Setting |-> {}]
  BY DEF InitSettings
<1>2. NullValue \in Value
  BY DEF NullValue, Value, Text, NaN, NoType, NumberTypes
<1>3. Unknown \in SettingRecords /\ ~Unknown.known /\ Unknown.callbacks = {}
  <2>1. 0 \in 0 .. MaxConnections /\ {} \in SUBSET Connections
    BY ConnectionsBound
  <2> QED
    BY <1>2, <2>1 DEF Unknown, SettingRecords
<1>4. frames \in Seq(Notifications) /\ Len(frames) = 0
  BY <1>1
<1>5. WatchTyped
  BY <1>1, <1>2, <1>3, <1>4 DEF WatchTyped
<1> QED
  BY <1>1, <1>3, <1>4, <1>5 DEF WatchInv

LEMMA LoadedTyped ==
  ASSUME WatchInv, FilesInv, NEW id \in Setting
  PROVE  /\ loaded(id) \in SettingRecords /\ loaded(id).known
         /\ m_settings[id].known => loaded(id) = m_settings[id]
         /\ ~m_settings[id].known => loaded(id).next = 0 /\ loaded(id).callbacks = {}
<1>1. vof["program"] \in Seq(Line)
  BY DEF FilesInv, Directory
<1> DEFINE v == readVof(vof["program"], id)
           w == fromString(v.text, v.num)
<1>2. v \in Value
  BY <1>1, ReadTyped
<1> HIDE DEF v
<1>3. w \in Value
  BY <1>2 DEF fromString, Num, Str, Value, Text, NaN, NumberTypes
<1>4. loaded(id) = IF m_settings[id].known THEN m_settings[id] ELSE Known(w)
  BY DEF loaded, v
<1> HIDE DEF w
<1>5. m_settings[id] \in SettingRecords
  BY DEF WatchInv, WatchTyped
<1>6. Known(w) \in SettingRecords /\ Known(w).known /\ Known(w).next = 0 /\ Known(w).callbacks = {}
  <2>1. 0 \in 0 .. MaxConnections /\ {} \in SUBSET Connections
    BY ConnectionsBound
  <2> QED
    BY <1>3, <2>1 DEF Known, SettingRecords
<1> QED
  BY <1>4, <1>5, <1>6

LEMMA NotificationTypes ==
  ASSUME WatchInv
  PROVE  /\ Len(frames) \in Nat /\ DOMAIN frames = 1 .. Len(frames)
         /\ \A k \in 1 .. Len(frames) :
              /\ frames[k] \in Notifications /\ frames[k].id \in Setting
              /\ frames[k].at \in 0 .. MaxConnections
<1>1. frames \in Seq(Notifications)
  BY DEF WatchInv, WatchTyped
<1>2. \A k \in 1 .. Len(frames) : frames[k] \in Notifications
  BY <1>1, ElementOfSeq
<1> QED
  BY <1>1, <1>2, LenProperties DEF Notifications

(***************************************************************************)
(* One setting changes, but not its value, while notifications go on.      *)
(***************************************************************************)
LEMMA SettingChanges ==
  ASSUME WatchInv, NEW id \in Setting, NEW q \in SettingRecords, q.known,
         m_settings[id].known => q.value = m_settings[id].value,
         \A c \in q.callbacks : c <= q.next,
         frames' = frames, m_settings' = [m_settings EXCEPT ![id] = q],
         heard' \in [Setting -> [Connections -> Value]],
         overtaken' \in [Setting -> SUBSET Connections],
         \A o \in Setting : o # id => heard'[o] = heard[o] /\ overtaken'[o] = overtaken[o],
         m_settings[id].known =>
           \A c \in Connections : c \in overtaken[id] \/ Gone(id, c)
             => c \in overtaken'[id] \/ (c \notin q.callbacks /\ c <= q.next),
         \A c \in q.callbacks : heard'[id][c] = q.value \/
           /\ m_settings[id].known /\ c \in m_settings[id].callbacks
           /\ heard'[id][c] = heard[id][c]
           /\ c \in overtaken[id] => c \in overtaken'[id]
  PROVE  WatchInv'
<1> DEFINE n == Len(frames)
<1>1. /\ n \in Nat /\ frames \in Seq(Notifications) /\ m_settings \in [Setting -> SettingRecords]
      /\ \A k \in 1 .. n : frames[k].id \in Setting /\ m_settings[frames[k].id].known
  BY NotificationTypes DEF WatchInv, WatchTyped
<1>2. /\ m_settings' \in [Setting -> SettingRecords] /\ m_settings'[id] = q
      /\ \A o \in Setting : o # id => m_settings'[o] = m_settings[o]
  BY <1>1
<1>3. \A k \in 1 .. n : m_settings'[frames[k].id].known
                        /\ m_settings'[frames[k].id].value = m_settings[frames[k].id].value
  <2> TAKE k \in 1 .. n
  <2>1. CASE frames[k].id = id
    BY <1>1, <1>2, <2>1
  <2>2. CASE frames[k].id # id
    BY <1>1, <1>2, <2>2
  <2> QED
    BY <2>1, <2>2
<1>4. \A k \in 1 .. n : Newest(k) => Newest(k)'
  BY <1>3 DEF Newest
<1>5. ASSUME NEW o \in Setting, NEW c \in Connections, m_settings[o].known,
             c \in overtaken[o] \/ Gone(o, c)
      PROVE  c \in overtaken'[o] \/ Gone(o, c)'
  <2>1. CASE o = id
    <3>1. c \in overtaken'[id] \/ (c \notin q.callbacks /\ c <= q.next)
      BY <1>5, <2>1
    <3> QED
      BY <1>2, <2>1, <3>1 DEF Gone
  <2>2. CASE o # id
    BY <1>2, <1>5, <2>2 DEF Gone
  <2> QED
    BY <2>1, <2>2
<1>9. ASSUME NEW k \in 1 .. n, OvertakenAhead(k)
      PROVE  OvertakenAhead(k)'
  <2>1. frames[k].id \in Setting /\ m_settings[frames[k].id].known
    BY <1>1
  <2>2. \A o \in Setting : m_settings[o].known /\ o = frames[k].id =>
          \A c \in Connections : c > frames[k].at => c \in overtaken'[o] \/ Gone(o, c)'
    BY <1>5, <1>9 DEF OvertakenAhead
  <2>3. frames'[k].id = frames[k].id /\ frames'[k].at = frames[k].at
    OBVIOUS
  <2> QED
    BY <2>1, <2>2, <2>3 DEF OvertakenAhead, Gone
<1>6. WatchTyped'
  BY <1>1, <1>2 DEF WatchTyped, WatchInv
<1>7. \A k \in 1 .. n : m_settings'[frames[k].id].known /\ (Newest(k)' \/ OvertakenAhead(k)')
  BY <1>3, <1>4, <1>9 DEF WatchInv
<1>8. ASSUME NEW o \in Setting, NEW c \in m_settings'[o].callbacks
      PROVE  \/ heard'[o][c] = m_settings'[o].value
             \/ c \in overtaken'[o]
             \/ \E k \in 1 .. n : frames[k].id = o /\ c > frames[k].at /\ Newest(k)'
  <2>1. ASSUME c \in m_settings[o].callbacks
        PROVE  \/ heard[o][c] = m_settings[o].value
               \/ c \in overtaken[o]
               \/ \E k \in 1 .. n : frames[k].id = o /\ c > frames[k].at /\ Newest(k)'
    BY <1>4, <2>1 DEF WatchInv
  <2>2. CASE o = id
    BY <1>2, <2>1, <2>2, <1>8
  <2>3. CASE o # id
    BY <1>2, <2>1, <2>3, <1>8
  <2> QED
    BY <2>2, <2>3
<1> QED
  BY <1>6, <1>7, <1>8 DEF WatchInv

LEMMA WatchKeeps ==
  ASSUME WatchInv, FilesInv, NEW id \in Setting, Watch(id)
  PROVE  WatchInv'
<1> DEFINE s == loaded(id)  c == s.next + 1
           q == [s EXCEPT !.next = s.next + 1, !.callbacks = s.callbacks \cup {s.next + 1}]
<1>1. /\ s \in SettingRecords /\ s.known
      /\ m_settings[id].known => s = m_settings[id]
      /\ ~m_settings[id].known => s.next = 0 /\ s.callbacks = {}
  BY LoadedTyped
<1>2. /\ s.next < MaxConnections /\ m_settings' = [m_settings EXCEPT ![id] = q]
      /\ heard' = [heard EXCEPT ![id][s.next + 1] = s.value]
      /\ frames' = frames /\ overtaken' = overtaken
  BY DEF Watch
<1>3. /\ heard \in [Setting -> [Connections -> Value]]
      /\ overtaken \in [Setting -> SUBSET Connections]
      /\ \A d \in m_settings[id].callbacks : d <= m_settings[id].next
  BY DEF WatchInv, WatchTyped
<1> HIDE DEF s
<1>4. /\ s.next \in 0 .. MaxConnections /\ s.callbacks \in SUBSET Connections
      /\ s.value \in Value
  BY <1>1 DEF SettingRecords
<1>5. /\ c \in 1 .. MaxConnections /\ c \in Connections /\ c = s.next + 1
  BY <1>2, <1>4, ConnectionsBound DEF Connections
<1>6. s.callbacks \cup {c} \in SUBSET Connections
  BY <1>4, <1>5
<1>7. q = [s EXCEPT !.next = c, !.callbacks = s.callbacks \cup {c}]
  OBVIOUS
<1> HIDE DEF q, c
<1>8. /\ q \in SettingRecords /\ q.known /\ q.value = s.value /\ q.next = c
      /\ q.callbacks = s.callbacks \cup {c}
  <2>1. c \in 0 .. MaxConnections
    BY <1>5
  <2> QED
    BY <1>1, <1>6, <1>7, <2>1 DEF SettingRecords
<1>9. \A d \in s.callbacks : d <= s.next /\ d \in Nat
  <2>1. \A d \in s.callbacks : d \in Nat
    BY <1>4 DEF Connections
  <2> QED
    BY <1>1, <1>3, <2>1
<1>10. \A d \in s.callbacks : d # c /\ d <= c
  BY <1>4, <1>5, <1>9
<1>11. /\ heard' \in [Setting -> [Connections -> Value]] /\ heard'[id][c] = s.value
       /\ \A d \in Connections : d # c => heard'[id][d] = heard[id][d]
       /\ \A o \in Setting : o # id => heard'[o] = heard[o]
  <2>1. heard' = [heard EXCEPT ![id] = [heard[id] EXCEPT ![c] = s.value]]
    BY <1>2, <1>3, <1>5
  <2> QED
    BY <1>3, <1>4, <1>5, <2>1
<1>12. m_settings[id].known =>
         \A d \in Connections : d \in overtaken[id] \/ Gone(id, d)
            => d \in overtaken'[id] \/ (d \notin q.callbacks /\ d <= q.next)
  <2> SUFFICES ASSUME m_settings[id].known, NEW d \in Connections, Gone(id, d)
               PROVE  d \notin q.callbacks /\ d <= q.next
    BY <1>2
  <2>1. d \notin s.callbacks /\ d <= s.next /\ d \in Nat
    BY <1>1 DEF Gone, Connections
  <2> QED
    BY <1>4, <1>5, <1>8, <2>1
<1>13. \A d \in q.callbacks : heard'[id][d] = q.value \/
           /\ m_settings[id].known /\ d \in m_settings[id].callbacks
           /\ heard'[id][d] = heard[id][d]
           /\ d \in overtaken[id] => d \in overtaken'[id]
  <2> TAKE d \in q.callbacks
  <2>1. CASE d = c
    BY <1>8, <1>11, <2>1
  <2>2. CASE d # c
    <3>1. d \in s.callbacks /\ d \in Connections
      BY <1>4, <1>8, <2>2
    <3>2. m_settings[id].known /\ d \in m_settings[id].callbacks
      BY <1>1, <3>1
    <3> QED
      BY <1>2, <1>11, <2>2, <3>1, <3>2
  <2> QED
    BY <2>1, <2>2
<1>14. \A d \in q.callbacks : d <= q.next
  BY <1>5, <1>8, <1>10
<1>15. m_settings[id].known => q.value = m_settings[id].value
  BY <1>1, <1>8
<1> QED
  BY <1>2, <1>3, <1>8, <1>11, <1>12, <1>13, <1>14, <1>15, SettingChanges

LEMMA UnwatchKeeps ==
  ASSUME WatchInv, NEW id \in Setting, NEW c \in Connections, Unwatch(id, c)
  PROVE  WatchInv'
<1> DEFINE s == m_settings[id]
           q == [s EXCEPT !.callbacks = s.callbacks \ {c}]
<1>1. /\ c \in s.callbacks /\ frames' = frames
      /\ m_settings' = [m_settings EXCEPT ![id].callbacks = @ \ {c}]
      /\ heard' = [heard EXCEPT ![id][c] = NullValue]
      /\ overtaken' = [overtaken EXCEPT ![id] = @ \ {c}]
  BY DEF Unwatch
<1>2. /\ heard \in [Setting -> [Connections -> Value]] /\ s \in SettingRecords
      /\ overtaken \in [Setting -> SUBSET Connections]
      /\ m_settings \in [Setting -> SettingRecords]
      /\ \A d \in s.callbacks : d <= s.next
  BY DEF WatchInv, WatchTyped
<1>3. m_settings' = [m_settings EXCEPT ![id] = q]
  BY <1>1, <1>2
<1>4. s.known
  <2>1. ~s.known => s = Unknown
    BY DEF WatchInv, WatchTyped
  <2> QED
    BY <1>1, <2>1 DEF Unknown
<1> HIDE DEF s
<1>5. /\ q \in SettingRecords /\ q.known /\ q.value = s.value /\ q.next = s.next
      /\ q.callbacks = s.callbacks \ {c}
  <2>1. s.callbacks \ {c} \in SUBSET Connections
    BY <1>2 DEF SettingRecords
  <2> QED
    BY <1>2, <1>4, <2>1 DEF SettingRecords
<1> HIDE DEF q
<1>6. NullValue \in Value
  BY DEF NullValue, Value, Text, NaN, NoType, NumberTypes
<1>7. /\ heard' \in [Setting -> [Connections -> Value]]
      /\ \A d \in Connections : d # c => heard'[id][d] = heard[id][d]
      /\ \A o \in Setting : o # id => heard'[o] = heard[o]
  <2>1. heard' = [heard EXCEPT ![id] = [heard[id] EXCEPT ![c] = NullValue]]
    BY <1>1, <1>2
  <2> QED
    BY <1>2, <1>6, <2>1
<1>8. /\ overtaken' \in [Setting -> SUBSET Connections]
      /\ overtaken'[id] = overtaken[id] \ {c}
      /\ \A o \in Setting : o # id => overtaken'[o] = overtaken[o]
  <2>1. overtaken[id] \ {c} \in SUBSET Connections
    BY <1>2
  <2> QED
    BY <1>1, <1>2, <2>1
<1>9. \A d \in Connections : d \in overtaken[id] \/ Gone(id, d)
            => d \in overtaken'[id] \/ (d \notin q.callbacks /\ d <= q.next)
  <2>1. c <= s.next
    BY <1>1, <1>2
  <2> QED
    BY <1>5, <1>8, <2>1 DEF Gone, s
<1>10. \A d \in q.callbacks : heard'[id][d] = q.value \/
           /\ m_settings[id].known /\ d \in m_settings[id].callbacks
           /\ heard'[id][d] = heard[id][d]
           /\ d \in overtaken[id] => d \in overtaken'[id]
  <2> TAKE d \in q.callbacks
  <2>1. d # c /\ d \in s.callbacks /\ d \in Connections
    BY <1>2, <1>5 DEF SettingRecords
  <2> QED
    BY <1>4, <1>7, <1>8, <2>1 DEF s
<1>11. \A d \in q.callbacks : d <= q.next
  BY <1>2, <1>5
<1>12. m_settings[id].known => q.value = m_settings[id].value
  BY <1>5 DEF s
<1> QED
  BY <1>1, <1>3, <1>5, <1>7, <1>8, <1>9, <1>10, <1>11, <1>12, SettingChanges

LEMMA SetUnknownKeeps ==
  ASSUME WatchInv, NEW id \in Setting, NEW v \in SettingValue, SetUnknown(id, v)
  PROVE  WatchInv'
<1> DEFINE q == Known(v)
<1>1. /\ ~m_settings[id].known /\ frames' = frames /\ heard' = heard /\ overtaken' = overtaken
      /\ m_settings' = [m_settings EXCEPT ![id] = q]
  BY DEF SetUnknown
<1>2. /\ heard \in [Setting -> [Connections -> Value]]
      /\ overtaken \in [Setting -> SUBSET Connections]
  BY DEF WatchInv, WatchTyped
<1>3. q \in SettingRecords /\ q.known /\ q.callbacks = {}
  <2>1. 0 \in 0 .. MaxConnections /\ {} \in SUBSET Connections /\ v \in Value
    BY ConnectionsBound, SettingValues
  <2> QED
    BY <2>1 DEF Known, SettingRecords
<1> HIDE DEF q
<1> QED
  BY <1>1, <1>2, <1>3, SettingChanges

(***************************************************************************)
(* A setting that is known gets another value.                             *)
(***************************************************************************)
LEMMA SetKnownKeeps ==
  ASSUME WatchInv, NEW id \in Setting, NEW v \in SettingValue, SetKnown(id, v)
  PROVE  WatchInv'
<1> DEFINE n == Len(frames)  f == [id |-> id, value |-> v, at |-> 0]
           s == m_settings[id]
           q == [s EXCEPT !.value = v]
           ahead == {c \in Connections : \E g \in Range(frames) : g.id = id /\ c > g.at}
<1>1. /\ s.known /\ frames' = Append(frames, f) /\ heard' = heard
      /\ m_settings' = [m_settings EXCEPT ![id].value = v]
      /\ overtaken' = [overtaken EXCEPT ![id] = ahead]
  BY DEF SetKnown
<1>2. /\ n \in Nat /\ frames \in Seq(Notifications)
      /\ DOMAIN frames = 1 .. n
      /\ heard \in [Setting -> [Connections -> Value]]
      /\ overtaken \in [Setting -> SUBSET Connections]
      /\ m_settings \in [Setting -> SettingRecords]
      /\ \A k \in 1 .. n : /\ frames[k].id \in Setting /\ m_settings[frames[k].id].known
                          /\ frames[k].at \in 0 .. MaxConnections
  BY NotificationTypes DEF WatchInv, WatchTyped
<1>3. f \in Notifications /\ f.id = id /\ f.value = v /\ f.at = 0 /\ v \in Value
  BY ConnectionsBound, SettingValues DEF Notifications
<1> HIDE DEF f
<1>4. /\ frames' \in Seq(Notifications) /\ Len(frames') = n + 1 /\ frames'[n + 1] = f
      /\ \A k \in 1 .. n : frames'[k] = frames[k]
  BY <1>1, <1>2, <1>3, AppendProperties
<1>5. /\ q \in SettingRecords /\ q.known /\ q.value = v /\ q.next = s.next
      /\ q.callbacks = s.callbacks /\ s \in SettingRecords
      /\ m_settings' = [m_settings EXCEPT ![id] = q]
  BY <1>1, <1>2, <1>3 DEF SettingRecords
<1> HIDE DEF s, q, n
<1>6. /\ m_settings' \in [Setting -> SettingRecords] /\ m_settings'[id] = q
      /\ \A o \in Setting : o # id => m_settings'[o] = m_settings[o]
  BY <1>2, <1>5
<1>7. /\ overtaken' \in [Setting -> SUBSET Connections] /\ overtaken'[id] = ahead
      /\ \A o \in Setting : o # id => overtaken'[o] = overtaken[o]
  <2>1. ahead \in SUBSET Connections
    OBVIOUS
  <2> HIDE DEF ahead
  <2> QED
    BY <1>1, <1>2, <2>1
<1>8. WatchTyped'
  <2>1. \A o \in Setting : /\ \A c \in m_settings'[o].callbacks : c <= m_settings'[o].next
                           /\ ~m_settings'[o].known => m_settings'[o] = Unknown
    BY <1>5, <1>6 DEF WatchInv, WatchTyped, s
  <2> QED
    BY <1>1, <1>2, <1>4, <1>6, <1>7, <2>1 DEF WatchTyped
<1>9. 1 .. n + 1 = 1 .. n \cup {n + 1} /\ n + 1 \notin 1 .. n /\ \A k \in 1 .. n : k < n + 1
  BY <1>2
<1>10. \A k \in 1 .. n : frames[k].id # id /\ Newest(k) => Newest(k)'
  <2> SUFFICES ASSUME NEW k \in 1 .. n, frames[k].id # id, Newest(k)
               PROVE  Newest(k)'
    OBVIOUS
  <2>1. frames'[k] = frames[k] /\ m_settings'[frames[k].id] = m_settings[frames[k].id]
    BY <1>2, <1>4, <1>6
  <2>2. \A j \in 1 .. n + 1 : j > k => frames'[j].id # frames[k].id
    BY <1>3, <1>4, <1>9 DEF Newest, n
  <2>3. frames'[k].value = m_settings'[frames'[k].id].value
    BY <2>1 DEF Newest
  <2>4. \A j \in 1 .. Len(frames') : j > k => frames'[j].id # frames'[k].id
    BY <1>4, <2>1, <2>2
  <2> QED
    BY <2>3, <2>4 DEF Newest
<1>11. ASSUME NEW k \in 1 .. n + 1, k = n + 1
       PROVE  Newest(k)'
  <2>1. frames'[k].value = m_settings'[frames'[k].id].value
    BY <1>3, <1>4, <1>5, <1>6, <1>11
  <2>2. \A j \in 1 .. Len(frames') : ~(j > k)
    BY <1>2, <1>4, <1>11
  <2> QED
    BY <2>1, <2>2 DEF Newest
<1>12. \A k \in 1 .. n : frames[k].id = id => OvertakenAhead(k)'
  <2> SUFFICES ASSUME NEW k \in 1 .. n, frames[k].id = id
               PROVE  OvertakenAhead(k)'
    OBVIOUS
  <2>1. frames[k] \in Range(frames)
    BY <1>2 DEF Range
  <2>2. \A c \in Connections : c > frames[k].at => c \in ahead
    BY <2>1
  <2>3. frames'[k] = frames[k]
    BY <1>4
  <2> HIDE DEF ahead
  <2> QED
    BY <1>7, <2>2, <2>3 DEF OvertakenAhead
<1>13. \A k \in 1 .. n : frames[k].id # id /\ OvertakenAhead(k) => OvertakenAhead(k)'
  <2> SUFFICES ASSUME NEW k \in 1 .. n, frames[k].id # id, OvertakenAhead(k)
               PROVE  OvertakenAhead(k)'
    OBVIOUS
  <2>1. /\ frames'[k] = frames[k] /\ m_settings'[frames[k].id] = m_settings[frames[k].id]
        /\ overtaken'[frames[k].id] = overtaken[frames[k].id]
    BY <1>2, <1>4, <1>6, <1>7
  <2> QED
    BY <2>1 DEF OvertakenAhead, Gone
<1>14. ASSUME NEW k \in 1 .. n + 1
       PROVE  m_settings'[frames'[k].id].known /\ (Newest(k)' \/ OvertakenAhead(k)')
  <2>1. CASE k = n + 1
    BY <1>3, <1>4, <1>5, <1>6, <1>11, <2>1
  <2>2. CASE k \in 1 .. n /\ frames[k].id = id
    BY <1>4, <1>5, <1>6, <1>12, <2>2
  <2>3. CASE k \in 1 .. n /\ frames[k].id # id
    <3>1. Newest(k) \/ OvertakenAhead(k)
      BY <2>3 DEF WatchInv, n
    <3> QED
      BY <1>2, <1>4, <1>6, <1>10, <1>13, <2>3, <3>1
  <2> QED
    BY <1>9, <2>1, <2>2, <2>3
<1>15. ASSUME NEW o \in Setting, NEW c \in m_settings'[o].callbacks
       PROVE  \/ heard'[o][c] = m_settings'[o].value
              \/ c \in overtaken'[o]
              \/ \E k \in 1 .. n + 1 : frames'[k].id = o /\ c > frames'[k].at /\ Newest(k)'
  <2>1. CASE o = id
    <3>1. c \in Connections /\ c > 0
      <4>1. c \in s.callbacks
        BY <1>5, <1>6, <2>1
      <4> QED
        BY <1>5, <4>1 DEF SettingRecords, Connections
    <3> QED
      <4>1. PICK k \in 1 .. n + 1 : k = n + 1
        BY <1>9
      <4>2. Newest(k)' /\ frames'[k] = f
        BY <1>4, <1>11, <4>1
      <4> QED
        BY <1>3, <2>1, <3>1, <4>2
  <2>2. CASE o # id
    <3>1. m_settings'[o] = m_settings[o] /\ overtaken'[o] = overtaken[o] /\ heard'[o] = heard[o]
      BY <1>1, <1>6, <1>7, <2>2
    <3>2. \/ heard[o][c] = m_settings[o].value \/ c \in overtaken[o]
          \/ \E k \in 1 .. n : frames[k].id = o /\ c > frames[k].at /\ Newest(k)
      BY <3>1 DEF WatchInv, n
    <3> QED
      BY <1>4, <1>9, <1>10, <2>2, <3>1, <3>2
  <2> QED
    BY <2>1, <2>2
<1> QED
  BY <1>4, <1>8, <1>14, <1>15 DEF WatchInv

(***************************************************************************)
(* The innermost notification tells its next callback, or is at its end.   *)
(***************************************************************************)
LEMMA NotifyKeeps ==
  ASSUME WatchInv, Notify
  PROVE  WatchInv'
<1> DEFINE n == Len(frames)
           f == Last(frames)
           after == {c \in m_settings[f.id].callbacks : c > f.at}
           next == CHOOSE c \in after : \A d \in after : c <= d
<1>1. /\ frames # <<>>
      /\ after = {} => frames' = Front(frames) /\ heard' = heard
      /\ after # {} => /\ frames' = [frames EXCEPT ![n].at = next]
                       /\ heard' = [heard EXCEPT ![f.id][next] = f.value]
      /\ m_settings' = m_settings /\ overtaken' = overtaken
  BY DEF Notify
<1>2. /\ n \in Nat \ {0} /\ frames \in Seq(Notifications) /\ DOMAIN frames = 1 .. n
      /\ heard \in [Setting -> [Connections -> Value]]
      /\ overtaken \in [Setting -> SUBSET Connections]
      /\ m_settings \in [Setting -> SettingRecords]
      /\ \A k \in 1 .. n : /\ frames[k] \in Notifications /\ frames[k].id \in Setting
                          /\ m_settings[frames[k].id].known
                          /\ frames[k].at \in 0 .. MaxConnections
  BY <1>1, EmptySeq, NotificationTypes DEF WatchInv, WatchTyped
<1>3. n \in 1 .. n /\ f = frames[n] /\ f \in Notifications /\ f.id \in Setting /\ f.value \in Value
      /\ f.at \in 0 .. MaxConnections
  BY <1>2 DEF Last, Notifications
<1>4. /\ WatchTyped
      /\ \A k \in 1 .. n : Newest(k) \/ OvertakenAhead(k)
      /\ \A id \in Setting : \A c \in m_settings[id].callbacks :
            \/ heard[id][c] = m_settings[id].value \/ c \in overtaken[id]
            \/ \E k \in 1 .. n : frames[k].id = id /\ c > frames[k].at /\ Newest(k)
  BY DEF WatchInv
<1> HIDE DEF n, f
<1>5. CASE after = {}
  <2>1. /\ frames' \in Seq(Notifications) /\ Len(frames') = n - 1
        /\ \A k \in 1 .. n - 1 : frames'[k] = frames[k]
    <3>1. frames' = Front(frames) /\ frames # <<>> /\ frames \in Seq(Notifications)
      BY <1>1, <1>2, <1>5
    <3> QED
      BY <3>1, FrontProperties DEF n
  <2>2. \A k \in 1 .. n : k \in 1 .. n - 1 \/ k = n
    BY <1>2
  <2>3. \A k \in 1 .. n - 1 : k \in 1 .. n
    BY <1>2
  <2>4. ASSUME NEW k \in 1 .. n - 1, Newest(k)
        PROVE  Newest(k)'
    <3>1. frames'[k] = frames[k]
      BY <2>1
    <3>2. frames'[k].value = m_settings'[frames'[k].id].value
      BY <1>1, <2>4, <3>1 DEF Newest
    <3>3. \A j \in 1 .. n : j > k => frames[j].id # frames[k].id
      BY <2>4 DEF Newest, n
    <3>4. \A j \in 1 .. Len(frames') : j > k => frames'[j].id # frames'[k].id
      BY <2>1, <2>3, <3>1, <3>3
    <3> QED
      BY <3>2, <3>4 DEF Newest
  <2>5. ASSUME NEW k \in 1 .. n - 1, OvertakenAhead(k)
        PROVE  OvertakenAhead(k)'
    <3>1. frames'[k] = frames[k]
      BY <2>1
    <3> QED
      BY <1>1, <2>5, <3>1 DEF OvertakenAhead, Gone
  <2>6. ASSUME NEW id \in Setting, NEW c \in m_settings[id].callbacks
        PROVE  \/ heard[id][c] = m_settings[id].value \/ c \in overtaken[id]
               \/ \E k \in 1 .. n - 1 : frames'[k].id = id /\ c > frames'[k].at /\ Newest(k)'
    <3>1. ASSUME NEW k \in 1 .. n, frames[k].id = id, c > frames[k].at, Newest(k)
          PROVE  k \in 1 .. n - 1 /\ frames'[k].id = id /\ c > frames'[k].at /\ Newest(k)'
      <4>1. k # n
        BY <1>3, <1>5, <2>6, <3>1
      <4>2. k \in 1 .. n - 1
        BY <2>2, <4>1
      <4> QED
        BY <2>1, <2>4, <3>1, <4>2
    <3> QED
      BY <1>4, <3>1
  <2>7. WatchTyped'
    BY <1>1, <1>4, <1>5, <2>1 DEF WatchTyped
  <2>8. \A k \in 1 .. n - 1 : m_settings'[frames'[k].id].known /\ (Newest(k)' \/ OvertakenAhead(k)')
    BY <1>1, <1>2, <1>4, <2>1, <2>3, <2>4, <2>5
  <2> QED
    BY <1>1, <1>5, <2>1, <2>6, <2>7, <2>8 DEF WatchInv
<1>6. CASE after # {}
  <2>1. after \subseteq Nat /\ after \subseteq Connections
    BY <1>2, <1>3 DEF SettingRecords, Connections
  <2>2. \E c \in after : \A d \in after : c <= d
    BY <1>6, <2>1, LeastElement
  <2>3. next \in after /\ \A d \in after : next <= d
    BY <2>2
  <2> DEFINE g == [f EXCEPT !.at = next]
  <2>4. frames' = [frames EXCEPT ![n].at = next] /\ heard' = [heard EXCEPT ![f.id][next] = f.value]
    BY <1>1, <1>6
  <2>5. /\ next \in Connections /\ next \in m_settings[f.id].callbacks /\ next > f.at
        /\ next \in Nat /\ \A d \in m_settings[f.id].callbacks : d > f.at => next <= d
    BY <2>1, <2>3
  <2> HIDE DEF next, after
  <2>6. next \in 0 .. MaxConnections
    BY <2>5, ConnectionsBound DEF Connections
  <2>7. g \in Notifications /\ g.id = f.id /\ g.value = f.value /\ g.at = next
    BY <1>3, <2>6 DEF Notifications
  <2>8. frames' = [frames EXCEPT ![n] = g]
    BY <1>2, <1>3, <2>4
  <2> HIDE DEF g
  <2>9. /\ frames' \in Seq(Notifications) /\ Len(frames') = n /\ frames'[n] = g
        /\ \A k \in 1 .. n : k # n => frames'[k] = frames[k]
    <3>1. frames \in [1 .. n -> Notifications]
      BY <1>2
    <3>2. frames' \in [1 .. n -> Notifications]
      BY <2>7, <2>8, <3>1
    <3> QED
      BY <1>2, <1>3, <2>8, <3>2, SeqDef, LenProperties
  <2>10. \A k \in 1 .. n : frames'[k].id = frames[k].id /\ frames'[k].value = frames[k].value
    BY <1>3, <2>7, <2>9
  <2>11. ASSUME NEW k \in 1 .. n, Newest(k)
         PROVE  Newest(k)'
    <3>1. frames'[k].value = m_settings'[frames'[k].id].value
      BY <1>1, <2>10, <2>11 DEF Newest
    <3>2. \A j \in 1 .. Len(frames') : j > k => frames'[j].id # frames'[k].id
      BY <2>9, <2>10, <2>11 DEF Newest, n
    <3> QED
      BY <3>1, <3>2 DEF Newest
  <2>12. ASSUME NEW k \in 1 .. n, OvertakenAhead(k)
         PROVE  OvertakenAhead(k)'
    <3>1. \A c \in Connections : c > frames[k].at
             => c \in overtaken[frames[k].id] \/ Gone(frames[k].id, c)
      BY <2>12 DEF OvertakenAhead
    <3>2. \A c \in Connections : c > frames'[k].at => c > frames[k].at
      <4>1. CASE k = n
        BY <1>3, <2>5, <2>7, <2>9, <4>1 DEF Connections
      <4>2. CASE k # n
        BY <2>9, <4>2
      <4> QED
        BY <4>1, <4>2
    <3> QED
      BY <1>1, <2>10, <3>1, <3>2 DEF OvertakenAhead, Gone
  <2>13. /\ heard' \in [Setting -> [Connections -> Value]] /\ heard'[f.id][next] = f.value
         /\ \A c \in Connections : c # next => heard'[f.id][c] = heard[f.id][c]
         /\ \A id \in Setting : id # f.id => heard'[id] = heard[id]
    <3>1. heard' = [heard EXCEPT ![f.id] = [heard[f.id] EXCEPT ![next] = f.value]]
      BY <1>2, <1>3, <2>4, <2>5
    <3> QED
      BY <1>2, <1>3, <2>5, <3>1
  <2>14. ASSUME NEW id \in Setting, NEW c \in m_settings[id].callbacks
         PROVE  \/ heard'[id][c] = m_settings[id].value \/ c \in overtaken[id]
                \/ \E k \in 1 .. n : frames'[k].id = id /\ c > frames'[k].at /\ Newest(k)'
    <3>1. CASE id = f.id /\ c = next
      <4>1. CASE Newest(n)
        BY <1>3, <2>13, <3>1, <4>1 DEF Newest
      <4>2. CASE OvertakenAhead(n)
        <5>1. c \in overtaken[id] \/ Gone(id, c)
          BY <1>3, <2>5, <3>1, <4>2 DEF OvertakenAhead
        <5> QED
          BY <5>1 DEF Gone
      <4> QED
        BY <1>3, <1>4, <4>1, <4>2
    <3>2. CASE ~(id = f.id /\ c = next)
      <4>1. c \in Connections
        BY <1>2 DEF SettingRecords
      <4>2. heard'[id][c] = heard[id][c]
        BY <2>13, <3>2, <4>1
      <4>3. ASSUME NEW k \in 1 .. n, frames[k].id = id, c > frames[k].at, Newest(k)
            PROVE  frames'[k].id = id /\ c > frames'[k].at /\ Newest(k)'
        <5>1. CASE k = n
          <6>1. id = f.id /\ c > f.at /\ c # next
            BY <1>3, <3>2, <4>3, <5>1
          <6>2. next <= c /\ c \in Int /\ next \in Int
            BY <2>5, <4>1, <6>1 DEF Connections
          <6>3. c > next
            BY <6>1, <6>2
          <6> QED
            BY <2>7, <2>9, <2>11, <4>3, <5>1, <6>1, <6>3
        <5>2. CASE k # n
          BY <2>9, <2>11, <4>3, <5>2
        <5> QED
          BY <5>1, <5>2
      <4> QED
        BY <1>4, <4>2, <4>3
    <3> QED
      BY <3>1, <3>2
  <2>15. WatchTyped'
    BY <1>1, <1>4, <2>9, <2>13 DEF WatchTyped
  <2>16. \A k \in 1 .. n : m_settings'[frames'[k].id].known /\ (Newest(k)' \/ OvertakenAhead(k)')
    BY <1>1, <1>2, <1>4, <2>10, <2>11, <2>12
  <2> QED
    BY <1>1, <2>9, <2>14, <2>15, <2>16 DEF WatchInv
<1> QED
  BY <1>5, <1>6

LEMMA RestartKeeps ==
  ASSUME WatchInv, NEW d \in Directory, Restart(d)
  PROVE  WatchInv'
<1>1. /\ m_settings' = [id \in Setting |-> Unknown] /\ frames = <<>> /\ frames' = frames
      /\ heard' = [id \in Setting |-> [c \in Connections |-> NullValue]]
      /\ overtaken' = [id \in Setting |-> {}]
  BY DEF Restart
<1>2. NullValue \in Value
  BY DEF NullValue, Value, Text, NaN, NoType, NumberTypes
<1>3. Unknown \in SettingRecords /\ ~Unknown.known /\ Unknown.callbacks = {}
  <2>1. 0 \in 0 .. MaxConnections /\ {} \in SUBSET Connections
    BY ConnectionsBound
  <2> QED
    BY <1>2, <2>1 DEF Unknown, SettingRecords
<1>4. frames' \in Seq(Notifications) /\ Len(frames') = 0
  BY <1>1
<1>5. WatchTyped'
  BY <1>1, <1>2, <1>3, <1>4 DEF WatchTyped
<1> QED
  BY <1>1, <1>3, <1>4, <1>5 DEF WatchInv

LEMMA WatchStep ==
  ASSUME FilesInv, WatchInv, [NextSettings]_settingVars
  PROVE  WatchInv'
<1>1. CASE \E id \in Setting : Watch(id)
  BY <1>1, WatchKeeps
<1>2. CASE \E id \in Setting, c \in Connections : Unwatch(id, c)
  BY <1>2, UnwatchKeeps
<1>3. CASE \E id \in Setting, v \in SettingValue : SetUnknown(id, v)
  BY <1>3, SetUnknownKeeps
<1>4. CASE \E id \in Setting, v \in SettingValue : SetKnown(id, v)
  BY <1>4, SetKnownKeeps
<1>5. CASE Notify
  BY <1>5, NotifyKeeps
<1>6. CASE \E d \in Directory : Restart(d)
  BY <1>6, RestartKeeps
<1>7. CASE UNCHANGED <<m_settings, frames, heard, overtaken>>
  <2>1. WatchTyped'
    BY <1>7 DEF WatchInv, WatchTyped
  <2>2. \A k : (Newest(k) <=> Newest(k)') /\ (OvertakenAhead(k) <=> OvertakenAhead(k)')
    BY <1>7 DEF Newest, OvertakenAhead, Gone
  <2> QED
    BY <1>7, <2>1, <2>2 DEF WatchInv
<1>8. \/ \E id \in Setting : Watch(id)
      \/ \E id \in Setting, c \in Connections : Unwatch(id, c)
      \/ \E id \in Setting, v \in SettingValue : SetUnknown(id, v)
      \/ \E id \in Setting, v \in SettingValue : SetKnown(id, v)
      \/ Notify
      \/ \E d \in Directory : Restart(d)
      \/ UNCHANGED <<m_settings, frames, heard, overtaken>>
  BY DEF NextSettings, settingVars, SetSame
<1> QED
  BY <1>1, <1>2, <1>3, <1>4, <1>5, <1>6, <1>7, <1>8

(***************************************************************************)
(* However settings are set in callbacks of settings, and callbacks come   *)
(* and go, when no notification is under way every callback has heard the  *)
(* value its setting has, or was overtaken.                                *)
(***************************************************************************)
THEOREM WatchersAreTold == SpecSettings => []WatchersHeard
<1>1. FilesInv /\ WatchInv /\ [NextSettings]_settingVars => (FilesInv /\ WatchInv)'
  BY FilesStep, WatchStep
<1>2. ASSUME WatchInv
      PROVE  WatchersHeard
  <2> SUFFICES ASSUME frames = <<>>, NEW id \in Setting, NEW c \in m_settings[id].callbacks
               PROVE  heard[id][c] = m_settings[id].value \/ c \in overtaken[id]
    BY DEF WatchersHeard
  <2>1. \A k \in 1 .. Len(frames) : FALSE
    OBVIOUS
  <2> QED
    BY <1>2, <2>1 DEF WatchInv
<1> QED
  BY <1>1, <1>2, FilesInit, WatchInit, PTL DEF SpecSettings

-----------------------------------------------------------------------------
(* Settings: what the files tell *)

\* The line that is read is the one that holds the value.
LEMMA ReadHolds ==
  ASSUME NEW lines \in Seq(Line), NEW id \in Setting, readVof(lines, id).text # "empty"
  PROVE  Holds(lines, id, readVof(lines, id))
<1> DEFINE named == {i \in DOMAIN lines : isEntry(lines[i]) /\ lines[i].id = id}
           first == CHOOSE i \in named : \A j \in named : i <= j
<1>1. DOMAIN lines = 1 .. Len(lines) /\ Len(lines) \in Nat
  BY LenProperties
<1>2. CASE named = {}
  BY <1>2 DEF readVof, Str
<1>3. CASE named # {}
  <2>1. named \subseteq Nat
    BY <1>1
  <2>2. \E i \in named : \A j \in named : i <= j
    BY <1>3, <2>1, LeastElement
  <2>3. first \in named /\ \A j \in named : first <= j
    BY <2>2
  <2>4. readVof(lines, id) = Head(lines[first].fields)
    BY <1>3 DEF readVof
  <2> HIDE DEF first
  <2> QED
    BY <2>3, <2>4 DEF Holds, IsFirst
<1> QED
  BY <1>2, <1>3

\* The lines tell of the setting what v becomes in a file.
Tells(lines, id, v) ==
  \E w : Holds(lines, id, w) /\ fromString(w.text, w.num) = Reread(v)

\* The files tell what was written; the program's own tells what the settings of
\* a program started there are and what they were last set to.
ToldInv ==
  /\ stored \in [Directory -> [Setting -> SettingValue \cup {NullValue}]]
  /\ DOMAIN lastSet = Setting
  /\ \A id \in Setting : lastSet[id].value \in SettingValue \cup {NullValue}
  /\ \A id \in Setting :
       /\ \A d \in Directory : Keepable(stored[d][id]) => Tells(vof[d], id, stored[d][id])
       /\ cwd = "program" /\ m_settings[id].known /\ Keepable(m_settings[id].value)
            => Tells(vof["program"], id, m_settings[id].value)
       /\ Keepable(lastSet[id].value) /\ lastSet[id].where = "program"
            /\ ~lastSet[id].overNumber
            => Tells(vof["program"], id, lastSet[id].value)

LEMMA ToldInit == InitSettings => ToldInv
<1> SUFFICES ASSUME InitSettings
             PROVE  ToldInv
  OBVIOUS
<1>1. /\ stored = [d \in Directory |-> [id \in Setting |-> NullValue]]
      /\ m_settings = [id \in Setting |-> Unknown]
      /\ DOMAIN lastSet = Setting /\ \A id \in Setting : lastSet[id].value = NullValue
  BY DEF InitSettings
<1>2. ~Keepable(NullValue) /\ ~Unknown.known
  BY DEF Keepable, NullValue, NoType, NumberTypes, Unknown
<1> QED
  BY <1>1, <1>2 DEF ToldInv

\* A keepable value as its own line tells it.
LEMMA RereadIs ==
  ASSUME NEW v \in SettingValue, Keepable(v)
  PROVE  fromString(v.text, v.num) = Reread(v)
<1>1. /\ (v.type \in NumberTypes => v.text = "number")
      /\ v.text = "word" => v = Str("word", NaN)
  BY SettingValues
<1>2. CASE v.type \in NumberTypes
  BY <1>1, <1>2 DEF fromString, Reread, NumberTypes
<1>3. CASE v.type = "string" /\ v.text = "word"
  <2>1. fromString(v.text, v.num) = Str("word", NaN)
    BY <1>3 DEF fromString
  <2> QED
    BY <1>1, <1>3, <2>1 DEF Reread
<1> QED
  BY <1>2, <1>3 DEF Keepable

\* What was written is told, and the others are told as before.
LEMMA WrittenTells ==
  ASSUME NEW lines \in Seq(Line), NEW id \in Setting, NEW v \in SettingValue
  PROVE  /\ writeVof(lines, id, v) \in Seq(Line)
         /\ Keepable(v) => Tells(writeVof(lines, id, v), id, v)
         /\ \A o \in Setting : \A w : o # id /\ Tells(lines, o, w)
              => Tells(writeVof(lines, id, v), o, w)
<1>1. v \in Value /\ (Keepable(v) => v.text \in {"number", "word"})
  BY SettingValues
<1>2. writeVof(lines, id, v) \in Seq(Line)
  BY <1>1, WriteTyped
<1>3. Keepable(v) => Tells(writeVof(lines, id, v), id, v)
  BY <1>1, WrittenHolds, RereadIs DEF Tells
<1>4. ASSUME NEW o \in Setting, NEW w, o # id, Tells(lines, o, w)
      PROVE  Tells(writeVof(lines, id, v), o, w)
  BY <1>1, <1>4, OthersHold DEF Tells
<1> QED
  BY <1>2, <1>3, <1>4

LEMMA WrittenIsTold ==
  ASSUME FilesInv, ToldInv, NEW id \in Setting, NEW v \in SettingValue, written(id, v), cwd' = cwd,
         m_settings'[id].value = v, \A o \in Setting : o # id => m_settings'[o] = m_settings[o]
  PROVE  ToldInv'
<1> DEFINE t == writeVof(vof[cwd], id, v)
<1>1. /\ vof' = [vof EXCEPT ![cwd] = t]
      /\ stored' = [stored EXCEPT ![cwd][id] = v]
      /\ DOMAIN lastSet' = Setting /\ lastSet'[id].value = v /\ lastSet'[id].where = cwd
      /\ \A o \in Setting : o # id => lastSet'[o] = lastSet[o]
  BY DEF written, asked, ToldInv
<1>2. /\ vof \in [Directory -> Seq(Line)] /\ cwd \in Directory
      /\ stored \in [Directory -> [Setting -> SettingValue \cup {NullValue}]]
      /\ vof[cwd] \in Seq(Line) /\ "program" \in Directory
  BY DEF FilesInv, ToldInv, Directory
<1>3. /\ t \in Seq(Line) /\ (Keepable(v) => Tells(t, id, v))
      /\ \A o \in Setting : \A w : o # id /\ Tells(vof[cwd], o, w) => Tells(t, o, w)
  BY <1>2, WrittenTells
<1> HIDE DEF t
<1>4. /\ vof' \in [Directory -> Seq(Line)] /\ vof'[cwd] = t
      /\ \A d \in Directory : d # cwd => vof'[d] = vof[d]
      /\ stored' \in [Directory -> [Setting -> SettingValue \cup {NullValue}]]
      /\ stored'[cwd][id] = v
      /\ \A d \in Directory, o \in Setting : d # cwd \/ o # id => stored'[d][o] = stored[d][o]
  BY <1>1, <1>2, <1>3
<1>5. ASSUME NEW d \in Directory, NEW o \in Setting, d # cwd \/ o # id, NEW w, Tells(vof[d], o, w)
      PROVE  Tells(vof'[d], o, w)
  BY <1>3, <1>4, <1>5
<1>6. ASSUME NEW d \in Directory, NEW o \in Setting, Keepable(stored'[d][o])
      PROVE  Tells(vof'[d], o, stored'[d][o])
  <2>1. CASE d = cwd /\ o = id
    BY <1>3, <1>4, <1>6, <2>1
  <2>2. CASE d # cwd \/ o # id
    <3>1. stored'[d][o] = stored[d][o]
      BY <1>4, <2>2
    <3> QED
      BY <1>5, <1>6, <2>2, <3>1 DEF ToldInv
  <2> QED
    BY <2>1, <2>2
<1>7. ASSUME NEW o \in Setting, cwd = "program", m_settings'[o].known,
             Keepable(m_settings'[o].value)
      PROVE  Tells(vof'["program"], o, m_settings'[o].value)
  <2>1. CASE o = id
    BY <1>3, <1>4, <1>7, <2>1
  <2>2. CASE o # id
    <3>1. m_settings'[o] = m_settings[o]
      BY <2>2
    <3> QED
      BY <1>2, <1>5, <1>7, <2>2, <3>1 DEF ToldInv
  <2> QED
    BY <2>1, <2>2
<1>8. ASSUME NEW o \in Setting, Keepable(lastSet'[o].value), lastSet'[o].where = "program",
             ~lastSet'[o].overNumber
      PROVE  Tells(vof'["program"], o, lastSet'[o].value)
  <2>1. CASE o = id
    BY <1>1, <1>3, <1>4, <1>8, <2>1
  <2>2. CASE o # id
    <3>1. lastSet'[o] = lastSet[o]
      BY <1>1, <2>2
    <3> QED
      BY <1>2, <1>5, <1>8, <2>2, <3>1 DEF ToldInv
  <2> QED
    BY <2>1, <2>2
<1> QED
  BY <1>1, <1>2, <1>4, <1>6, <1>7, <1>8 DEF ToldInv

\* A set that operator== drops: the value is the one there is, unless one number
\* was taken for another.
LEMMA SameIsTold ==
  ASSUME FilesInv, ToldInv, NEW id \in Setting, NEW v \in SettingValue, SetSame(id, v)
  PROVE  ToldInv'
<1> DEFINE old == m_settings[id].value
<1>1. /\ m_settings[id].known /\ equal(old, v)
      /\ DOMAIN lastSet' = Setting
      /\ lastSet'[id] = [value |-> v, where |-> cwd,
                         overNumber |-> old.type # v.type /\ isNumber(old) /\ isNumber(v)]
      /\ \A o \in Setting : o # id => lastSet'[o] = lastSet[o]
      /\ UNCHANGED <<vof, cwd, m_settings, stored>>
  <2>1. lastSet' = [lastSet EXCEPT ![id] =
          [value |-> v, where |-> cwd,
           overNumber |-> old.type # v.type /\ isNumber(old) /\ isNumber(v)]]
    BY DEF SetSame, asked
  <2>2. DOMAIN lastSet = Setting
    BY DEF ToldInv
  <2>3. /\ m_settings[id].known /\ equal(old, v)
        /\ UNCHANGED <<vof, cwd, m_settings, stored>>
    BY DEF SetSame
  <2> QED
    BY <2>1, <2>2, <2>3
<1>2. \/ old = v
      \/ old.type # v.type /\ isNumber(old) /\ isNumber(v)
  BY <1>1 DEF equal, typeSafeCompare
<1>3. /\ lastSet'[id].value = v /\ lastSet'[id].where = cwd
      /\ ~lastSet'[id].overNumber => m_settings[id].value = v
  <2> DEFINE b == old.type # v.type /\ isNumber(old) /\ isNumber(v)
  <2>1. lastSet'[id] = [value |-> v, where |-> cwd, overNumber |-> b]
    BY <1>1
  <2>2. old = v \/ b
    BY <1>2
  <2> HIDE DEF b
  <2> QED
    BY <2>1, <2>2
<1>4. ASSUME NEW o \in Setting, Keepable(lastSet'[o].value), lastSet'[o].where = "program",
             ~lastSet'[o].overNumber
      PROVE  Tells(vof["program"], o, lastSet'[o].value)
  <2>1. CASE o = id
    BY <1>1, <1>3, <1>4, <2>1 DEF ToldInv
  <2>2. CASE o # id
    <3>1. lastSet'[o] = lastSet[o]
      BY <1>1, <2>2
    <3> QED
      BY <1>4, <3>1 DEF ToldInv
  <2> QED
    BY <2>1, <2>2
<1> QED
  BY <1>1, <1>4 DEF ToldInv

\* A setting that is read is what its file tells.
LEMMA LoadedTells ==
  ASSUME FilesInv, ToldInv, NEW id \in Setting, cwd = "program", Keepable(loaded(id).value)
  PROVE  Tells(vof["program"], id, loaded(id).value)
<1> DEFINE r == readVof(vof["program"], id)  w == fromString(r.text, r.num)
<1>1. CASE m_settings[id].known
  BY <1>1 DEF loaded, ToldInv
<1>2. CASE ~m_settings[id].known
  <2>1. loaded(id).value = w
    BY <1>2 DEF loaded, Known
  <2>2. vof["program"] \in Seq(Line) /\ r \in Value
    BY ReadTyped DEF FilesInv, Directory
  <2>3. r.text # "empty" /\ w = Reread(w)
    <3>1. w = Num("double", r.num) \/ w = Str(r.text, NaN)
      BY DEF fromString
    <3>2. CASE w = Num("double", r.num)
      <4>1. w.type = "double" /\ w.num = r.num
        BY <3>2 DEF Num
      <4>2. Reread(w) = Num("double", r.num)
        BY <4>1 DEF Reread
      <4>3. r.text # "empty"
        <5>1. CASE r.text = "empty"
          <6>1. w = Str(r.text, NaN)
            BY <5>1 DEF fromString
          <6>2. w.type = "string"
            BY <6>1 DEF Str
          <6> QED
            BY <4>1, <6>2
        <5> QED
          BY <5>1
      <4> QED
        BY <3>2, <4>2, <4>3
    <3>3. CASE w = Str(r.text, NaN)
      <4>1. w.type = "string" /\ w.text = r.text
        BY <3>3 DEF Str
      <4>2. w.text = "word"
        BY <2>1, <4>1 DEF Keepable, NumberTypes
      <4> QED
        BY <4>1, <4>2 DEF Reread
    <3> QED
      BY <3>1, <3>2, <3>3
  <2>4. Holds(vof["program"], id, r)
    BY <2>2, <2>3, ReadHolds
  <2> QED
    BY <2>1, <2>3, <2>4 DEF Tells
<1> QED
  BY <1>1, <1>2

\* Nothing is written or set, and of the settings one more may be known, which is
\* what was read.
LEMMA ReadIsTold ==
  ASSUME FilesInv, ToldInv, UNCHANGED <<vof, cwd, stored, lastSet>>,
         \A id \in Setting :
           \/ m_settings'[id].value = m_settings[id].value
                /\ m_settings'[id].known = m_settings[id].known
           \/ m_settings'[id].value = loaded(id).value
  PROVE  ToldInv'
<1>1. ASSUME NEW id \in Setting, cwd = "program", m_settings'[id].known,
             Keepable(m_settings'[id].value)
      PROVE  Tells(vof["program"], id, m_settings'[id].value)
  <2>1. CASE m_settings'[id].value = loaded(id).value
    BY <1>1, <2>1, LoadedTells
  <2>2. CASE m_settings'[id].value = m_settings[id].value
               /\ m_settings'[id].known = m_settings[id].known
    BY <1>1, <2>2 DEF ToldInv
  <2> QED
    BY <2>1, <2>2
<1> QED
  BY <1>1 DEF ToldInv

LEMMA ToldStep ==
  ASSUME FilesInv, WatchInv, ToldInv, [NextSettings]_settingVars
  PROVE  ToldInv'
<1>1. m_settings \in [Setting -> SettingRecords]
  BY DEF WatchInv, WatchTyped
<1>2. ASSUME NEW id \in Setting, NEW v \in SettingValue, SetUnknown(id, v) \/ SetKnown(id, v)
      PROVE  ToldInv'
  <2>1. written(id, v) /\ cwd' = cwd
    BY <1>2 DEF SetUnknown, SetKnown
  <2>2. /\ m_settings'[id].value = v
        /\ \A o \in Setting : o # id => m_settings'[o] = m_settings[o]
    <3>1. CASE SetUnknown(id, v)
      BY <1>1, <3>1 DEF SetUnknown, Known
    <3>2. CASE SetKnown(id, v)
      BY <1>1, <3>2 DEF SetKnown, SettingRecords
    <3> QED
      BY <1>2, <3>1, <3>2
  <2> QED
    BY <2>1, <2>2, WrittenIsTold
<1>3. ASSUME NEW id \in Setting, NEW v \in SettingValue, SetSame(id, v)
      PROVE  ToldInv'
  BY <1>3, SameIsTold
<1>4. ASSUME NEW id \in Setting, Watch(id)
      PROVE  ToldInv'
  <2> DEFINE s == loaded(id)
             t == [s EXCEPT !.next = s.next + 1, !.callbacks = s.callbacks \cup {s.next + 1}]
  <2>1. /\ m_settings' = [m_settings EXCEPT ![id] = t]
        /\ UNCHANGED <<vof, cwd, stored, lastSet>>
    BY <1>4 DEF Watch
  <2>2. s \in SettingRecords
    BY LoadedTyped
  <2> HIDE DEF s
  <2>3. t.value = s.value
    BY <2>2 DEF SettingRecords
  <2> HIDE DEF t
  <2>4. \A o \in Setting : m_settings'[o] = m_settings[o] \/ m_settings'[o].value = loaded(o).value
    BY <1>1, <2>1, <2>3 DEF s
  <2> QED
    BY <2>1, <2>4, ReadIsTold
<1>5. ASSUME NEW id \in Setting, NEW c \in Connections, Unwatch(id, c)
      PROVE  ToldInv'
  <2>1. /\ m_settings' = [m_settings EXCEPT ![id].callbacks = @ \ {c}]
        /\ UNCHANGED <<vof, cwd, stored, lastSet>>
    BY <1>5 DEF Unwatch
  <2>2. \A o \in Setting : m_settings'[o].value = m_settings[o].value
                          /\ m_settings'[o].known = m_settings[o].known
    BY <1>1, <2>1 DEF SettingRecords
  <2> QED
    BY <2>1, <2>2, ReadIsTold
<1>6. ASSUME NEW d \in Directory, Restart(d)
      PROVE  ToldInv'
  <2>1. /\ UNCHANGED <<vof, stored, lastSet>>
        /\ \A id \in Setting : m_settings'[id] = Unknown
    BY <1>6 DEF Restart
  <2>2. ~Unknown.known
    BY DEF Unknown
  <2> QED
    BY <2>1, <2>2 DEF ToldInv
<1>7. CASE UNCHANGED <<vof, cwd, m_settings, stored, lastSet>>
  BY <1>7 DEF ToldInv
<1>8. \/ \E id \in Setting, v \in SettingValue :
           SetUnknown(id, v) \/ SetKnown(id, v) \/ SetSame(id, v)
      \/ \E id \in Setting : Watch(id)
      \/ \E id \in Setting, c \in Connections : Unwatch(id, c)
      \/ \E d \in Directory : Restart(d)
      \/ UNCHANGED <<vof, cwd, m_settings, stored, lastSet>>
  BY DEF NextSettings, settingVars, Notify
<1> QED
  BY <1>2, <1>3, <1>4, <1>5, <1>6, <1>7, <1>8

(***************************************************************************)
(* Over any number of settings and of starts, the file in each directory   *)
(* gives back what was last written there, and the program's own what a    *)
(* setting was last set to by a program started there, unless it was a     *)
(* number over a number of another type; if a line of the file keeps it.   *)
(***************************************************************************)
THEOREM SettingsAreKept == SpecSettings => []SettingsKept
<1>1. FilesInv /\ WatchInv /\ ToldInv /\ [NextSettings]_settingVars
        => (FilesInv /\ WatchInv /\ ToldInv)'
  BY FilesStep, WatchStep, ToldStep
<1>2. ASSUME FilesInv, ToldInv
      PROVE  SettingsKept
  <2>1. ASSUME NEW d \in Directory, NEW id \in Setting, NEW v, Tells(vof[d], id, v)
        PROVE  Back(d, id) = Reread(v)
    <3>1. PICK w : Holds(vof[d], id, w) /\ fromString(w.text, w.num) = Reread(v)
      BY <2>1 DEF Tells
    <3>2. vof[d] \in Seq(Line)
      BY <1>2 DEF FilesInv
    <3>3. readVof(vof[d], id) = w
      BY <3>1, <3>2, ReadFirst
    <3> QED
      BY <3>1, <3>3 DEF Back
  <2>2. "program" \in Directory
    BY DEF Directory
  <2> QED
    BY <1>2, <2>1, <2>2 DEF ToldInv, SettingsKept
<1> QED
  BY <1>1, <1>2, FilesInit, WatchInit, ToldInit, PTL DEF SpecSettings
=============================================================================
