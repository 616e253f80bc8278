--------------------------- MODULE GameApplication ---------------------------
(***************************************************************************)
(* GameApplication::exec: the loop that lets the entities proceed and      *)
(* render, destroys entities on request, flushes messages and runs the     *)
(* scheduled tasks; with the CyclicList of the entities and the observers  *)
(* of their life time.                                                     *)
(*                                                                         *)
(* pc is the part of the loop the application is in, and turn the place of *)
(* the iterator in the list that part goes over.  Where the code calls     *)
(* back into the user's code (an entity, an extension, an observer, a      *)
(* task), calling is set, and userCode is what the user may do there.      *)
(***************************************************************************)
EXTENDS MessageQueue, FiniteSets

CONSTANTS Heap,         \* entities made by new and left to the application
          Shared,       \* entities a shared_ptr of the user keeps
          Stack,        \* entities that do not live on the heap
          Tagged,       \* entities that have the tag
          Observer,     \* observers of the entities' life time
          None,         \* what a message without a value carries
          MaxTasks,     \* bound: tasks scheduled in all
          MaxAdds       \* bound: calls of addEntity

Entity == Heap \cup Shared \cup Stack
End == "end"            \* m_entities.end()

ASSUME GameApplicationAssumption ==
  /\ Heap \cap (Shared \cup Stack) = {} /\ Shared \cap Stack = {}
  /\ Tagged \subseteq Entity /\ IsFiniteSet(Observer)
  /\ End \notin Entity /\ None \notin Entity
  /\ MaxTasks \in Nat /\ MaxAdds \in Nat
  /\ MessageId = {"DestroyEntity", "DestroyAllEntities",
                  "DestroyEntitiesWithTag", "UserMessage"}
  /\ MessageValue = Entity \cup {None}

VARIABLES
  pc, turn, calling,
  m_entities, m_autoIt,       \* CyclicList: its list and its iterator
  destroyed,                  \* entities deleted
  m_entityLifeTimeObservers,
  expired,                    \* observers that no longer exist
  m_scheduledTasks,           \* sequence of [repeat, due, id]
  m_mustQuit,
  throttled,                  \* whether a turn of the loop may go by without
                              \* proceeding (setProccedInterval, setMode)
  added, scheduled,           \* calls of addEntity and schedule so far
  view,                       \* history: per observer, the entities it knows of
  runs                        \* history: per task that does not repeat, how often
                              \* it ran

listVars == <<m_entities, m_autoIt, destroyed, added>>
observerVars == <<m_entityLifeTimeObservers, expired, view>>
taskVars == <<m_scheduledTasks, scheduled, runs>>
vars == <<pc, turn, calling, messageVars, listVars, observerVars, taskVars,
          m_mustQuit, throttled>>

TaskId == 1 .. MaxTasks
MaxRuns == 2            \* bound: runs of a task that are told apart

Init ==
  /\ pc = "start" /\ turn = 1 /\ calling = FALSE
  /\ InitMessages
  /\ m_entities = <<>> /\ m_autoIt = End /\ destroyed = {} /\ added = 0
  /\ \E observers \in SetToSeqs(Observer) : m_entityLifeTimeObservers = observers
  /\ expired = {}
  /\ m_scheduledTasks = <<>> /\ scheduled = 0
  /\ m_mustQuit = FALSE /\ throttled \in BOOLEAN
  /\ view = [o \in Observer |-> {}]
  /\ runs = [t \in TaskId |-> 0]

-----------------------------------------------------------------------------
(* CyclicList and the observers *)

\* Slip: an iterator at the end stays there.
nextCycle_stuck ==
  m_autoIt' = IF m_autoIt = End THEN End
              ELSE LET i == CHOOSE j \in 1 .. Len(m_entities) : m_entities[j] = m_autoIt
                   IN IF i = Len(m_entities) THEN m_entities[1] ELSE m_entities[i + 1]

nextCycle ==
  LET i == CHOOSE j \in 1 .. Len(m_entities) : m_entities[j] = m_autoIt
  IN m_autoIt' = IF m_entities = <<>> THEN End
                 ELSE IF m_autoIt = End \/ i = Len(m_entities)
                   THEN m_entities[1] ELSE m_entities[i + 1]

\* Slip: the iterator stays on an element that goes.
erase_noReset(i) ==
  /\ m_entities' = RemoveAt(m_entities, i)
  /\ UNCHANGED m_autoIt

\* The iterator moves off an element that goes.
erase(i) ==
  /\ m_entities' = RemoveAt(m_entities, i)
  /\ m_autoIt' = IF m_autoIt # m_entities[i] THEN m_autoIt
                 ELSE IF i < Len(m_entities) THEN m_entities[i + 1] ELSE End

\* Slip: what comes behind an observer that is dropped is passed over.
Emit_skips(appeared, gone) ==
  LET s == m_entityLifeTimeObservers
      passed == expired \cup {s[i] : i \in {j \in 2 .. Len(s) : s[j - 1] \in expired}}
  IN /\ m_entityLifeTimeObservers' = Select(s, Observer \ expired)
     /\ view' = [o \in Observer |->
          IF o \in Range(s) \ passed THEN (view[o] \cup appeared) \ gone ELSE view[o]]
     /\ UNCHANGED expired

\* emitEntityAdded, emitEntityRemoved: the loop drops the observers that have
\* expired when it comes to them, be it that one before them ended them when it
\* was told.
Emit(appeared, gone) ==
  LET living == Select(m_entityLifeTimeObservers, Observer \ expired)
  IN \E ended \in SUBSET {living[i] : i \in 2 .. Len(living)} :
       /\ expired' = expired \cup ended
       /\ m_entityLifeTimeObservers' = Select(living, Observer \ ended)
       /\ view' = [o \in Observer |->
            IF o \in Range(living) \ ended THEN (view[o] \cup appeared) \ gone
            ELSE {}]

\* destroy(ptr) deletes what lives on the heap and in no shared_ptr.
Destroy(i) ==
  /\ erase(i)
  /\ destroyed' = destroyed \cup ({m_entities[i]} \cap Heap)
  /\ Emit({}, {m_entities[i]})
  /\ UNCHANGED added

-----------------------------------------------------------------------------
(* The user's code *)

addEntity ==
  /\ added < MaxAdds /\ added' = added + 1
  /\ \E e \in Entity \ (destroyed \cup Range(m_entities)) :
       /\ m_entities' = Append(m_entities, e)
       /\ Emit({e}, {})
  /\ UNCHANGED <<m_autoIt, destroyed, messageVars, taskVars, m_mustQuit>>

\* The callback of a Promice that fails is called from the middle of a flush,
\* which then may or may not come to what is emitted there.
emit ==
  /\ \E seen \in IF pc = "flushed" THEN {0, 1} ELSE {0} :
       \/ \E e \in Range(m_entities) : emitMessage("DestroyEntity", e, seen)
       \/ emitMessage("DestroyAllEntities", None, seen)
       \/ emitMessage("DestroyEntitiesWithTag", None, seen)
       \/ emitMessage("UserMessage", None, seen)
  /\ UNCHANGED <<listVars, observerVars, taskVars, m_mustQuit>>

\* schedule and scheduleRepeated.  A task of duration 0 is always due.
schedule(repeat, due) ==
  /\ scheduled < MaxTasks /\ scheduled' = scheduled + 1
  /\ m_scheduledTasks' = Append(m_scheduledTasks,
       [repeat |-> repeat, due |-> due, id |-> scheduled + 1])
  /\ UNCHANGED <<runs, messageVars, listVars, observerVars, m_mustQuit>>

quitLater ==
  /\ m_mustQuit' = TRUE
  /\ UNCHANGED <<messageVars, listVars, observerVars, taskVars>>

dropObserver ==
  /\ \E o \in Observer : /\ expired' = expired \cup {o}
                          /\ view' = [view EXCEPT ![o] = {}]
  /\ UNCHANGED <<m_entityLifeTimeObservers, messageVars, listVars, taskVars,
                 m_mustQuit>>

userOperation == \/ addEntity \/ emit \/ quitLater \/ dropObserver
                 \/ \E repeat, due \in BOOLEAN : schedule(repeat, due)

userCode ==
  /\ calling /\ userOperation
  /\ UNCHANGED <<pc, turn, calling, throttled>>

return ==
  /\ calling /\ calling' = FALSE
  /\ settle
  /\ UNCHANGED <<pc, turn, listVars, observerVars, taskVars, m_mustQuit, throttled>>

\* What the user does before exec, and in its InitExtensions.
start ==
  /\ pc = "start" /\ ~calling
  /\ \/ calling' = TRUE /\ pc' = pc
     \/ calling' = FALSE /\ pc' = "top"
  /\ UNCHANGED <<turn, messageVars, listVars, observerVars, taskVars,
                 m_mustQuit, throttled>>

-----------------------------------------------------------------------------
(* The loop of exec *)

at(part) == pc = part /\ ~calling
goto(part) == pc' = part /\ turn' = 1

\* Nothing but the control state changes.
control == UNCHANGED <<messageVars, listVars, observerVars, taskVars,
                       m_mustQuit, throttled>>

\* m_proceedTimer.check() is TRUE when there is no interval; the exit flag of
\* the event handler ends the loop.
top ==
  /\ at("top") /\ UNCHANGED calling
  /\ \/ goto("preProceed")
     \/ goto("finished")
     \/ throttled /\ goto("render")
  /\ control

\* A PreProceedExtension that pops the user's messages.
preProceed ==
  /\ at("preProceed")
  /\ \/ popOne("UserMessage") /\ calling' = TRUE /\ UNCHANGED <<pc, turn>>
     \/ /\ ~containsMessage("UserMessage") /\ goto("proceed")
        /\ UNCHANGED <<calling, messageVars>>
  /\ UNCHANGED <<listVars, observerVars, taskVars, m_mustQuit, throttled>>

\* The loops over the entities also reach those added on the way.
proceedOne ==
  /\ at("proceed") /\ turn \in DOMAIN m_entities
  /\ calling' = TRUE /\ turn' = turn + 1 /\ UNCHANGED pc
  /\ control

proceeded ==
  /\ at("proceed") /\ turn \notin DOMAIN m_entities
  /\ goto("render") /\ UNCHANGED calling
  /\ control

renderOne ==
  /\ at("render") /\ turn \in DOMAIN m_entities
  /\ calling' = TRUE /\ turn' = turn + 1 /\ UNCHANGED pc
  /\ control

\* There may be no renderer, or its timer is not due: the loop is skipped.
\* When the renderer's update fails the application ends.
rendered ==
  /\ at("render") /\ UNCHANGED calling
  /\ \/ /\ turn = 1 \/ turn \notin DOMAIN m_entities
        /\ goto("DestroyEntity") /\ nextCycle
     \/ turn \notin DOMAIN m_entities /\ goto("finished") /\ UNCHANGED m_autoIt
  /\ UNCHANGED <<messageVars, m_entities, destroyed, added, observerVars,
                 taskVars, m_mustQuit, throttled>>

\* Slip: only what can be deleted is taken off the list.
destroyEntity_heapOnly ==
  /\ at("DestroyEntity") /\ popOne("DestroyEntity") /\ UNCHANGED <<pc, turn>>
  /\ LET e == Head(m_data["DestroyEntity"]).value IN
     \/ \E i \in DOMAIN m_entities :
          m_entities[i] = e /\ e \in Heap /\ Destroy(i)
     \/ /\ e \notin Range(m_entities) \cap Heap
        /\ UNCHANGED <<listVars, observerVars>>
  /\ calling' = TRUE
  /\ UNCHANGED <<taskVars, m_mustQuit, throttled>>

destroyEntity ==
  /\ at("DestroyEntity") /\ popOne("DestroyEntity") /\ UNCHANGED <<pc, turn>>
  /\ LET e == Head(m_data["DestroyEntity"]).value IN
     \/ \E i \in DOMAIN m_entities : m_entities[i] = e /\ Destroy(i)
     \/ e \notin Range(m_entities) /\ UNCHANGED <<listVars, observerVars>>
  /\ calling' = TRUE
  /\ UNCHANGED <<taskVars, m_mustQuit, throttled>>

\* The other two handlers go over the list once per message; the message is
\* popped at the end, which nobody sees earlier.
destroyMany(id, Chosen) ==
  /\ at(id) /\ containsMessage(id)
  /\ \/ /\ turn \in DOMAIN m_entities
        /\ \/ /\ m_entities[turn] \in Chosen /\ Destroy(turn)
              /\ calling' = TRUE /\ UNCHANGED turn
           \/ /\ m_entities[turn] \notin Chosen /\ turn' = turn + 1
              /\ UNCHANGED <<calling, listVars, observerVars>>
        /\ UNCHANGED <<pc, messageVars>>
     \/ /\ turn \notin DOMAIN m_entities
        /\ popOne(id) /\ goto(id) /\ calling' = TRUE
        /\ UNCHANGED <<listVars, observerVars>>
  /\ UNCHANGED <<taskVars, m_mustQuit, throttled>>

\* liveInHeap and not liveInSharedPtr; liveInHeap and tagged
destroyAllEntities == destroyMany("DestroyAllEntities", Heap)
destroyEntitiesWithTag ==
  destroyMany("DestroyEntitiesWithTag", Tagged \cap (Heap \cup Shared))

nextHandler ==
  \E part \in {<<"DestroyEntity", "DestroyAllEntities">>,
               <<"DestroyAllEntities", "DestroyEntitiesWithTag">>,
               <<"DestroyEntitiesWithTag", "flush">>} :
    /\ at(part[1]) /\ ~containsMessage(part[1])
    /\ goto(part[2]) /\ UNCHANGED calling
    /\ control

flush ==
  /\ at("flush") /\ flushMessages
  /\ calling' = (outcome' # outcome)
  /\ goto("flushed")
  /\ UNCHANGED <<listVars, observerVars, taskVars, m_mustQuit, throttled>>

flushed ==
  /\ at("flushed") /\ goto("tasks") /\ UNCHANGED calling
  /\ control

\* Slip: every task stays on the list.
taskOne_kept ==
  /\ at("tasks") /\ turn \in DOMAIN m_scheduledTasks
  /\ LET task == m_scheduledTasks[turn] IN
     \/ /\ calling' = TRUE
        /\ runs' = IF task.repeat THEN runs
             ELSE [runs EXCEPT ![task.id] = IF @ < MaxRuns THEN @ + 1 ELSE @]
     \/ ~task.due /\ UNCHANGED <<calling, runs>>
  /\ turn' = turn + 1
  /\ UNCHANGED <<pc, m_scheduledTasks, scheduled, messageVars, listVars,
                 observerVars, m_mustQuit, throttled>>

\* A task that ran and does not repeat leaves the list; nobody can tell
\* whether before or after its function was called.
taskOne ==
  /\ at("tasks") /\ turn \in DOMAIN m_scheduledTasks
  /\ LET task == m_scheduledTasks[turn] IN
     \/ /\ task.repeat /\ calling' = TRUE
        /\ turn' = turn + 1 /\ UNCHANGED <<runs, m_scheduledTasks>>
     \/ /\ ~task.repeat /\ calling' = TRUE
        /\ runs' = [runs EXCEPT ![task.id] = IF @ < MaxRuns THEN @ + 1 ELSE @]
        /\ UNCHANGED turn /\ m_scheduledTasks' = RemoveAt(m_scheduledTasks, turn)
     \/ /\ ~task.due /\ turn' = turn + 1
        /\ UNCHANGED <<calling, runs, m_scheduledTasks>>
  /\ UNCHANGED <<pc, scheduled, messageVars, listVars, observerVars,
                 m_mustQuit, throttled>>

\* Slip: m_mustQuit is not looked at.
bottom_deaf ==
  /\ at("tasks") /\ turn \notin DOMAIN m_scheduledTasks
  /\ goto("top") /\ UNCHANGED calling
  /\ control

bottom ==
  /\ at("tasks") /\ turn \notin DOMAIN m_scheduledTasks
  /\ goto(IF m_mustQuit THEN "finished" ELSE "top") /\ UNCHANGED calling
  /\ control

exec == \/ top \/ preProceed \/ proceedOne \/ proceeded \/ renderOne
        \/ rendered \/ destroyEntity \/ destroyAllEntities
        \/ destroyEntitiesWithTag \/ nextHandler \/ flush \/ flushed \/ taskOne
        \/ bottom

Next == start \/ userCode \/ return \/ exec

\* The loop runs, and every call into the user's code returns.
Spec == Init /\ [][Next]_vars /\ WF_vars(exec) /\ WF_vars(return)

-----------------------------------------------------------------------------
(* Safety *)

(***************************************************************************)
(* Whatever the handlers of the destroy messages erase, in the middle of   *)
(* their own loops or after nextCycle, the list holds no entity twice or   *)
(* after it was deleted, and the list's own iterator is at one of its      *)
(* elements or at its end.                                                 *)
(***************************************************************************)
NothingDangling ==
  /\ \A i, j \in DOMAIN m_entities : m_entities[i] = m_entities[j] => i = j
  /\ Range(m_entities) \cap destroyed = {}
  /\ m_autoIt \in Range(m_entities) \cup {End}

(***************************************************************************)
(* A Promice is in process as long as its message is in exactly one place  *)
(* or its callbacks run, and is settled when they have returned: as failed *)
(* in its message's second flush and in no other, and else as done.        *)
(***************************************************************************)
PromicesMatchMessages ==
  /\ ~calling => m_state = outcome
  /\ \A n \in 1 .. emitted :
       /\ m_state[n] \in {"InProcess", outcome[n]}
       /\ (outcome[n] = "InProcess") <=> (\E m \in Waiting : m.promice = n)
       /\ \A id1, id2 \in MessageId :
            \A i \in DOMAIN m_data[id1], j \in DOMAIN m_data[id2] :
              (m_data[id1][i].promice = n /\ m_data[id2][j].promice = n)
                 => (id1 = id2 /\ i = j)
       /\ (outcome[n] = "Failed") <=> (flushes[n] = 2)

(***************************************************************************)
(* An observer that exists, and was there from the start, knows exactly    *)
(* the entities on the list, although others expire before and after it in *)
(* the list of observers, also in the middle of a notification.            *)
(***************************************************************************)
ObserversAgree == \A o \in Observer \ expired : view[o] = Range(m_entities)

\* No message with this id is flushed before its handler has seen it.
NoneFlushed(id) ==
  \A m \in Range(m_data[id]) : outcome'[m.promice] # "Failed"

(***************************************************************************)
(* No message is flushed before its handler has seen it.  A request to    *)
(* destroy entities, emitted by a task after the flush or by a callback of *)
(* a later handler after its own, outlives the flush before its handler    *)
(* runs again; a message to a handler that pops in every proceed does so   *)
(* while every turn of the loop proceeds (no setProccedInterval).          *)
(***************************************************************************)
MessagesServed ==
  [][\A id \in MessageId : (id = "UserMessage" => ~throttled) => NoneFlushed(id)]_vars

(***************************************************************************)
(* A task that does not repeat runs once and then is gone, and no task is  *)
(* lost, whatever is scheduled while the tasks run.                        *)
(***************************************************************************)
TasksRunOnce ==
  /\ \A i \in DOMAIN m_scheduledTasks :
       ~m_scheduledTasks[i].repeat => runs[m_scheduledTasks[i].id] = 0
  /\ \A t \in 1 .. scheduled :
       \/ \E i \in DOMAIN m_scheduledTasks : m_scheduledTasks[i].id = t
       \/ runs[t] = 1

-----------------------------------------------------------------------------
(* Liveness *)

(***************************************************************************)
(* autoIteratingEntity comes to every entity that stays on the list.       *)
(***************************************************************************)
EveryEntityVisited ==
  \A e \in Entity :
    (e \in Range(m_entities))
      ~> (m_autoIt = e \/ e \notin Range(m_entities) \/ pc \in {"start", "finished"})

(***************************************************************************)
(* An entity somebody asked to destroy leaves the list.                    *)
(***************************************************************************)
RequestHonoured ==
  \A e \in Entity :
    (\E m \in Range(m_data["DestroyEntity"]) : m.value = e)
      ~> (e \notin Range(m_entities) \/ pc \in {"start", "finished"})

(***************************************************************************)
(* After quitLater the loop ends, unless tasks of duration 0 schedule one  *)
(* another for ever: the loop over the tasks reaches those, and MaxTasks    *)
(* bounds them.                                                            *)
(***************************************************************************)
QuitHonoured == m_mustQuit ~> pc \in {"start", "finished"}
=============================================================================
