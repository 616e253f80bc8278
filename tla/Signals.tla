------------------------------ MODULE Signals ------------------------------
(***************************************************************************)
(* Signal and Callback (utility/signal.h, callback.h) over ptr             *)
(* (utility/ptr.h) and Object (object.h, object.cpp): functions connected  *)
(* with or without an object that must be alive for them to be called, any *)
(* number of them with a Signal, one with a Callback.  What is called may  *)
(* connect, disconnect and end objects while the signal is calling.  The   *)
(* program has a Signal or a Callback: they know nothing of each other.    *)
(***************************************************************************)
EXTENDS Naturals, FiniteSets, FiniteSetsExt

CONSTANTS Address,     \* where objects are; one that ended frees its place
          MaxObjects,  \* bound: objects made in all
          MaxHandles   \* bound: connections made in all

ASSUME SignalsAssumption ==
  0 \notin Address /\ MaxObjects \in Nat /\ MaxHandles \in Nat

VARIABLES object,      \* per address, the object there, or NoObject
          lifeInfo,    \* per life flag (named after the first object that
                       \* had it), what it says
          objects,     \* objects made so far
          held,        \* a ptr<Object> the program keeps
          m_f,         \* handles of the callbacks without an object
          m_cf,        \* handle -> ptr of the callbacks with one
          m_nextHandle,
          callback,    \* m_f of the Callback, if it is one that there is
          calling,     \* the loop of operator(): where it is, or Idle
          due,         \* history: handles connected when the loop began
          reached      \* history: handles called since then

signalVars == <<object, lifeInfo, objects, held, m_f, m_cf, m_nextHandle,
                callback, calling, due, reached>>
objectVars == <<object, lifeInfo, objects, held>>

NoObject == [id |-> 0, life |-> 0, onHeap |-> FALSE, m_liveInHeap |-> FALSE,
             shared |-> FALSE]
NullPtr == [data |-> 0, id |-> 0, life |-> 0]
Idle == [part |-> "idle", at |-> 0]
NoFunction == [function |-> "none", object |-> NullPtr]
NoCallback == [function |-> "no callback", object |-> NullPtr]

InitSignals ==
  /\ object = [a \in Address |-> NoObject]
  /\ lifeInfo = [n \in 1 .. MaxObjects |-> FALSE]
  /\ objects = 0
  /\ held = NullPtr
  /\ m_f = {}
  /\ m_cf = << >>
  /\ m_nextHandle = 1
  /\ callback \in {NoCallback, NoFunction}
  /\ calling = Idle
  /\ due = {}
  /\ reached = {}

\* The program runs between two calls of the signal and inside a callback.
ProgramRuns == calling # Idle => calling.at # 0

\* ptr's constructor; id tells which object it was made for.
ptrTo(a) == [data |-> a, id |-> object[a].id, life |-> object[a].life]

\* Slip: a pointer is good as long as there is an object at its address.
isAlive_address(p) == p.data # 0 /\ object[p.data] # NoObject

\* ptr::operator bool
isAlive(p) == p.life # 0 /\ lifeInfo[p.life]

-----------------------------------------------------------------------------
\* The Object constructor tells heap and stack apart by the address; a shared
\* object is one that make_shared made.
Construct(a, onHeap, shared) ==
  /\ ProgramRuns
  /\ object[a] = NoObject /\ objects < MaxObjects
  /\ shared => onHeap
  /\ objects' = objects + 1
  /\ object' = [object EXCEPT ![a] =
       [id |-> objects + 1, life |-> objects + 1, onHeap |-> onHeap,
        m_liveInHeap |-> onHeap, shared |-> shared]]
  /\ lifeInfo' = [lifeInfo EXCEPT ![objects + 1] = TRUE]
  /\ UNCHANGED <<held, m_f, m_cf, m_nextHandle, callback, calling, due, reached>>

\* The copy constructor Object declares nowhere: a copy has the original's life
\* flag and what the original knew of its place.
Copy(a, b, onHeap) ==
  /\ ProgramRuns
  /\ object[a] = NoObject /\ object[b] # NoObject /\ objects < MaxObjects
  /\ objects' = objects + 1
  /\ object' = [object EXCEPT ![a] =
       [object[b] EXCEPT !.id = objects + 1, !.onHeap = onHeap, !.shared = FALSE]]
  /\ UNCHANGED <<lifeInfo, held, m_f, m_cf, m_nextHandle,
                 callback, calling, due, reached>>

\* ~Object
ended(a) ==
  /\ lifeInfo' = [lifeInfo EXCEPT ![object[a].life] = FALSE]
  /\ object' = [object EXCEPT ![a] = NoObject]

\* An owner ends the object: a scope is left, a shared_ptr or a delete.
End(a) ==
  /\ ProgramRuns
  /\ object[a] # NoObject
  /\ ended(a)
  /\ UNCHANGED <<objects, held, m_f, m_cf, m_nextHandle,
                 callback, calling, due, reached>>

Hold(a) ==
  /\ ProgramRuns
  /\ object[a] # NoObject
  /\ held' = ptrTo(a)
  /\ UNCHANGED <<object, lifeInfo, objects, m_f, m_cf,
                 m_nextHandle, callback, calling, due, reached>>

\* ptr::destroy on the ptr that is kept.
DestroyHeld ==
  LET o == object[held.data]
  IN /\ ProgramRuns
     /\ isAlive(held)
     /\ o.m_liveInHeap /\ ~o.shared
     /\ ended(held.data)
     /\ UNCHANGED <<objects, held, m_f, m_cf, m_nextHandle, callback, calling, due, reached>>

-----------------------------------------------------------------------------
HasSignal == callback = NoCallback

Connect ==
  /\ ProgramRuns /\ HasSignal
  /\ m_nextHandle <= MaxHandles
  /\ m_f' = m_f \cup {m_nextHandle}
  /\ m_nextHandle' = m_nextHandle + 1
  /\ UNCHANGED <<objectVars, m_cf, callback, calling, due, reached>>

\* With an object; without a function or with a null one connect only gives 0.
ConnectWith(a) ==
  /\ ProgramRuns /\ HasSignal
  /\ m_nextHandle <= MaxHandles
  /\ object[a] # NoObject
  /\ m_cf' = [h \in DOMAIN m_cf \cup {m_nextHandle} |->
                IF h = m_nextHandle THEN ptrTo(a) ELSE m_cf[h]]
  /\ m_nextHandle' = m_nextHandle + 1
  /\ UNCHANGED <<objectVars, m_f, callback, calling, due, reached>>

\* A callback that disconnects itself erases the entry the loop stands on: that
\* is undefined, and no behaviour here does it.
Disconnect(h) ==
  /\ ProgramRuns
  /\ calling.at # h
  /\ h \in m_f \cup DOMAIN m_cf
  /\ m_f' = m_f \ {h}
  /\ m_cf' = [g \in DOMAIN m_cf \ {h} |-> m_cf[g]]
  /\ UNCHANGED <<objectVars, m_nextHandle, callback, calling, due, reached>>

\* Callback::connect, in place of what was connected.
ConnectCallback(f) ==
  /\ ~HasSignal
  /\ callback' = f
  /\ UNCHANGED <<objectVars, m_f, m_cf, m_nextHandle, calling, due, reached>>

\* What Callback::operator() calls.
callable == \/ callback.function = "plain"
            \/ callback.function = "with" /\ isAlive(callback.object)

\* Callback::disconnect: of an object that ended the function stays.
DisconnectCallback ==
  /\ callable
  /\ callback' = NoFunction
  /\ UNCHANGED <<objectVars, m_f, m_cf, m_nextHandle, calling, due, reached>>

\* operator() is called.  Callbacks that call the signal again are left out.
Invoke ==
  /\ HasSignal /\ calling = Idle
  /\ calling' = [part |-> "m_f", at |-> 0]
  /\ due' = m_f \cup DOMAIN m_cf
  /\ reached' = {}
  /\ UNCHANGED <<objectVars, m_f, m_cf, m_nextHandle, callback>>

AfterInF == {h \in m_f : calling.part = "m_f" /\ h > calling.at}
AfterInCf == {h \in DOMAIN m_cf : calling.part = "m_cf" => h > calling.at}
AliveAfter == {h \in AfterInCf : isAlive(m_cf[h])}

\* The first loop: the next callback without an object.
CallNext ==
  /\ calling # Idle
  /\ AfterInF # {}
  /\ calling' = [calling EXCEPT !.at = Min(AfterInF)]
  /\ reached' = reached \cup {Min(AfterInF)}
  /\ UNCHANGED <<objectVars, m_f, m_cf, m_nextHandle, callback, due>>

\* The second loop: the next callback whose object is alive; the entries of
\* dead ones on the way are erased.
CallNextWith ==
  LET h == Min(AliveAfter)
      dead == {d \in AfterInCf : d < h}
  IN /\ calling # Idle
     /\ AfterInF = {}
     /\ AliveAfter # {}
     /\ m_cf' = [d \in DOMAIN m_cf \ dead |-> m_cf[d]]
     /\ calling' = [part |-> "m_cf", at |-> h]
     /\ reached' = reached \cup {h}
     /\ UNCHANGED <<objectVars, m_f, m_nextHandle, callback, due>>

Return ==
  /\ calling # Idle
  /\ AfterInF = {}
  /\ AliveAfter = {}
  /\ m_cf' = [d \in DOMAIN m_cf \ AfterInCf |-> m_cf[d]]
  /\ calling' = Idle
  /\ UNCHANGED <<objectVars, m_f, m_nextHandle, callback, due, reached>>

NextSignals ==
  \/ \E a \in Address, onHeap, shared \in BOOLEAN : Construct(a, onHeap, shared)
  \/ \E a, b \in Address, onHeap \in BOOLEAN : Copy(a, b, onHeap)
  \/ \E a \in Address : End(a) \/ Hold(a)
  \/ DestroyHeld
  \/ Connect
  \/ \E a \in Address : ConnectWith(a)
  \/ \E h \in 1 .. MaxHandles : Disconnect(h)
  \/ ConnectCallback([function |-> "plain", object |-> NullPtr])
  \/ \E a \in Address : /\ object[a] # NoObject
                         /\ ConnectCallback([function |-> "with", object |-> ptrTo(a)])
  \/ DisconnectCallback
  \/ Invoke
  \/ CallNext
  \/ CallNextWith
  \/ Return

SpecSignals == InitSignals /\ [][NextSignals]_signalVars

-----------------------------------------------------------------------------
\* The object p was made for is still where it was.
There(p) == p.data # 0 /\ object[p.data].id = p.id

(***************************************************************************)
(* A function is called only while the very object it was connected with   *)
(* is there, even if another has taken its address; and when a call of the *)
(* signal returns, every callback that was connected when it began, that   *)
(* nobody disconnected and whose object has lived, has been called.  What  *)
(* a kept ptr calls alive is the object it was made for, so destroy        *)
(* deletes nothing twice; and it deletes nothing that new did not make,    *)
(* unless that is a copy, which carries the original's m_liveInHeap.       *)
(***************************************************************************)
OnlyTheLivingReached ==
  [][/\ \A h \in (reached' \ reached) \cap DOMAIN m_cf : There(m_cf[h])
     /\ (calling # Idle /\ calling' = Idle) =>
           \A h \in due : (h \in m_f \/ (h \in DOMAIN m_cf /\ isAlive(m_cf[h])))
                             => h \in reached
     /\ isAlive(held) => There(held)
     /\ (callable /\ callback.function = "with") => There(callback.object)
     /\ DestroyHeld => LET o == object[held.data]
                   IN o.onHeap \/ o.id # o.life]_signalVars
=============================================================================
