------------------------------ MODULE Strategy ------------------------------
(***************************************************************************)
(* AbstractStrategy (memcontrol/abstractstrategy.h): of the modules whose  *)
(* classes are registered by name in an AbstractFactory, the program       *)
(* activates one at a time.                                                *)
(***************************************************************************)
EXTENDS Naturals, Sequences, FiniteSets, SequencesExt

CONSTANTS ModuleName,    \* KeyType
          DefaultName,   \* KeyType()
          ModuleClass,   \* classes derived from Base
          ModulePlace,   \* addresses of modules
          NullModule     \* the null pointer, or no class

ASSUME StrategyAssumption ==
  DefaultName \in ModuleName /\ NullModule \notin ModulePlace \cup ModuleClass

VARIABLES m_creaters,          \* m_factory: name -> the class it makes
          madeAs,              \* m_factory's m_objects: address -> name
          m_moduleNames,
          m_activeModuleName,
          m_activeModule,
          module               \* address -> class of the module there

strategyVars == <<m_creaters, madeAs, m_moduleNames, m_activeModuleName,
                  m_activeModule, module>>

InitStrategy ==
  /\ m_creaters = [n \in ModuleName |-> NullModule]
  /\ madeAs = [p \in ModulePlace |-> DefaultName]
  /\ m_moduleNames = <<>>
  /\ m_activeModuleName = DefaultName
  /\ m_activeModule = NullModule
  /\ module = [p \in ModulePlace |-> NullModule]

-----------------------------------------------------------------------------
\* addTypeName: a name registered again keeps its place.
withTypeName(names, name) ==
  IF name \in Range(names) THEN names ELSE Append(names, name)

\* registerType: the class a name had before is forgotten.
registerModule(name, class) ==
  /\ m_creaters' = [m_creaters EXCEPT ![name] = class]
  /\ m_moduleNames' = withTypeName(m_moduleNames, name)
  /\ UNCHANGED <<madeAs, m_activeModuleName, m_activeModule, module>>

\* Slip: the module before is not deleted.
activate_leak(name, p) ==
  /\ name # m_activeModuleName
  /\ m_creaters[name] # NullModule
  /\ module[p] = NullModule
  /\ module' = [module EXCEPT ![p] = m_creaters[name]]
  /\ madeAs' = [madeAs EXCEPT ![p] = name]
  /\ m_activeModule' = p
  /\ m_activeModuleName' = name
  /\ UNCHANGED <<m_creaters, m_moduleNames>>

\* activate: the new module is made at p before the old one is deleted.  The
\* active name, whose class may have been registered anew, is no reason to make
\* another, and the default name is the active one while there is none.
activate(name, p) ==
  /\ name # m_activeModuleName
  /\ m_creaters[name] # NullModule
  /\ module[p] = NullModule
  /\ module' = [q \in ModulePlace |-> IF q = p THEN m_creaters[name]
                                      ELSE IF q = m_activeModule THEN NullModule
                                      ELSE module[q]]
  /\ madeAs' = [madeAs EXCEPT ![p] = name]
  /\ m_activeModule' = p
  /\ m_activeModuleName' = name
  /\ UNCHANGED <<m_creaters, m_moduleNames>>

deactivateCurrent ==
  /\ m_activeModule # NullModule
  /\ module' = [module EXCEPT ![m_activeModule] = NullModule]
  /\ m_activeModule' = NullModule
  /\ m_activeModuleName' = DefaultName
  /\ UNCHANGED <<m_creaters, madeAs, m_moduleNames>>

NextStrategy ==
  \/ \E name \in ModuleName, class \in ModuleClass : registerModule(name, class)
  \/ \E name \in ModuleName, p \in ModulePlace : activate(name, p)
  \/ deactivateCurrent

SpecStrategy == InitStrategy /\ [][NextStrategy]_strategyVars

-----------------------------------------------------------------------------
Modules == {p \in ModulePlace : module[p] # NullModule}

(***************************************************************************)
(* The only module there is, if any, is the active one, and the factory    *)
(* and the strategy agree on its name, which is one of those registered,   *)
(* listed once each: however modules are registered anew, activated over   *)
(* one another and deactivated.                                            *)
(***************************************************************************)
OneModuleActive ==
  /\ Modules = {m_activeModule} \ {NullModule}
  /\ Range(m_moduleNames) = {n \in ModuleName : m_creaters[n] # NullModule}
  /\ \A i, j \in DOMAIN m_moduleNames :
       m_moduleNames[i] = m_moduleNames[j] => i = j
  /\ IF m_activeModule = NullModule THEN m_activeModuleName = DefaultName
     ELSE /\ madeAs[m_activeModule] = m_activeModuleName
          /\ m_activeModuleName \in Range(m_moduleNames)
=============================================================================
