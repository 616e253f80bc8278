---------------------------- MODULE MCUtilities ----------------------------
(***************************************************************************)
(* The utilities that know nothing of one another, checked side by side:   *)
(* a behaviour is one of "subject", and the others stay as they began.     *)
(***************************************************************************)
EXTENDS RingBuf, SharedContainer, PriorityProcedure, Signals, Assets, FlagParser,
        CellularAutomaton, Physics, Audio, Strategy

VARIABLE subject

ringBufVars == <<m_buf, m_begin, m_end, result>>
utilityVars == <<ringBufVars, containerVars, procedureVars, signalVars, assetVars,
                 flagVars, automatonVars, physicsVars, audioVars, strategyVars, subject>>

\* A folder beside the program, and one given by its whole path.
BesideProgram == [name |-> "assets", absolute |-> FALSE, prefixes |-> 0]
Elsewhere == [name |-> "mods", absolute |-> TRUE, prefixes |-> 0]

\* Two files for one id, the second without a class, and one of another class.
Files ==
  {[id |-> "station", class |-> "Station", folder |-> BesideProgram, assets |-> {"sprite"}],
   [id |-> "station", class |-> NoName, folder |-> BesideProgram, assets |-> {"sprite"}],
   [id |-> "unit", class |-> "Unit", folder |-> Elsewhere, assets |-> {"sprite"}]}

\* The flags of tests/unit/flagparserspec.cpp, one of each kind.
Flags ==
  {[shortName |-> "-b", longName |-> "--bool", kind |-> "bool", mandatory |-> FALSE],
   [shortName |-> "-n", longName |-> "--num", kind |-> "number", mandatory |-> TRUE],
   [shortName |-> "-s", longName |-> "--str", kind |-> "string", mandatory |-> FALSE]}

\* The program displays its help, but no version: -v is no flag of it.
HandledFlags == {help}

\* What the arguments that are numbers begin with.
Numerals == [t \in {"1", "5", "1x"} |-> IF t = "5" THEN 5 ELSE 1]

\* The width of one is a power of two, and that of the other is not.
Shapes == {<<4, 2>>, <<3, 2>>}

UtilitySymmetry == Permutations(Place) \cup Permutations(Address)

InitUtilities ==
  /\ Init
  /\ InitContainers
  /\ InitProcedures
  /\ InitSignals
  /\ InitAssets
  /\ InitFlags
  /\ InitAutomaton
  /\ InitPhysics
  /\ InitAudio
  /\ InitStrategy
  /\ subject \in {"ring", "container", "procedures", "signal", "assets", "flags",
                 "automaton", "physics", "audio", "strategy"}
  /\ subject # "audio" => samples = Sample /\ channel.valid
  /\ subject # "signal" => callback = NoCallback
  /\ subject # "ring" => m_buf = [i \in Slots |-> CHOOSE e \in Elem : TRUE]

NextUtilities ==
  /\ UNCHANGED subject
  /\ \/ /\ subject = "ring" /\ Next
        /\ UNCHANGED <<containerVars, procedureVars, signalVars, assetVars, flagVars,
                       automatonVars, physicsVars, audioVars, strategyVars>>
     \/ /\ subject = "container" /\ NextContainers
        /\ UNCHANGED <<ringBufVars, procedureVars, signalVars, assetVars, flagVars,
                       automatonVars, physicsVars, audioVars, strategyVars>>
     \/ /\ subject = "procedures" /\ NextProcedures
        /\ UNCHANGED <<ringBufVars, containerVars, signalVars, assetVars, flagVars,
                       automatonVars, physicsVars, audioVars, strategyVars>>
     \/ /\ subject = "signal" /\ NextSignals
        /\ UNCHANGED <<ringBufVars, containerVars, procedureVars, assetVars,
                       flagVars, automatonVars, physicsVars, audioVars, strategyVars>>
     \/ /\ subject = "assets" /\ NextAssets
        /\ UNCHANGED <<ringBufVars, containerVars, procedureVars, signalVars,
                       flagVars, automatonVars, physicsVars, audioVars, strategyVars>>
     \/ /\ subject = "flags" /\ NextFlags
        /\ UNCHANGED <<ringBufVars, containerVars, procedureVars, signalVars,
                       assetVars, automatonVars, physicsVars, audioVars, strategyVars>>
     \/ /\ subject = "automaton" /\ NextAutomaton
        /\ UNCHANGED <<ringBufVars, containerVars, procedureVars, signalVars,
                       assetVars, flagVars, physicsVars, audioVars, strategyVars>>
     \/ /\ subject = "physics" /\ NextPhysics
        /\ UNCHANGED <<ringBufVars, containerVars, procedureVars, signalVars,
                       assetVars, flagVars, automatonVars, audioVars, strategyVars>>
     \/ /\ subject = "audio" /\ NextAudio
        /\ UNCHANGED <<ringBufVars, containerVars, procedureVars, signalVars,
                       assetVars, flagVars, automatonVars, physicsVars, strategyVars>>
     \/ /\ subject = "strategy" /\ NextStrategy
        /\ UNCHANGED <<ringBufVars, containerVars, procedureVars, signalVars,
                       assetVars, flagVars, automatonVars, physicsVars, audioVars>>

SpecUtilities == InitUtilities /\ [][NextUtilities]_utilityVars
=============================================================================
