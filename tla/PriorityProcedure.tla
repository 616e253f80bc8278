------------------------- MODULE PriorityProcedure -------------------------
(***************************************************************************)
(* PriorityProcedure::Queue (utility/priorityprocedure.h, .cpp): functions *)
(* pushed with a priority, which exec calls, the least priority first and  *)
(* those of one priority as they were pushed.  A function may push others. *)
(***************************************************************************)
EXTENDS Integers, Sequences, FiniteSets, SequencesExt

CONSTANTS Priority,      \* priorities used
          MaxProcedures  \* bound: functions pushed in all

ASSUME PriorityProcedureAssumption == Priority \subseteq Int /\ MaxProcedures \in Nat

VARIABLES m_queue,    \* the entries; id is the n-th push there was
          m_index,    \* index of the next entry
          pushed,     \* functions pushed so far
          executing,  \* exec is under way
          called,     \* the entry whose function is being called, or none
          ran,        \* history: the entries called by the last exec
          settled,    \* history: functions pushed before the last exec ended
          disturbed   \* history: a function pushed an entry that goes before it

procedureVars == <<m_queue, m_index, pushed, executing, called, ran,
                  settled, disturbed>>

NoProcedure == [priority |-> 0, index |-> -1, id |-> 0]

InitProcedures ==
  /\ m_queue = {}
  /\ m_index = 0
  /\ pushed = 0
  /\ executing = FALSE
  /\ called = NoProcedure
  /\ ran = <<>>
  /\ settled = 0
  /\ disturbed = FALSE

\* Slip: of one priority the last pushed goes first.
before_last(p, q) ==
  \/ p.priority < q.priority
  \/ p.priority = q.priority /\ p.index > q.index

\* operator<, reversed: std::priority_queue has its greatest entry on top.
before(p, q) ==
  \/ p.priority < q.priority
  \/ p.priority = q.priority /\ p.index < q.index

front == CHOOSE p \in m_queue : \A q \in m_queue \ {p} : before(p, q)

\* By the program between two execs, or by the function that is called.
pushProcedure(priority) ==
  LET entry == [priority |-> priority, index |-> m_index, id |-> pushed + 1]
  IN /\ pushed < MaxProcedures
     /\ executing => called # NoProcedure
     /\ pushed' = pushed + 1
     /\ m_queue' = m_queue \cup {entry}
     /\ m_index' = m_index + 1
     /\ disturbed' = (disturbed \/ (executing /\ before(entry, called)))
     /\ UNCHANGED <<executing, called, ran, settled>>

execBegin ==
  /\ ~executing
  /\ executing' = TRUE
  /\ ran' = <<>>
  /\ disturbed' = FALSE
  /\ UNCHANGED <<m_queue, m_index, pushed, called, settled>>

\* m_queue.top()()
execCall ==
  /\ executing
  /\ called = NoProcedure
  /\ m_queue # {}
  /\ called' = front
  /\ ran' = Append(ran, front)
  /\ UNCHANGED <<m_queue, m_index, pushed, executing, settled, disturbed>>

\* The function returns; pop takes off what is on top by now.
execPop ==
  /\ called # NoProcedure
  /\ m_queue' = m_queue \ {front}
  /\ called' = NoProcedure
  /\ UNCHANGED <<m_index, pushed, executing, ran, settled, disturbed>>

execEnd ==
  /\ executing
  /\ called = NoProcedure
  /\ m_queue = {}
  /\ executing' = FALSE
  /\ m_index' = 0
  /\ settled' = pushed
  /\ UNCHANGED <<m_queue, pushed, called, ran, disturbed>>

NextProcedures ==
  \/ \E priority \in Priority : pushProcedure(priority)
  \/ execBegin
  \/ execCall
  \/ execPop
  \/ execEnd

SpecProcedures == InitProcedures /\ [][NextProcedures]_procedureVars

-----------------------------------------------------------------------------
(***************************************************************************)
(* exec calls every function once, by priority and then by push, those     *)
(* that functions push meanwhile included, and none is left when it ends:  *)
(* unless a function pushes one that goes before itself, since pop then    *)
(* takes off the new entry and the old one is called again.                *)
(***************************************************************************)
EachOnceInOrder ==
  (executing /\ ~disturbed) =>
     /\ \A i, j \in DOMAIN ran : i < j =>
          \/ ran[i].priority < ran[j].priority
          \/ ran[i].priority = ran[j].priority /\ ran[i].id < ran[j].id
     /\ \A i \in DOMAIN ran : ran[i] \in m_queue => ran[i] = called
     /\ \A id \in settled + 1 .. pushed :
          \E p \in m_queue \cup Range(ran) : p.id = id
=============================================================================
