------------------------------ MODULE Settings ------------------------------
(***************************************************************************)
(* The settings of a Context (context.cpp): Variants behind Observers      *)
(* (utility/observer.h), kept from one start of the program to the next in *)
(* a .vof file (readVof and writeVof of additional.cpp), a line of fields  *)
(* per setting.  They are read where the program is and written where it   *)
(* was started from.                                                       *)
(***************************************************************************)
EXTENDS Variants, Lists, SequencesExt

CONSTANTS Setting,        \* ids of settings
          SettingValue,   \* values they are set to
          MaxConnections, \* bound: callbacks connected to a setting in a run
          MaxSets,        \* bound: settings set in all
          MaxRestarts     \* bound: restarts

ASSUME SettingsAssumption ==
  /\ "no file" \notin Setting
  /\ SettingValue \subseteq [type : NumberTypes, num : Int, text : {"number"}]
       \cup [type : {"string"}, num : {NaN}, text : {"word", "empty", "two"}]
       \cup [type : {"string"}, num : Int, text : {"digits", "prefix", "long"}]
  /\ MaxConnections \in Nat /\ MaxSets \in Nat /\ MaxRestarts \in Nat

VARIABLES vof,        \* per directory the file's lines, NoFile if there is none
          cwd,        \* where the program was started
          m_settings, \* per id what Context knows: value and callbacks
          frames,     \* the observers that are notifying, innermost last
          heard,      \* history: per id and connection, the last value heard
          overtaken,  \* history: per id, connections told a value out of date
          stored,     \* history: per directory and id, the value last written
          lastSet,    \* history: per id, what it was last set to, by a program
                      \* started where, and whether over a number of another type
          sets, restarts

settingVars == <<vof, cwd, m_settings, frames, heard, overtaken, stored, lastSet,
                 sets, restarts>>

Directory == {"program", "elsewhere"}
Connections == 1 .. MaxConnections
NoFile == <<[id |-> "no file", fields |-> <<>>]>>
Unknown == [known |-> FALSE, value |-> NullValue, next |-> 0, callbacks |-> {}]
Known(v) == [known |-> TRUE, value |-> v, next |-> 0, callbacks |-> {}]

InitSettings ==
  /\ vof = [d \in Directory |-> NoFile]
  /\ cwd = "program"
  /\ m_settings = [id \in Setting |-> Unknown]
  /\ frames = <<>>
  /\ heard = [id \in Setting |-> [c \in Connections |-> NullValue]]
  /\ overtaken = [id \in Setting |-> {}]
  /\ stored = [d \in Directory |-> [id \in Setting |-> NullValue]]
  /\ lastSet = [id \in Setting |-> [value |-> NullValue, where |-> "program",
                                    overNumber |-> FALSE]]
  /\ sets = 0
  /\ restarts = 0

-----------------------------------------------------------------------------
\* Variant::toString, as split sees it in a line: no field for an empty
\* string, two when it has a delimiter inside.
fields(v) ==
  CASE v.text = "empty" -> <<>>
    [] v.text = "two" -> <<Str("word", NaN), Str("word", NaN)>>
    [] OTHER -> <<v>>

\* A line counts only with a field after the id.
isEntry(line) == line.fields # <<>>

readVof(lines, id) ==
  LET named == {i \in DOMAIN lines : isEntry(lines[i]) /\ lines[i].id = id}
      first == CHOOSE i \in named : \A j \in named : i <= j
  IN IF named = {} THEN Str("empty", NaN) ELSE Head(lines[first].fields)

\* Slip: a line that is there already is not looked for.
writeVof_append(lines, id, v) ==
  IF lines = NoFile THEN <<[id |-> id, fields |-> fields(v)]>>
  ELSE Append(lines, [id |-> id, fields |-> fields(v)])

\* A setting that has a line: the whole file again, lines that are no entries
\* left out and the others cut after their first field.  Else: one line more.
writeVof(lines, id, v) ==
  LET new == [id |-> id, fields |-> fields(v)]
      entries == Select(lines, {l \in Range(lines) : isEntry(l)})
      cut(l) == IF l.id = id THEN new ELSE [id |-> l.id, fields |-> <<Head(l.fields)>>]
  IN IF lines = NoFile THEN <<new>>
     ELSE IF \E l \in Range(entries) : l.id = id
       THEN [i \in DOMAIN entries |-> cut(entries[i])]
     ELSE Append(lines, new)

-----------------------------------------------------------------------------
\* The program runs between notifications and inside the callbacks they make.
ProgramSets == frames # <<>> => Last(frames).at # 0

\* Context::settingValue, of absolutePath(SettingsFilePath).
loaded(id) ==
  IF m_settings[id].known THEN m_settings[id]
  ELSE LET v == readVof(vof["program"], id)
       IN Known(fromString(v.text, v.num))

\* Observer::connect on it: the callback hears the value at once.
Watch(id) ==
  LET s == loaded(id)
  IN /\ ProgramSets
     /\ s.next < MaxConnections
     /\ m_settings' = [m_settings EXCEPT ![id] =
          [s EXCEPT !.next = s.next + 1, !.callbacks = s.callbacks \cup {s.next + 1}]]
     /\ heard' = [heard EXCEPT ![id][s.next + 1] = s.value]
     /\ UNCHANGED <<vof, cwd, frames, overtaken, stored, lastSet, sets, restarts>>

\* Observer::disconnect; a callback that disconnects itself pulls the entry
\* from under the loop, which is undefined and left out.
Unwatch(id, c) ==
  /\ ProgramSets
  /\ c \in m_settings[id].callbacks
  /\ \A f \in Range(frames) : f.id = id => f.at # c
  /\ m_settings' = [m_settings EXCEPT ![id].callbacks = @ \ {c}]
  /\ heard' = [heard EXCEPT ![id][c] = NullValue]
  /\ overtaken' = [overtaken EXCEPT ![id] = @ \ {c}]
  /\ UNCHANGED <<vof, cwd, frames, stored, lastSet, sets, restarts>>

asked(id, v) ==
  LET old == m_settings[id].value
  IN lastSet' = [lastSet EXCEPT ![id] =
       [value |-> v, where |-> cwd,
        overNumber |-> old.type # v.type /\ isNumber(old) /\ isNumber(v)]]

written(id, v) ==
  /\ vof' = [vof EXCEPT ![cwd] = writeVof(@, id, v)]
  /\ stored' = [stored EXCEPT ![cwd][id] = v]
  /\ asked(id, v)

\* Context::setSettingValue of an id it does not know yet.
SetUnknown(id, v) ==
  /\ ProgramSets
  /\ sets < MaxSets
  /\ ~m_settings[id].known
  /\ written(id, v)
  /\ m_settings' = [m_settings EXCEPT ![id] = Known(v)]
  /\ sets' = sets + 1
  /\ UNCHANGED <<cwd, frames, heard, overtaken, restarts>>

\* Slip: the callbacks are not called if one is being called.
SetKnown_once(id, v) ==
  /\ ProgramSets
  /\ sets < MaxSets
  /\ m_settings[id].known
  /\ ~equal(m_settings[id].value, v)
  /\ written(id, v)
  /\ m_settings' = [m_settings EXCEPT ![id].value = v]
  /\ frames' = IF frames = <<>> THEN <<[id |-> id, value |-> v, at |-> 0]>> ELSE frames
  /\ overtaken' = [overtaken EXCEPT ![id] = {}]
  /\ sets' = sets + 1
  /\ UNCHANGED <<cwd, heard, restarts>>

\* ... of one it knows and whose value operator== finds to differ: the file, and
\* then Observer::operator=, which begins to call the callbacks.  A callback may
\* do this of the id it was called for.
SetKnown(id, v) ==
  /\ ProgramSets
  /\ sets < MaxSets
  /\ m_settings[id].known
  /\ ~equalThrows(m_settings[id].value, v)
  /\ ~equal(m_settings[id].value, v)
  /\ written(id, v)
  /\ m_settings' = [m_settings EXCEPT ![id].value = v]
  /\ frames' = Append(frames, [id |-> id, value |-> v, at |-> 0])
  /\ overtaken' = [overtaken EXCEPT ![id] =
       {c \in Connections : \E f \in Range(frames) : f.id = id /\ c > f.at}]
  /\ sets' = sets + 1
  /\ UNCHANGED <<cwd, heard, restarts>>

\* ... and whose value operator== finds to be the same: nothing is done, though
\* one number may have been another.
SetSame(id, v) ==
  /\ ProgramSets
  /\ sets < MaxSets
  /\ m_settings[id].known
  /\ ~equalThrows(m_settings[id].value, v)
  /\ equal(m_settings[id].value, v)
  /\ asked(id, v)
  /\ sets' = sets + 1
  /\ UNCHANGED <<vof, cwd, m_settings, frames, heard, overtaken, stored, restarts>>

\* Observer::operator=: the loop over the callbacks.
Notify ==
  LET f == Last(frames)
      after == {c \in m_settings[f.id].callbacks : c > f.at}
      next == CHOOSE c \in after : \A d \in after : c <= d
  IN /\ frames # <<>>
     /\ IF after = {}
          THEN /\ frames' = Front(frames)
               /\ UNCHANGED heard
          ELSE /\ frames' = [frames EXCEPT ![Len(frames)].at = next]
               /\ heard' = [heard EXCEPT ![f.id][next] = f.value]
     /\ UNCHANGED <<vof, cwd, m_settings, overtaken, stored, lastSet, sets, restarts>>

\* The program ends and is started again, there or from somewhere else.
Restart(d) ==
  /\ frames = <<>>
  /\ restarts < MaxRestarts
  /\ restarts' = restarts + 1
  /\ cwd' = d
  /\ m_settings' = [id \in Setting |-> Unknown]
  /\ heard' = [id \in Setting |-> [c \in Connections |-> NullValue]]
  /\ overtaken' = [id \in Setting |-> {}]
  /\ UNCHANGED <<vof, frames, stored, lastSet, sets>>

NextSettings ==
  \/ \E id \in Setting : Watch(id)
  \/ \E id \in Setting, c \in Connections : Unwatch(id, c)
  \/ \E id \in Setting, v \in SettingValue :
       SetUnknown(id, v) \/ SetKnown(id, v) \/ SetSame(id, v)
  \/ Notify
  \/ \E d \in Directory : Restart(d)

SpecSettings == InitSettings /\ [][NextSettings]_settingVars

-----------------------------------------------------------------------------
\* A line keeps it: one field, and no text that a number starts.
Keepable(v) == v.type \in NumberTypes \/ (v.type = "string" /\ v.text = "word")

\* What the file in d gives, and what a keepable value becomes there: every
\* number is a double.
Back(d, id) == LET r == readVof(vof[d], id) IN fromString(r.text, r.num)
Reread(v) == IF v.type = "string" THEN v ELSE Num("double", v.num)

(***************************************************************************)
(* Whatever settings were set in between and however often the program was *)
(* started, here or elsewhere: the file in each directory has of a setting *)
(* what was last written there; and the next start reads what the setting  *)
(* was last set to, unless that was done by a program started elsewhere,   *)
(* which writes a file that none reads, or was a number over a number of   *)
(* another type, every loaded one being a double: that is not written at   *)
(* all.  This is so as long as the string has one field in the file and no *)
(* number in front.                                                        *)
(***************************************************************************)
SettingsKept ==
  \A id \in Setting :
    /\ \A d \in Directory :
         Keepable(stored[d][id]) => Back(d, id) = Reread(stored[d][id])
    /\ LET s == lastSet[id]
       IN Keepable(s.value) /\ s.where = "program" /\ ~s.overNumber
            => Back("program", id) = Reread(s.value)

(***************************************************************************)
(* When no observer is notifying, every connected callback has heard the   *)
(* value the setting has; but one that was still to be called when a       *)
(* callback before it set the setting again may have heard the first of    *)
(* the two values last.                                                    *)
(***************************************************************************)
WatchersHeard ==
  frames = <<>> =>
    \A id \in Setting : \A c \in m_settings[id].callbacks :
      heard[id][c] = m_settings[id].value \/ c \in overtaken[id]
=============================================================================
