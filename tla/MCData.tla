------------------------------- MODULE MCData -------------------------------
(***************************************************************************)
(* What the program computes on its data, checked side by side: a          *)
(* behaviour is one of "subject", and the others stay as they began.       *)
(***************************************************************************)
EXTENDS Settings, Json, Paths, Input, Colider

VARIABLE subject

dataVars == <<variantVars, settingVars, jsonVars, pathVars, bufferVars, inputVars,
              coliderVars, subject>>

\* Two numbers, which are loaded as doubles, a string without a number, and one
\* that is two fields of the file.
Values == {Num("int", 2), Num("int", 3), Str("word", NaN), Str("two", NaN)}

One == JsonNumber("int", "1")
Leaves ==
  {One, JsonNull, JsonString(<<>>), JsonString(<<"1">>), JsonString(<<"word">>),
   JsonString(<<"word", Blank, "other">>), JsonString(<<"word", ",", "other">>),
   JsonString(<<"word", Colon, "other">>), JsonString(<<"[">>)}
Nested ==
  {Container("list", <<>>), Container("vector", <<One>>), Container("map", <<>>),
   Container("list", <<JsonNull, JsonString(<<"word">>)>>),
   Container("map", <<Pair(<<"other">>, One)>>)}
Documents ==
  Leaves \cup Nested
    \cup {Container("list", <<v>>) : v \in Leaves \cup Nested}
    \cup {Container("list", <<v, w>>) : v \in Nested, w \in Leaves}
    \cup {Container("map", <<Pair(<<"other">>, v), Pair(<<"word">>, w)>>) :
            v \in Nested, w \in Leaves}
    \cup {Container("map", <<Pair(<<"word", Colon>>, One)>>)}

Executables == {<<"/", "a", "/", "b">>, <<"a", "/", "b">>}

Fields ==
  {[kind |-> "byte", value |-> 7], [kind |-> "word", value |-> 258],
   [kind |-> "word", value |-> 0], [kind |-> "optional", value |-> Nullopt],
   [kind |-> "optional", value |-> 0], [kind |-> "optional", value |-> Top],
   [kind |-> "dyn", value |-> <<>>], [kind |-> "dyn", value |-> <<1, 2>>],
   [kind |-> "list", value |-> <<>>], [kind |-> "list", value |-> <<<<1>>, <<3, 2>>>>]}

\* Two letters, U among them, a digit, a key without a character, the left
\* shift, and a code out of range.
Keys == {4, 24, 30, 41, 225, 600}
Event(client, type, code) == [client |-> client, type |-> type, code |-> code]
Events ==
  {Event(Nobody, KeyDown, k) : k \in Keys}
    \cup {Event(Nobody, KeyUp, 225), Event(Nobody, MouseMotion, 4)}
    \cup {Event(1, KeyDown, 24), Event(1, KeyDown, 225), Event(1, KeyUp, 24),
          Event(1, MouseMotion, 7), Event(1, Quit, 0), Event(Top, KeyDown, 24)}

\* A square, one on its corner, and half of one, the other way round.
Shapes2D ==
  {<< <<0, 0>>, <<16, 0>>, <<16, 16>>, <<0, 16>> >>,
   << <<0, -16>>, <<16, 0>>, <<0, 16>>, <<-16, 0>> >>,
   << <<-8, -8>>, <<-8, 8>>, <<8, -8>> >>}
Places2D == {<<0, 0>>, <<8, 8>>, <<24, -8>>}

DataSymmetry == Permutations(Setting)

InitData ==
  /\ InitVariants
  /\ InitSettings
  /\ InitJson
  /\ InitPaths
  /\ InitBuffer
  /\ InitInput
  /\ InitColiders
  /\ subject \in {"variants", "settings", "json", "paths", "buffer", "input", "coliders"}

NextData ==
  /\ UNCHANGED subject
  /\ \/ /\ subject = "variants" /\ NextVariants
        /\ UNCHANGED <<settingVars, jsonVars, pathVars, bufferVars, inputVars, coliderVars>>
     \/ /\ subject = "settings" /\ NextSettings
        /\ UNCHANGED <<variantVars, jsonVars, pathVars, bufferVars, inputVars, coliderVars>>
     \/ /\ subject = "json" /\ NextJson
        /\ UNCHANGED <<variantVars, settingVars, pathVars, bufferVars, inputVars, coliderVars>>
     \/ /\ subject = "paths" /\ NextPaths
        /\ UNCHANGED <<variantVars, settingVars, jsonVars, bufferVars, inputVars, coliderVars>>
     \/ /\ subject = "buffer" /\ NextBuffer
        /\ UNCHANGED <<variantVars, settingVars, jsonVars, pathVars, inputVars, coliderVars>>
     \/ /\ subject = "input" /\ NextInput
        /\ UNCHANGED <<variantVars, settingVars, jsonVars, pathVars, bufferVars, coliderVars>>
     \/ /\ subject = "coliders" /\ NextColiders
        /\ UNCHANGED <<variantVars, settingVars, jsonVars, pathVars, bufferVars, inputVars>>

SpecData == InitData /\ [][NextData]_dataVars
=============================================================================
