------------------------------- MODULE Paths -------------------------------
(***************************************************************************)
(* The paths of Additional (additional.cpp), texts of separators, dots and *)
(* letters typed symbol by symbol; what the functions make of one is       *)
(* compared with where its parts lead, walked one by one.                  *)
(***************************************************************************)
EXTENDS Integers, Sequences, SequencesExt

CONSTANTS PathSymbol,     \* symbols that are typed, separators and dots among them
          MaxPathLength,  \* bound: symbols in a text
          ExePath         \* texts that may be the path of the executable

ASSUME PathsAssumption == MaxPathLength \in Nat

VARIABLE typedText

pathVars == <<typedText>>

separator == "/"
Has(text, c) == \E i \in DOMAIN text : text[i] = c

InitPaths == typedText = <<>>

-----------------------------------------------------------------------------
\* split by getline: an empty part between two separators and before the
\* first, none after the last.
split(text, delimiter) ==
  LET step(q, c) == IF c = delimiter
        THEN [parts |-> Append(q.parts, q.part), part |-> <<>>]
        ELSE [q EXCEPT !.part = Append(@, c)]
      end == FoldLeft(step, [parts |-> <<>>, part |-> <<>>], text)
  IN IF end.part = <<>> THEN end.parts ELSE Append(end.parts, end.part)

join(parts) ==
  IF parts = <<>> THEN <<>>
  ELSE FoldLeft(LAMBDA text, part : text \o <<separator>> \o part, Head(parts), Tail(parts))

Up == <<".", ".">>
Here == <<".">>

\* constrainPath: a part that leads up takes the one before it away.  With none
\* before it, pop_back of an empty list is undefined; here it is no change.
constrainPath(text) ==
  LET step(stack, part) ==
        CASE part = Up -> IF stack = <<>> THEN stack ELSE Front(stack)
          [] part \in {Here, <<>>} -> stack
          [] OTHER -> Append(stack, part)
  IN IF text = <<>> THEN text
     ELSE (IF Head(text) = separator THEN <<separator>> ELSE <<>>)
            \o join(FoldLeft(step, <<>>, split(text, separator)))

\* Slip: the path is taken from where the executable is, and it is a file.
absolutePath_beside(text, exe) ==
  IF text = <<>> \/ exe = <<>> THEN <<>>
  ELSE IF Head(text) = separator THEN text
  ELSE constrainPath(exe \o <<separator>> \o text)

\* absolutePath, without the home directory of ~.
absolutePath(text, exe) ==
  IF text = <<>> \/ exe = <<>> THEN <<>>
  ELSE IF Head(text) = separator THEN text
  ELSE constrainPath(exe \o <<separator>> \o Up \o <<separator>> \o text)

\* concatenatePaths: one dot in front is dropped, whatever it belongs to.
concatenatePaths(prefix, text) ==
  LET undotted == IF text # <<>> /\ Head(text) = "." THEN Tail(text) ELSE text
      below == IF undotted # <<>> /\ Head(undotted) = separator THEN undotted
               ELSE <<separator>> \o undotted
  IN (IF Last(prefix) = separator THEN Front(prefix) ELSE prefix) \o below

\* find_last_of(separator), 0 for none: then both have the whole text.
lastSeparator(text) == SelectLastInSeq(text, LAMBDA c : c = separator)
cutPath(text) ==
  IF lastSeparator(text) = 0 THEN text ELSE SubSeq(text, 1, lastSeparator(text) - 1)
pathTopLevelItem(text) == SubSeq(text, lastSeparator(text) + 1, Len(text))

TypeSymbol(c) ==
  /\ Len(typedText) < MaxPathLength
  /\ typedText' = Append(typedText, c)

NextPaths == \E c \in PathSymbol : TypeSymbol(c)

-----------------------------------------------------------------------------
\* Where a text leads: from the root or from here, down these directories,
\* below as many more as it climbs.
place(text) ==
  LET step(q, part) ==
        CASE part = Up -> IF q.down = <<>> THEN [q EXCEPT !.up = @ + 1]
                          ELSE [q EXCEPT !.down = Front(@)]
          [] part \in {Here, <<>>} -> q
          [] OTHER -> [q EXCEPT !.down = Append(@, part)]
  IN FoldLeft(step,
       [rooted |-> text # <<>> /\ Head(text) = separator, up |-> 0, down |-> <<>>],
       split(text, separator))

Climbs(text) == place(text).up > 0
Below(directory, text) == directory \o <<separator>> \o text

(***************************************************************************)
(* As long as a path does not climb out of where it begins: it leads, when *)
(* it is constrained, where it did, and constraining it again changes      *)
(* nothing; an absolute path from the executable's leads to where it leads *)
(* from the executable's directory; put behind another it leads there from *)
(* that one, if its first part is not more than a dot with a dot in front; *)
(* and what is cut off a path and what is left are the path.               *)
(***************************************************************************)
PathsResolve ==
  LET relative == typedText # <<>> /\ Head(typedText) # separator
      dotted == Has(<<typedText[1]>>, ".") /\ ~(Len(typedText) = 1 \/ typedText[2] = separator)
  IN /\ ~Climbs(typedText) =>
          /\ place(constrainPath(typedText)) = place(typedText)
          /\ constrainPath(constrainPath(typedText)) = constrainPath(typedText)
     /\ relative =>
          \A exe \in ExePath :
            LET there == Below(cutPath(exe), typedText)
            IN ~Climbs(there) =>
                 /\ place(absolutePath(typedText, exe)) = place(there)
                 /\ ~dotted => place(concatenatePaths(cutPath(exe), typedText)) = place(there)
     /\ Has(typedText, separator) =>
          Below(cutPath(typedText), pathTopLevelItem(typedText)) = typedText
=============================================================================
