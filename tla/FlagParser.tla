----------------------------- MODULE FlagParser -----------------------------
(***************************************************************************)
(* FlagParser (utility/flagparser.h, flagparser.cpp): the program declares *)
(* its flags in some order, and each declaration takes what belongs to it  *)
(* out of the arguments that are left; whatever is left at the end but the *)
(* program's name is an error.                                             *)
(***************************************************************************)
EXTENDS Integers, Sequences, FiniteSets, SequencesExt, TLC

CONSTANTS Flag,          \* records of shortName, longName ("-n", "--num"),
                         \* kind "bool", "number" or "string", mandatory
          Handled,       \* help and version, as far as the program handles them
          FlagArgument,  \* arguments the program is started with
          MaxArguments,  \* bound: how many of them
          Numeral,       \* argument that begins with a number -> that number
          NumberWidth    \* width of the integer type of the number flags

VARIABLES argv,          \* the arguments without the program's name
          m_arguments,   \* what is left of them
          m_parsedFlags, \* flag -> the value its declaration gave, or error
          stage          \* "none", "declaring", "error", "help", "version", "run"

flagVars == <<argv, m_arguments, m_parsedFlags, stage>>

help == [shortName |-> "-h", longName |-> "--help", kind |-> "bool", mandatory |-> FALSE]
version == [shortName |-> "-v", longName |-> "--version", kind |-> "bool",
            mandatory |-> FALSE]

NotFound == "MandatoryFlagNotFound"
Missing == "ValueAfterFlagMissing"
ParsingFailed == "NumberParsingFailed"
FlagErrors == {NotFound, Missing, ParsingFailed}

Names(f) == {f.shortName, f.longName}
AllFlags == Flag \cup Handled

\* operator>> to a number: stoll reads what the text begins with, and the cast
\* to the flag's type keeps what fits.
number(text) == ToString(Numeral[text] % (2 ^ NumberWidth))

\* A flag that needs no value is never mandatory, no two flags share a name, and
\* no argument and no number is an error.
ASSUME FlagParserAssumption ==
  /\ MaxArguments \in Nat /\ NumberWidth \in Nat \ {0}
  /\ Numeral \in [DOMAIN Numeral -> Nat]
  /\ \A f \in Flag : /\ f.kind \in {"bool", "number", "string"} /\ f.mandatory \in BOOLEAN
                     /\ f.kind = "bool" => ~f.mandatory
  /\ \A f, g \in AllFlags : f # g => Names(f) \cap Names(g) = {}
  /\ Handled \subseteq {help, version} /\ Flag \cap Handled = {}
  /\ FlagErrors \cap (FlagArgument \cup {number(t) : t \in DOMAIN Numeral}) = {}

InitFlags ==
  /\ argv = <<>>
  /\ m_arguments = <<>>
  /\ m_parsedFlags = << >>
  /\ stage = "none"

-----------------------------------------------------------------------------
\* std::find in the arguments, 0 if it is not there.
find(args, a) ==
  IF \E i \in DOMAIN args : args[i] = a
    THEN CHOOSE i \in DOMAIN args : args[i] = a /\ \A j \in 1 .. i - 1 : args[j] # a
    ELSE 0

\* popBoolArg(shortName, longName): the long name is looked for, and taken
\* away, only if the short one is not there.
popBoolArg(args, f) ==
  LET short == find(args, f.shortName)
      long == find(args, f.longName)
      at == IF short > 0 THEN short ELSE long
  IN [value |-> IF at > 0 THEN "true" ELSE "false",
      rest  |-> IF at > 0 THEN RemoveAt(args, at) ELSE args]

\* popArgAfter of one name: the argument after it, whatever that looks like.
popAfter(args, name) ==
  LET at == find(args, name)
  IN IF at = 0 THEN [value |-> NotFound, rest |-> args]
     ELSE IF at = Len(args) THEN [value |-> Missing, rest |-> args]
     ELSE [value |-> args[at + 1], rest |-> RemoveAt(RemoveAt(args, at), at)]

popArgAfter(args, f) ==
  LET short == popAfter(args, f.shortName)
  IN IF short.value = NotFound THEN popAfter(args, f.longName) ELSE short

\* operator>> to the flag's type.
parsed(value, f) ==
  IF value \in FlagErrors \/ f.kind = "string" THEN value
  ELSE IF value \in DOMAIN Numeral THEN number(value)
  ELSE ParsingFailed

\* flag(Flag), flag(OptFlag): an optional flag that is not there is no error.
declared(args, f) ==
  IF f.kind = "bool" THEN popBoolArg(args, f)
  ELSE LET r == popArgAfter(args, f)
           v == parsed(r.value, f)
       IN [r EXCEPT !.value = IF v = NotFound /\ ~f.mandatory THEN "default" ELSE v]

-----------------------------------------------------------------------------
\* parse: coverArgs and the constructor.
Start(args) ==
  /\ stage = "none"
  /\ argv' = args
  /\ m_arguments' = args
  /\ stage' = "declaring"
  /\ UNCHANGED m_parsedFlags

\* One call of flag in declareFlagsFunc, in the order the program likes.
Declare(f) ==
  LET r == declared(m_arguments, f)
  IN /\ stage = "declaring"
     /\ f \notin DOMAIN m_parsedFlags
     /\ m_parsedFlags' = [g \in DOMAIN m_parsedFlags \cup {f} |->
                            IF g = f THEN r.value ELSE m_parsedFlags[g]]
     /\ m_arguments' = r.rest
     /\ UNCHANGED <<argv, stage>>

\* Slip: what is left is not looked at.
hasErrors_lenient(args) ==
  \E f \in DOMAIN m_parsedFlags : m_parsedFlags[f] \in FlagErrors

\* hasErrors; m_arguments of the code still has the program's name in front.
hasErrors(args) ==
  \/ args # <<>>
  \/ \E f \in DOMAIN m_parsedFlags : m_parsedFlags[f] \in FlagErrors

\* help and version in finish: without a handler, the flag is not looked for.
own(args, f) ==
  IF f \in Handled THEN popBoolArg(args, f) ELSE [value |-> "false", rest |-> args]

\* finish: errors go first, so help is not displayed when a mandatory flag is
\* missing.
Finish ==
  LET h == own(m_arguments, help)
      v == own(h.rest, version)
  IN /\ stage = "declaring"
     /\ DOMAIN m_parsedFlags = Flag
     /\ m_arguments' = v.rest
     /\ stage' = IF hasErrors(v.rest) THEN "error"
                 ELSE IF h.value = "true" THEN "help"
                 ELSE IF v.value = "true" THEN "version"
                 ELSE "run"
     /\ UNCHANGED <<argv, m_parsedFlags>>

NextFlags ==
  \/ \E n \in 0 .. MaxArguments : \E args \in [1 .. n -> FlagArgument] : Start(args)
  \/ \E f \in Flag : Declare(f)
  \/ Finish

SpecFlags == InitFlags /\ [][NextFlags]_flagVars

-----------------------------------------------------------------------------
IsName(a) == \E f \in AllFlags : a \in Names(f)
Takes(a) == \E f \in Flag : f.kind # "bool" /\ a \in Names(f)

\* Positions of names, reading the arguments from the left: a value flag and
\* the argument after it go together.
NamePositions ==
  LET start[i \in 0 .. Len(argv)] ==   \* argument i + 1 begins something
        IF i = 0 THEN TRUE ELSE ~(start[i - 1] /\ Takes(argv[i]))
  IN {i \in 1 .. Len(argv) : start[i - 1]}

GoodValue(f, i) ==
  /\ i + 1 \in DOMAIN argv
  /\ f.kind = "number" => argv[i + 1] \in DOMAIN Numeral

(***************************************************************************)
(* As long as no flag's name stands where a value is due, the program runs *)
(* exactly if its arguments, read from the left, are flags that occur once *)
(* each with the value they need, none too few and nothing between them:   *)
(* and the flags then have those values, in whatever order the program     *)
(* declared them.                                                          *)
(***************************************************************************)
RunsIfWellFormed ==
  LET at(f) == {i \in NamePositions : argv[i] \in Names(f)}
      wellFormed ==
        /\ \A i \in NamePositions : IsName(argv[i])
        /\ \A f \in AllFlags : Cardinality(at(f)) <= 1
        /\ \A f \in Flag :
             /\ f.mandatory => at(f) # {}
             /\ f.kind # "bool" => \A i \in at(f) : GoodValue(f, i)
      ambiguous == \E i \in 1 .. Len(argv) - 1 : Takes(argv[i]) /\ IsName(argv[i + 1])
  IN (stage \notin {"none", "declaring"} /\ ~ambiguous) =>
       /\ (stage # "error") <=> wellFormed
       /\ (stage # "error") => \A f \in Flag : \A i \in at(f) :
            m_parsedFlags[f] = IF f.kind = "bool" THEN "true" ELSE parsed(argv[i + 1], f)
=============================================================================
