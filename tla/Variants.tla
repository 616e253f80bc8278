------------------------------ MODULE Variants ------------------------------
(***************************************************************************)
(* Variant (variant.h, variant.cpp): an object that owns one value of any  *)
(* type.  The type is known by an RTTI object, and a variant without one   *)
(* is null.  A value is a record of its type and what it is: num the       *)
(* number it stands for (NaN when it stands for none), text what of it a   *)
(* conversion to a string keeps.                                           *)
(***************************************************************************)
EXTENDS Integers, Sequences, FiniteSets

CONSTANTS Slot,   \* variants the program has
          MaxData \* bound: data allocated in all

ASSUME VariantsAssumption == MaxData \in Nat

\* No pointer, no type, no number.
NoType == "none"
NaN == -1000000

\* Strings: word is no number, prefix starts like one ("1x"), digits is one,
\* long has more digits than a long long.
Str(word, n) == [type |-> "string", num |-> n, text |-> word]
Num(type, n) == [type |-> type, num |-> n, text |-> "number"]
NullValue == [type |-> NoType, num |-> NaN, text |-> "empty"]
Freed == [type |-> NoType, num |-> NaN, text |-> "freed"]

NumberTypes == {"bool", "int", "small", "double"}

\* Variant::containsNumber: digits and nothing but digits.
containsNumber(v) == v.text \in {"digits", "long"}

isNumber(v) == v.type \in NumberTypes \/ (v.type = "string" /\ containsNumber(v))

\* toNumber<long double>: what it returns and whether it throws: it catches
\* invalid_argument of stoll, never out_of_range.
toNumber(v) ==
  LET parses == v.type = "string" /\ v.text \in {"digits", "prefix"}
  IN [num |-> IF v.type \in NumberTypes \/ parses THEN v.num ELSE 0,
      throws |-> v.type = "string" /\ v.text = "long"]

\* fromString: stod takes what a number starts, so no text comes back an int.
fromString(text, n) ==
  IF text \in {"number", "digits", "prefix"} THEN Num("double", n) ELSE Str(text, NaN)

typeSafeCompare(v, w) == v = w /\ v.text # "stale"

\* operator==: of two numbers of different types, the first is compared with
\* itself.
equal(v, w) ==
  IF v.type # w.type
    THEN isNumber(v) /\ isNumber(w) /\ toNumber(v).num = toNumber(v).num
    ELSE typeSafeCompare(v, w)

\* ... which is out_of_range, thrown out of operator==, for too many digits.
equalThrows(v, w) ==
  v.type # w.type /\ isNumber(v) /\ isNumber(w) /\ toNumber(v).throws

-----------------------------------------------------------------------------
VARIABLES variant,   \* per slot, m_rttiObject and m_data
          store,     \* per data, the value, null before it is made, or freed
          allocated, \* data made so far
          crashed    \* a null RTTI object was called

variantVars == <<variant, store, allocated, crashed>>

Fresh == [m_rttiObject |-> NoType, m_data |-> 0]

InitVariants ==
  /\ variant = [s \in Slot |-> Fresh]
  /\ store = [d \in 1 .. MaxData |-> NullValue]
  /\ allocated = 0
  /\ crashed = FALSE

IsFull(x) == x.m_data # 0 /\ x.m_rttiObject # NoType

\* assign<T>, through constructors and operator=: data of another type, or of
\* none, makes room for a new one; destruct goes through the RTTI object.
Assign(s, v) ==
  LET x == variant[s]
      fits == x.m_data # 0 /\ x.m_rttiObject = v.type
      old == IF IsFull(x) THEN [store EXCEPT ![x.m_data] = Freed] ELSE store
  IN IF x.m_data # 0 /\ x.m_rttiObject = NoType
       THEN /\ crashed' = TRUE
            /\ UNCHANGED <<variant, store, allocated>>
     ELSE IF fits
       THEN /\ store' = [store EXCEPT ![x.m_data] = v]
            /\ UNCHANGED <<variant, allocated, crashed>>
     ELSE /\ allocated < MaxData
          /\ allocated' = allocated + 1
          /\ store' = [old EXCEPT ![allocated + 1] = v]
          /\ variant' = [variant EXCEPT ![s] =
               [m_rttiObject |-> v.type, m_data |-> allocated + 1]]
          /\ UNCHANGED crashed

\* Slip: the copy has the data of the original.
AssignCopy_shared(s, t) ==
  /\ variant' = [variant EXCEPT ![s] = variant[t]]
  /\ UNCHANGED <<store, allocated, crashed>>

\* operator= of another variant: the data there was is not destructed, and
\* stays where it is when the other is null.
AssignCopy(s, t) ==
  IF IsFull(variant[t])
    THEN /\ allocated < MaxData
         /\ allocated' = allocated + 1
         /\ store' = [store EXCEPT ![allocated + 1] = store[variant[t].m_data]]
         /\ variant' = [variant EXCEPT ![s] =
              [m_rttiObject |-> variant[t].m_rttiObject, m_data |-> allocated + 1]]
         /\ UNCHANGED crashed
    ELSE /\ variant' = [variant EXCEPT ![s].m_rttiObject = variant[t].m_rttiObject]
         /\ UNCHANGED <<store, allocated, crashed>>

\* ~Variant; another one begins in the slot.
Destruct(s) ==
  /\ variant' = [variant EXCEPT ![s] = Fresh]
  /\ store' = IF IsFull(variant[s])
                THEN [store EXCEPT ![variant[s].m_data] = Freed] ELSE store
  /\ UNCHANGED <<allocated, crashed>>

VariantValues == {Num("int", 0), Num("int", 1), Num("double", 1), Str("word", NaN)}

NextVariants ==
  /\ ~crashed
  /\ \/ \E s \in Slot, v \in VariantValues : Assign(s, v)
     \/ \E s, t \in Slot : AssignCopy(s, t)
     \/ \E s \in Slot : Destruct(s)

SpecVariants == InitVariants /\ [][NextVariants]_variantVars

-----------------------------------------------------------------------------
\* What comparing finds: a variant with stale data is no null one.
valueOf(s) ==
  IF IsFull(variant[s]) THEN store[variant[s].m_data]
  ELSE [NullValue EXCEPT !.text = IF variant[s].m_data = 0 THEN "empty" ELSE "stale"]

\* The steps that are about the variant in this slot.
About(s) ==
  \/ \E v \in VariantValues : Assign(s, v)
  \/ \E t \in Slot : AssignCopy(s, t)
  \/ Destruct(s)

(***************************************************************************)
(* A variant's value is its own.  It is of the type the variant tells, no  *)
(* assignment to another variant and no end of another changes it, and one *)
(* assigned from another is the same by typeSafeCompare: unless a null one *)
(* was assigned to a full one, which keeps data without a type.            *)
(***************************************************************************)
OwnsItsValue ==
  [][\A s \in Slot :
       /\ IsFull(variant[s]) => store[variant[s].m_data].type = variant[s].m_rttiObject
       /\ ~About(s) => valueOf(s)' = valueOf(s)
       /\ \A t \in Slot :
            (AssignCopy(s, t) /\ (variant[s].m_data = 0 \/ IsFull(variant[t])))
               => typeSafeCompare(valueOf(s)', valueOf(t)')]_variantVars

(***************************************************************************)
(* Variants that are numbers are equal only if they are the same number.   *)
(* tests/unit/variantspec.cpp asserts that variants of two types equal     *)
(* certain numbers, 0x1000 and 0x1001, 50 and -50 among them.              *)
(***************************************************************************)
EqualIsSameNumber ==
  \A s, t \in Slot :
    LET v == valueOf(s) w == valueOf(t)
    IN (isNumber(v) /\ isNumber(w) /\ equal(v, w)) => v.num = w.num
=============================================================================
