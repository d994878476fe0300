---------------------------- MODULE ConfigValues -----------------------------
(***************************************************************************)
(* JSON values of configuration files and how ConfigurationParameterNode   *)
(* fills a module's base configuration with the file of an instance.       *)
(* The values of nlohmann's library: an object is a function of its keys,  *)
(* an array a sequence, and numbers have three types.                      *)
(***************************************************************************)
EXTENDS Integers, Sequences, SequencesExt, FiniteSets

CONSTANTS
  Nesting,          \* of each JSON value that files hold: how deep it nests
  MaxNesting        \* bound: of files

Json(type, value) == [type |-> type, value |-> value]
NullJson == Json("null", "null")
Exit == Json("exit", "exit")    \* the process has ended instead

IsNull(j) == j.type = "null"
IsStructured(j) == j.type \in {"object", "array"}
Keys(j) == IF IsStructured(j) THEN DOMAIN j.value ELSE {}

Values == DOMAIN Nesting

ASSUME ValuesAssumption ==
  /\ MaxNesting \in Nat
  /\ \A j \in Values :
       /\ j = Json(j.type, j.value) /\ Nesting[j] \in 0 .. MaxNesting
       /\ j.type \in {"object", "array", "null", "boolean", "string",
                      "number_integer", "number_unsigned", "number_float"}
       /\ \A k \in Keys(j) :
            j.value[k] \in Values /\ Nesting[j.value[k]] < Nesting[j]

(* an instance may leave keys of an object out, not elements of a list     *)
SameKeys(compare, golden) ==
  IF golden.type = "object"
  THEN DOMAIN compare.value \subseteq DOMAIN golden.value
  ELSE DOMAIN compare.value = DOMAIN golden.value

(* Fault: values that differ keep the base's *)
PrimitiveOf_Base(compare, golden) ==
  IF compare.type = golden.type THEN golden ELSE Exit

(* 3 and -3 are of different types, and so are 3 and 3.0                   *)
PrimitiveOf(compare, golden) ==
  IF compare.type = golden.type THEN compare ELSE Exit

CompareStructure[v \in Values \X Values] ==
  LET compare == v[1]
      golden == v[2]
      filled ==
        [k \in DOMAIN golden.value |->
          IF k \in DOMAIN compare.value
          THEN CompareStructure[<<compare.value[k], golden.value[k]>>]
          ELSE golden.value[k]]
  IN  IF ~IsStructured(golden) /\ ~IsStructured(compare)
      THEN PrimitiveOf(compare, golden)
      ELSE IF compare.type # golden.type \/ ~SameKeys(compare, golden) THEN Exit
      ELSE IF \E k \in DOMAIN filled : filled[k].type = "exit" THEN Exit
      ELSE Json(golden.type, filled)

LocalSearch(j, param) ==
  IF j.type = "object" /\ param \in DOMAIN j.value THEN j.value[param]
  ELSE NullJson

-----------------------------------------------------------------------------
(* What values have at the same place, however deep.                       *)
Nothing == Json("nothing", "nothing")
Part(j, k) == IF k \in Keys(j) THEN j.value[k] ELSE Nothing

PartsOf(v) ==
  {[i \in DOMAIN v |-> Part(v[i], k)] : k \in UNION {Keys(v[i]) : i \in DOMAIN v}}

Parts(values) ==
  LET parts[n \in 0 .. MaxNesting] ==
        IF n = 0 THEN {values} ELSE UNION {PartsOf(v) : v \in parts[n - 1]}
  IN  UNION {parts[n] : n \in 0 .. MaxNesting}

(* An instance's file may leave out keys, and has the types of the base's. *)
Fits(own, base) ==
  \A v \in Parts(<<own, base>>) :
    \/ v[1] = Nothing
    \/ /\ v[1].type = v[2].type
       /\ v[1].type = "array" => Keys(v[1]) = Keys(v[2])

IsFilled(filled, own, base) ==
  \A v \in Parts(<<own, base, filled>>) :
    /\ v[3].type = v[2].type
    /\ ~IsStructured(v[2]) => v[3] = IF v[1] = Nothing THEN v[2] ELSE v[1]
=============================================================================
