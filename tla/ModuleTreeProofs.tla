-------------------------- MODULE ModuleTreeProofs ---------------------------
(***************************************************************************)
(* Proofs about ModuleTree and what it extends, ProgramStart and           *)
(* ConfigValues: for every tree of modules, every set of files that nest   *)
(* at most MaxNesting deep, and command lines of any length.               *)
(***************************************************************************)
EXTENDS ModuleTree, ListLemmas

-----------------------------------------------------------------------------
(* Configuration values. *)

ValueTypes == {"object", "array", "null", "boolean", "string",
               "number_integer", "number_unsigned", "number_float"}

(* What the assumption says of a value of a file.                          *)
LEMMA ValueFacts ==
  ASSUME NEW j \in Values
  PROVE  /\ j.type \in ValueTypes /\ Nesting[j] \in 0 .. MaxNesting
         /\ j = Json(j.type, j.value)
         /\ \A k \in Keys(j) : j.value[k] \in Values /\ Nesting[j.value[k]] \in Nat
                               /\ Nesting[j.value[k]] < Nesting[j]
<1>1. /\ j = Json(j.type, j.value) /\ Nesting[j] \in 0 .. MaxNesting
      /\ j.type \in ValueTypes
      /\ \A k \in Keys(j) :
           j.value[k] \in Values /\ Nesting[j.value[k]] < Nesting[j]
  BY ValuesAssumption DEF ValueTypes
<1>2. ASSUME NEW k \in Keys(j) PROVE Nesting[j.value[k]] \in Nat
  <2>1. j.value[k] \in Values
    BY <1>1
  <2>2. Nesting[j.value[k]] \in 0 .. MaxNesting
    BY <2>1, ValuesAssumption
  <2> QED
    BY <2>2, ValuesAssumption
<1> QED
  BY <1>1, <1>2

(* One comparison, with what f says of the members.                        *)
FilledBy(f, compare, golden) ==
  [k \in DOMAIN golden.value |->
    IF k \in DOMAIN compare.value THEN f[<<compare.value[k], golden.value[k]>>]
    ELSE golden.value[k]]

Compared(f, compare, golden) ==
  IF ~IsStructured(golden) /\ ~IsStructured(compare)
  THEN PrimitiveOf(compare, golden)
  ELSE IF compare.type # golden.type \/ ~SameKeys(compare, golden) THEN Exit
  ELSE IF \E k \in DOMAIN FilledBy(f, compare, golden) :
            FilledBy(f, compare, golden)[k].type = "exit" THEN Exit
  ELSE Json(golden.type, FilledBy(f, compare, golden))

(* It depends on f at the members only.                                    *)
LEMMA ComparedOfMembers ==
  ASSUME NEW f, NEW g, NEW compare, NEW golden,
         \A k \in Keys(compare) \cap Keys(golden) :
           f[<<compare.value[k], golden.value[k]>>]
             = g[<<compare.value[k], golden.value[k]>>]
  PROVE  Compared(f, compare, golden) = Compared(g, compare, golden)
<1>1. CASE ~IsStructured(golden) \/ ~IsStructured(compare)
  <2>1. \/ ~IsStructured(golden) /\ ~IsStructured(compare)
        \/ compare.type # golden.type
    BY <1>1 DEF IsStructured
  <2> QED
    BY <2>1 DEF Compared
<1>2. CASE IsStructured(golden) /\ IsStructured(compare)
  <2>1. Keys(golden) = DOMAIN golden.value /\ Keys(compare) = DOMAIN compare.value
    BY <1>2 DEF Keys
  <2>2. FilledBy(f, compare, golden) = FilledBy(g, compare, golden)
    BY <2>1 DEF FilledBy
  <2> QED
    BY <2>2 DEF Compared
<1> QED
  BY <1>1, <1>2

(* There is such a function.                                               *)
LEMMA CompareStructureIs ==
  ASSUME NEW compare \in Values, NEW golden \in Values
  PROVE  CompareStructure[<<compare, golden>>]
           = Compared(CompareStructure, compare, golden)
<1> DEFINE VV == Values \X Values
           Solves(f, n) == /\ f = [v \in VV |-> f[v]]
                           /\ \A v \in VV : Nesting[v[2]] < n
                                => f[v] = Compared(f, v[1], v[2])
           S == {n \in 0 .. MaxNesting + 1 : \E f : Solves(f, n)}
<1>0. MaxNesting \in Nat
  BY ValuesAssumption
<1>1. ASSUME NEW v \in VV PROVE v[1] \in Values /\ v[2] \in Values /\ v = <<v[1], v[2]>>
  OBVIOUS
<1> HIDE DEF VV
<1>2. 0 \in S
  <2> DEFINE f == [v \in VV |-> Exit]
  <2>1. ASSUME NEW v \in VV PROVE ~(Nesting[v[2]] < 0)
    <3>1. Nesting[v[2]] \in 0 .. MaxNesting
      BY <1>1, ValueFacts
    <3> QED
      BY <3>1, <1>0
  <2>2. f = [v \in VV |-> f[v]]
    OBVIOUS
  <2> HIDE DEF f
  <2>3. Solves(f, 0)
    BY <2>1, <2>2
  <2> HIDE DEF Solves
  <2> QED
    BY <1>0, <2>3
<1>3. ASSUME NEW n \in 0 .. MaxNesting + 1, n # MaxNesting + 1, n \in S
      PROVE  n + 1 \in S
  <2>1. PICK f : Solves(f, n)
    BY <1>3
  <2> DEFINE g == [v \in VV |-> Compared(f, v[1], v[2])]
  <2>2. ASSUME NEW v \in VV, Nesting[v[2]] < n + 1
        PROVE  g[v] = Compared(g, v[1], v[2])
    <3> DEFINE a == v[1]
               b == v[2]
    <3>1. ASSUME NEW k \in Keys(a) \cap Keys(b)
          PROVE  f[<<a.value[k], b.value[k]>>] = g[<<a.value[k], b.value[k]>>]
      <4>1. PICK w : w = <<a.value[k], b.value[k]>>
        OBVIOUS
      <4>2. a.value[k] \in Values /\ b.value[k] \in Values
        BY <1>1, ValueFacts
      <4>3. w \in VV /\ w[1] = a.value[k] /\ w[2] = b.value[k]
        BY <4>1, <4>2 DEF VV
      <4>4. Nesting[w[2]] < n
        <5>1. /\ Nesting[b.value[k]] < Nesting[b] /\ Nesting[b.value[k]] \in Nat
              /\ Nesting[b] \in 0 .. MaxNesting
          BY <1>1, ValueFacts
        <5>2. Nesting[b] < n + 1
          BY <2>2
        <5> HIDE DEF b
        <5> QED
          BY <1>0, <4>3, <5>1, <5>2
      <4>5. f[w] = Compared(f, w[1], w[2])
        BY <2>1, <4>3, <4>4
      <4>6. g[w] = Compared(f, w[1], w[2])
        BY <4>3
      <4> QED
        BY <4>1, <4>5, <4>6
    <3>2. g[v] = Compared(f, a, b)
      OBVIOUS
    <3> HIDE DEF g, a, b
    <3>3. Compared(f, a, b) = Compared(g, a, b)
      BY <3>1, ComparedOfMembers
    <3> QED
      BY <3>2, <3>3 DEF a, b
  <2>3. g = [v \in VV |-> g[v]]
    OBVIOUS
  <2> HIDE DEF g
  <2>4. Solves(g, n + 1)
    BY <2>2, <2>3
  <2> HIDE DEF Solves
  <2> QED
    BY <1>0, <1>3, <2>4
<1>4. MaxNesting + 1 \in S
  <2> HIDE DEF S
  <2>1. MaxNesting + 1 \in Nat
    BY <1>0
  <2>2. \A i \in 0 .. MaxNesting + 1 : i \in S
    BY <1>2, <1>3, <2>1, CountUp
  <2> QED
    BY <1>0, <2>2
<1>5. PICK f : /\ f = [v \in VV |-> f[v]]
               /\ \A v \in VV : f[v] = Compared(f, v[1], v[2])
  <2>1. PICK f : Solves(f, MaxNesting + 1)
    BY <1>4
  <2>2. ASSUME NEW v \in VV PROVE Nesting[v[2]] < MaxNesting + 1
    <3>1. Nesting[v[2]] \in 0 .. MaxNesting
      BY <1>1, ValueFacts
    <3> QED
      BY <3>1, <1>0
  <2> QED
    BY <2>1, <2>2
<1> DEFINE Is(h) == h = [v \in VV |-> Compared(h, v[1], v[2])]
<1>6. Is(f)
  BY <1>5
<1>7. CompareStructure = CHOOSE h : Is(h)
  BY DEF CompareStructure, VV, Compared, FilledBy
<1>8. Is(CompareStructure)
  <2> HIDE DEF Is
  <2> QED
    BY <1>6, <1>7
<1>9. <<compare, golden>> \in VV
  BY DEF VV
<1>10. CompareStructure[<<compare, golden>>]
         = Compared(CompareStructure, <<compare, golden>>[1], <<compare, golden>>[2])
  <2> DEFINE cs == CompareStructure
  <2> HIDE DEF cs
  <2>1. cs = [v \in VV |-> Compared(cs, v[1], v[2])]
    BY <1>8 DEF cs
  <2>2. cs[<<compare, golden>>]
          = Compared(cs, <<compare, golden>>[1], <<compare, golden>>[2])
    BY <1>9, <2>1
  <2> QED
    BY <2>2 DEF cs
<1> QED
  BY <1>10
(* What comes out where it is not the end of the process.                  *)
LEMMA ComparedWell ==
  ASSUME NEW c \in Values, NEW g \in Values, NEW r,
         r = CompareStructure[<<c, g>>], r.type # "exit"
  PROVE  /\ c.type = g.type /\ r.type = g.type
         /\ Keys(c) \subseteq Keys(g) /\ Keys(r) = Keys(g)
         /\ c.type = "array" => Keys(c) = Keys(g)
         /\ ~IsStructured(g) => r = c
         /\ \A k \in Keys(g) :
              /\ r.value[k].type # "exit"
              /\ r.value[k] = IF k \in Keys(c)
                              THEN CompareStructure[<<c.value[k], g.value[k]>>]
                              ELSE g.value[k]
<1> DEFINE filled == FilledBy(CompareStructure, c, g)
<1>0. Exit.type = "exit"
  BY DEF Exit, Json
<1>1. r = Compared(CompareStructure, c, g)
  BY CompareStructureIs
<1>2. CASE ~IsStructured(g) /\ ~IsStructured(c)
  <2>1. r = PrimitiveOf(c, g)
    BY <1>1, <1>2 DEF Compared
  <2>2. r = c /\ c.type = g.type
    BY <2>1, <1>0 DEF PrimitiveOf
  <2>3. c.type # "array"
    BY <1>2 DEF IsStructured
  <2> QED
    BY <1>2, <2>2, <2>3 DEF Keys
<1>3. CASE IsStructured(g) \/ IsStructured(c)
  <2>1. /\ c.type = g.type /\ SameKeys(c, g)
        /\ \A k \in DOMAIN filled : filled[k].type # "exit"
        /\ r = Json(g.type, filled)
    BY <1>0, <1>1, <1>3 DEF Compared
  <2>2. r.type = g.type /\ r.value = filled
    BY <2>1 DEF Json
  <2>3. IsStructured(g) /\ IsStructured(c) /\ IsStructured(r)
    BY <1>3, <2>1, <2>2 DEF IsStructured
  <2>4. /\ Keys(g) = DOMAIN g.value /\ Keys(c) = DOMAIN c.value
        /\ Keys(r) = DOMAIN filled
    BY <2>2, <2>3 DEF Keys
  <2>5. DOMAIN filled = DOMAIN g.value
    BY DEF FilledBy
  <2>6. Keys(c) \subseteq Keys(g) /\ (c.type = "array" => Keys(c) = Keys(g))
    BY <2>1, <2>4 DEF SameKeys
  <2>7. \A k \in DOMAIN g.value :
          filled[k] = IF k \in DOMAIN c.value
                      THEN CompareStructure[<<c.value[k], g.value[k]>>]
                      ELSE g.value[k]
    BY DEF FilledBy
  <2> HIDE DEF filled
  <2> QED
    BY <2>1, <2>2, <2>3, <2>4, <2>5, <2>6, <2>7
<1> QED
  BY <1>2, <1>3

(* Why it is, where it is.                                                 *)
LEMMA ComparedBadly ==
  ASSUME NEW c \in Values, NEW g \in Values,
         CompareStructure[<<c, g>>].type = "exit",
         c.type = g.type, c.type = "array" => Keys(c) = Keys(g)
  PROVE  \E k \in Keys(c) :
           \/ k \notin Keys(g)
           \/ k \in Keys(g) /\ CompareStructure[<<c.value[k], g.value[k]>>].type = "exit"
<1> DEFINE filled == FilledBy(CompareStructure, c, g)
<1>1. Compared(CompareStructure, c, g).type = "exit"
  BY CompareStructureIs
<1>2. c.type # "exit" /\ \A k \in Keys(g) : g.value[k].type # "exit"
  <2>1. ASSUME NEW k \in Keys(g) PROVE g.value[k].type # "exit"
    <3>1. g.value[k] \in Values
      BY ValueFacts
    <3>2. g.value[k].type \in ValueTypes
      BY <3>1, ValueFacts
    <3> QED
      BY <3>2 DEF ValueTypes
  <2>2. c.type \in ValueTypes
    BY ValueFacts
  <2> QED
    BY <2>1, <2>2 DEF ValueTypes
<1>3. IsStructured(g) /\ IsStructured(c)
  <2>1. IsStructured(g) <=> IsStructured(c)
    BY DEF IsStructured
  <2>2. ASSUME ~IsStructured(g), ~IsStructured(c) PROVE FALSE
    BY <1>1, <1>2, <2>2 DEF Compared, PrimitiveOf
  <2> QED
    BY <2>1, <2>2
<1>4. Keys(g) = DOMAIN g.value /\ Keys(c) = DOMAIN c.value
  BY <1>3 DEF Keys
<1>5. g.type \in {"object", "array"}
  BY <1>3 DEF IsStructured
<1>6. CASE ~SameKeys(c, g)
  <2>1. ~(Keys(c) \subseteq Keys(g))
    BY <1>4, <1>5, <1>6 DEF SameKeys
  <2> QED
    BY <2>1
<1>7. CASE SameKeys(c, g)
  <2>1. \E k \in DOMAIN filled : filled[k].type = "exit"
    <3>1. Json(g.type, filled).type # "exit"
      BY <1>2 DEF Json
    <3> QED
      BY <1>1, <1>3, <1>7, <3>1 DEF Compared
  <2>2. PICK k \in DOMAIN g.value : filled[k].type = "exit"
    BY <2>1 DEF FilledBy
  <2>3. filled[k] = IF k \in DOMAIN c.value
                    THEN CompareStructure[<<c.value[k], g.value[k]>>]
                    ELSE g.value[k]
    BY DEF FilledBy
  <2> HIDE DEF filled
  <2>4. k \in Keys(c)
    BY <1>2, <1>4, <2>2, <2>3
  <2> QED
    BY <1>4, <2>2, <2>3, <2>4
<1> QED
  BY <1>6, <1>7

-----------------------------------------------------------------------------
(* Parts. *)

(* The part of a value at one of its keys.                                 *)
LEMMA PartFacts ==
  /\ Nothing.type = "nothing" /\ Keys(Nothing) = {}
  /\ \A j \in Values : /\ j # Nothing /\ j.type # "nothing"
                       /\ \A k : Part(j, k) \in Values \cup {Nothing}
  /\ \A j, k : k \in Keys(j) => Part(j, k) = j.value[k]
  /\ \A j, k : k \notin Keys(j) => Part(j, k) = Nothing
<1>1. Nothing.type = "nothing" /\ Keys(Nothing) = {}
  BY DEF Nothing, Json, Keys, IsStructured
<1>2. ASSUME NEW j \in Values PROVE j # Nothing /\ j.type # "nothing"
  <2>1. j.type \in ValueTypes
    BY ValueFacts
  <2>2. j.type # "nothing"
    BY <2>1 DEF ValueTypes
  <2> QED
    BY <1>1, <2>2
<1>3. ASSUME NEW j \in Values, NEW k PROVE Part(j, k) \in Values \cup {Nothing}
  BY ValueFacts DEF Part
<1>4. \A j, k : k \in Keys(j) => Part(j, k) = j.value[k]
  BY DEF Part
<1>5. \A j, k : k \notin Keys(j) => Part(j, k) = Nothing
  BY DEF Part
<1> QED
  BY <1>1, <1>2, <1>3, <1>4, <1>5

(* The parts of a pair, key by key.                                        *)
LEMMA PartsOfTwo ==
  ASSUME NEW a, NEW b
  PROVE  PartsOf(<<a, b>>)
           = {<<Part(a, k), Part(b, k)>> : k \in Keys(a) \cup Keys(b)}
<1> DEFINE v == <<a, b>>
<1>1. DOMAIN v = {1, 2} /\ v[1] = a /\ v[2] = b
  OBVIOUS
<1>2. UNION {Keys(v[i]) : i \in DOMAIN v} = Keys(a) \cup Keys(b)
  BY <1>1
<1>3. ASSUME NEW k
      PROVE  [i \in DOMAIN v |-> Part(v[i], k)] = <<Part(a, k), Part(b, k)>>
  BY <1>1
<1> HIDE DEF v
<1>4. PartsOf(v) = {<<Part(a, k), Part(b, k)>> : k \in Keys(a) \cup Keys(b)}
  BY <1>2, <1>3 DEF PartsOf
<1> QED
  BY <1>4 DEF v

(* The parts of a triple, key by key.                                      *)
LEMMA PartsOfThree ==
  ASSUME NEW a, NEW b, NEW c
  PROVE  PartsOf(<<a, b, c>>)
           = {<<Part(a, k), Part(b, k), Part(c, k)>> :
                k \in Keys(a) \cup Keys(b) \cup Keys(c)}
<1> DEFINE v == <<a, b, c>>
<1>1. DOMAIN v = {1, 2, 3} /\ v[1] = a /\ v[2] = b /\ v[3] = c
  OBVIOUS
<1>2. UNION {Keys(v[i]) : i \in DOMAIN v} = Keys(a) \cup Keys(b) \cup Keys(c)
  BY <1>1
<1>3. ASSUME NEW k
      PROVE  [i \in DOMAIN v |-> Part(v[i], k)]
               = <<Part(a, k), Part(b, k), Part(c, k)>>
  BY <1>1
<1> HIDE DEF v
<1>4. PartsOf(v) = {<<Part(a, k), Part(b, k), Part(c, k)>> :
                      k \in Keys(a) \cup Keys(b) \cup Keys(c)}
  BY <1>2, <1>3 DEF PartsOf
<1> QED
  BY <1>4 DEF v

(* The parts, level by level.                                              *)
LEMMA PartsLevels ==
  ASSUME NEW values
  PROVE  \E p : /\ p[0] = {values}
                /\ \A n \in 1 .. MaxNesting :
                     p[n] = UNION {PartsOf(v) : v \in p[n - 1]}
                /\ Parts(values) = UNION {p[n] : n \in 0 .. MaxNesting}
<1> DEFINE Level(f, n) ==
             IF n = 0 THEN {values} ELSE UNION {PartsOf(v) : v \in f[n - 1]}
           D == 0 .. MaxNesting
           S == {n \in D : \E f : /\ f = [k \in D |-> f[k]]
                                  /\ \A k \in 0 .. n : f[k] = Level(f, k)}
<1>0. MaxNesting \in Nat
  BY ValuesAssumption
<1>1. 0 \in S
  <2> DEFINE f == [k \in D |-> {values}]
  <2>1. f = [k \in D |-> f[k]] /\ f[0] = {values}
    BY <1>0
  <2> HIDE DEF f
  <2>2. \A k \in 0 .. 0 : f[k] = Level(f, k)
    BY <2>1
  <2> HIDE DEF Level
  <2> QED
    BY <1>0, <2>1, <2>2
<1>2. ASSUME NEW n \in D, n # MaxNesting, n \in S PROVE n + 1 \in S
  <2>1. PICK f : /\ f = [k \in D |-> f[k]]
                 /\ \A k \in 0 .. n : f[k] = Level(f, k)
    BY <1>2
  <2> DEFINE h == [k \in D |-> IF k = n + 1 THEN Level(f, k) ELSE f[k]]
  <2>2. h = [k \in D |-> h[k]]
    OBVIOUS
  <2>3. \A k \in D : k # n + 1 => h[k] = f[k]
    OBVIOUS
  <2>4. n + 1 \in D /\ h[n + 1] = Level(f, n + 1)
    BY <1>0, <1>2
  <2> HIDE DEF h
  <2>5. ASSUME NEW k \in 0 .. n + 1 PROVE h[k] = Level(h, k)
    <3>1. k \in D /\ (k # 0 => k - 1 \in D /\ k - 1 # n + 1)
      BY <1>0, <1>2
    <3>2. k # 0 => h[k - 1] = f[k - 1]
      BY <2>3, <3>1
    <3>3. Level(h, k) = Level(f, k)
      BY <3>2
    <3>4. h[k] = Level(f, k)
      <4>1. CASE k = n + 1
        BY <2>4, <4>1
      <4>2. CASE k # n + 1
        <5>1. k \in 0 .. n
          BY <1>2, <4>2
        <5> HIDE DEF Level
        <5> QED
          BY <2>1, <2>3, <3>1, <4>2, <5>1
      <4> QED
        BY <4>1, <4>2
    <3> QED
      BY <3>3, <3>4
  <2> HIDE DEF Level
  <2> QED
    BY <2>2, <2>4, <2>5
<1>3. MaxNesting \in S
  <2> HIDE DEF S
  <2>1. \A n \in 0 .. MaxNesting : n \in S
    BY <1>0, <1>1, <1>2, CountUp
  <2> QED
    BY <1>0, <2>1
<1> DEFINE Is(f) == f = [n \in D |-> Level(f, n)]
           p == CHOOSE f : Is(f)
<1>4. Is(p)
  <2>1. PICK f : /\ f = [k \in D |-> f[k]]
                 /\ \A k \in 0 .. MaxNesting : f[k] = Level(f, k)
    BY <1>3
  <2>2. Is(f)
    <3> HIDE DEF Level
    <3> QED
      BY <2>1
  <2> HIDE DEF Is
  <2> QED
    BY <2>2
<1>5. Parts(values) = UNION {p[n] : n \in 0 .. MaxNesting}
  BY DEF Parts
<1> HIDE DEF p
<1>6. \A n \in D : p[n] = Level(p, n)
  <2> HIDE DEF Level
  <2> QED
    BY <1>4
<1>7. p[0] = {values}
  <2>1. 0 \in D
    BY <1>0
  <2>2. p[0] = Level(p, 0)
    BY <1>6, <2>1
  <2> QED
    BY <2>2
<1>8. ASSUME NEW n \in 1 .. MaxNesting
      PROVE  p[n] = UNION {PartsOf(v) : v \in p[n - 1]}
  <2>1. n \in D /\ n # 0
    BY <1>0
  <2> QED
    BY <1>6, <2>1
<1> QED
  BY <1>5, <1>7, <1>8

(* What holds of the values and passes to parts holds of all parts.        *)
LEMMA PartsWithin ==
  ASSUME NEW G, NEW values \in G, \A v \in G : PartsOf(v) \subseteq G
  PROVE  Parts(values) \subseteq G
<1>0. MaxNesting \in Nat
  BY ValuesAssumption
<1>1. PICK p : /\ p[0] = {values}
               /\ \A n \in 1 .. MaxNesting :
                    p[n] = UNION {PartsOf(v) : v \in p[n - 1]}
               /\ Parts(values) = UNION {p[n] : n \in 0 .. MaxNesting}
  BY PartsLevels
<1> DEFINE S == {n \in 0 .. MaxNesting : p[n] \subseteq G}
<1>2. 0 \in S
  BY <1>0, <1>1
<1>3. ASSUME NEW n \in 0 .. MaxNesting, n # MaxNesting, n \in S PROVE n + 1 \in S
  <2>1. n + 1 \in 1 .. MaxNesting /\ (n + 1) - 1 = n
    BY <1>0, <1>3
  <2>2. p[n + 1] = UNION {PartsOf(v) : v \in p[n]}
    BY <1>1, <2>1
  <2>3. p[n] \subseteq G
    BY <1>3
  <2>4. p[n + 1] \subseteq G
    BY <2>2, <2>3
  <2> QED
    BY <2>1, <2>4
<1>4. \A n \in 0 .. MaxNesting : n \in S
  <2> HIDE DEF S
  <2> QED
    BY <1>0, <1>2, <1>3, CountUp
<1> QED
  BY <1>1, <1>4

-----------------------------------------------------------------------------
(* Shapes. *)

(* The two values of a pair.                                               *)
LEMMA PairOfParts ==
  ASSUME NEW v, NEW a, NEW b, v = <<a, b>>
  PROVE  v[1] = a /\ v[2] = b
OBVIOUS

(* The three values of a triple.                                           *)
LEMMA TripleOfParts ==
  ASSUME NEW v, NEW a, NEW b, NEW c, v = <<a, b, c>>
  PROVE  v[1] = a /\ v[2] = b /\ v[3] = c
OBVIOUS

(* A file fits if the comparison comes to an end.                          *)
LEMMA FitsIfCompared ==
  ASSUME NEW own \in Values, NEW base \in Values,
         CompareStructure[<<own, base>>].type # "exit"
  PROVE  Fits(own, base)
<1> DEFINE Well(o, b) == CompareStructure[<<o, b>>].type # "exit"
           G == {v \in (Values \cup {Nothing}) \X Values :
                   v[1] = Nothing \/ (v[1] \in Values /\ Well(v[1], v[2]))}
<1>1. <<own, base>> \in G
  OBVIOUS
<1>2. ASSUME NEW o \in Values \cup {Nothing}, NEW b \in Values,
             o = Nothing \/ (o \in Values /\ Well(o, b)),
             NEW k \in Keys(o) \cup Keys(b)
      PROVE  <<Part(o, k), Part(b, k)>> \in G
  <2>1. CASE o = Nothing
    <3>1. Part(o, k) = Nothing /\ k \in Keys(b)
      BY <2>1, <1>2, PartFacts
    <3>2. Part(b, k) \in Values
      BY <3>1, PartFacts, ValueFacts
    <3> QED
      BY <3>1, <3>2
  <2>2. CASE o \in Values /\ Well(o, b)
    <3> DEFINE r == CompareStructure[<<o, b>>]
    <3>1. /\ Keys(o) \subseteq Keys(b)
          /\ \A i \in Keys(b) :
               /\ r.value[i].type # "exit"
               /\ r.value[i] = IF i \in Keys(o)
                               THEN CompareStructure[<<o.value[i], b.value[i]>>]
                               ELSE b.value[i]
      BY <2>2, ComparedWell
    <3> HIDE DEF r
    <3>2. k \in Keys(b) /\ Part(b, k) = b.value[k] /\ b.value[k] \in Values
      BY <3>1, PartFacts, ValueFacts
    <3>3. CASE k \in Keys(o)
      <4>1. Part(o, k) = o.value[k] /\ o.value[k] \in Values
        BY <2>2, <3>3, PartFacts, ValueFacts
      <4>2. Well(o.value[k], b.value[k])
        BY <3>1, <3>2, <3>3
      <4> HIDE DEF Well
      <4> QED
        BY <3>2, <4>1, <4>2
    <3>4. CASE k \notin Keys(o)
      <4>1. Part(o, k) = Nothing
        BY <3>4, PartFacts
      <4> QED
        BY <3>2, <4>1
    <3> QED
      BY <3>3, <3>4
  <2> QED
    BY <1>2, <2>1, <2>2
<1>3. ASSUME NEW v \in G PROVE PartsOf(v) \subseteq G
  <2>1. PICK o \in Values \cup {Nothing}, b \in Values : v = <<o, b>>
    OBVIOUS
  <2>2. o = Nothing \/ (o \in Values /\ Well(o, b))
    BY <2>1, PairOfParts
  <2> HIDE DEF G
  <2>3. \A k \in Keys(o) \cup Keys(b) : <<Part(o, k), Part(b, k)>> \in G
    BY <1>2, <2>2
  <2> QED
    BY <2>1, <2>3, PartsOfTwo
<1>4. Parts(<<own, base>>) \subseteq G
  <2> HIDE DEF G
  <2> QED
    BY <1>1, <1>3, PartsWithin
<1>5. ASSUME NEW v \in G
      PROVE  \/ v[1] = Nothing
             \/ /\ v[1].type = v[2].type
                /\ v[1].type = "array" => Keys(v[1]) = Keys(v[2])
  <2>1. CASE v[1] = Nothing
    BY <2>1
  <2>2. CASE v[1] \in Values /\ Well(v[1], v[2])
    <3>1. v[2] \in Values
      OBVIOUS
    <3> QED
      BY <2>2, <3>1, ComparedWell
  <2> QED
    BY <2>1, <2>2
<1> HIDE DEF G
<1> QED
  BY <1>4, <1>5 DEF Fits

(* It does not where a file does not fit: the misfit is found, and it is a *)
(* part.                                                                   *)
LEMMA ComparedIfFits ==
  ASSUME NEW own \in Values, NEW base \in Values, Fits(own, base)
  PROVE  CompareStructure[<<own, base>>].type # "exit"
<1> SUFFICES ASSUME CompareStructure[<<own, base>>].type = "exit"
             PROVE  FALSE
  OBVIOUS
<1>0. MaxNesting \in Nat
  BY ValuesAssumption
<1>1. PICK p : /\ p[0] = {<<own, base>>}
               /\ \A n \in 1 .. MaxNesting :
                    p[n] = UNION {PartsOf(v) : v \in p[n - 1]}
               /\ Parts(<<own, base>>) = UNION {p[n] : n \in 0 .. MaxNesting}
  BY PartsLevels
<1> DEFINE Bad(n, o, b) ==
             /\ o \in Values /\ b \in Values /\ <<o, b>> \in p[n]
             /\ CompareStructure[<<o, b>>].type = "exit"
             /\ Nesting[o] <= MaxNesting - n
           S == {n \in 0 .. MaxNesting : \E o, b : Bad(n, o, b)}
<1>2. 0 \in S
  <2>1. Nesting[own] \in 0 .. MaxNesting
    BY ValueFacts
  <2>2. Bad(0, own, base)
    BY <1>0, <1>1, <2>1
  <2> HIDE DEF Bad
  <2> QED
    BY <1>0, <2>2
<1>3. ASSUME NEW n \in 0 .. MaxNesting, NEW o, NEW b, Bad(n, o, b)
      PROVE  n # MaxNesting /\ n + 1 \in S
  <2>1. /\ o \in Values /\ b \in Values /\ <<o, b>> \in p[n]
        /\ CompareStructure[<<o, b>>].type = "exit"
        /\ Nesting[o] <= MaxNesting - n
    BY <1>3
  <2>2. o.type = b.type /\ (o.type = "array" => Keys(o) = Keys(b))
    <3>1. <<o, b>> \in Parts(<<own, base>>)
      BY <1>1, <2>1
    <3>2. PICK v : v = <<o, b>>
      OBVIOUS
    <3>3. v[1] = o /\ v[2] = b /\ o # Nothing
      BY <2>1, <3>2, PartFacts
    <3> QED
      BY <3>1, <3>2, <3>3 DEF Fits
  <2>3. PICK k \in Keys(o) :
          \/ k \notin Keys(b)
          \/ /\ k \in Keys(b)
             /\ CompareStructure[<<o.value[k], b.value[k]>>].type = "exit"
    BY <2>1, <2>2, ComparedBadly
  <2>4. /\ o.value[k] \in Values /\ Nesting[o.value[k]] \in Nat
        /\ Nesting[o.value[k]] < Nesting[o] /\ Nesting[o] \in 0 .. MaxNesting
    BY <2>1, ValueFacts
  <2>5. n # MaxNesting /\ n + 1 \in 1 .. MaxNesting /\ (n + 1) - 1 = n
    BY <1>0, <2>1, <2>4
  <2>6. <<Part(o, k), Part(b, k)>> \in p[n + 1]
    <3>1. <<Part(o, k), Part(b, k)>> \in PartsOf(<<o, b>>)
      BY PartsOfTwo
    <3>2. p[n + 1] = UNION {PartsOf(v) : v \in p[n]}
      BY <1>1, <2>5
    <3> QED
      BY <2>1, <3>1, <3>2
  <2>7. Part(o, k) = o.value[k]
    BY PartFacts
  <2>8. CASE k \notin Keys(b)
    <3>1. Part(b, k) = Nothing
      BY <2>8, PartFacts
    <3>2. <<o.value[k], Nothing>> \in Parts(<<own, base>>)
      <4>1. n + 1 \in 0 .. MaxNesting
        BY <1>0, <2>5
      <4> QED
        BY <1>1, <2>6, <2>7, <3>1, <4>1
    <3>3. PICK v : v = <<o.value[k], Nothing>>
      OBVIOUS
    <3>4. v[1] = o.value[k] /\ v[2] = Nothing
      BY <3>3
    <3>5. v[1] = Nothing \/ v[1].type = v[2].type
      BY <3>2, <3>3 DEF Fits
    <3> QED
      BY <2>4, <3>4, <3>5, PartFacts
  <2>9. CASE /\ k \in Keys(b)
             /\ CompareStructure[<<o.value[k], b.value[k]>>].type = "exit"
    <3>1. Part(b, k) = b.value[k] /\ b.value[k] \in Values
      BY <2>1, <2>9, PartFacts, ValueFacts
    <3>2. Nesting[o.value[k]] <= MaxNesting - (n + 1)
      BY <1>0, <2>1, <2>4
    <3>3. Bad(n + 1, o.value[k], b.value[k])
      BY <2>4, <2>6, <2>7, <2>9, <3>1, <3>2
    <3> HIDE DEF Bad
    <3> QED
      BY <1>0, <2>5, <3>3
  <2> QED
    BY <2>3, <2>8, <2>9
<1>4. ASSUME NEW n \in 0 .. MaxNesting, n # MaxNesting, n \in S PROVE n + 1 \in S
  <2>1. PICK o, b : Bad(n, o, b)
    BY <1>4
  <2> HIDE DEF S, Bad
  <2> QED
    BY <1>3, <2>1
<1>5. MaxNesting \in S
  <2> HIDE DEF S
  <2>1. \A n \in 0 .. MaxNesting : n \in S
    BY <1>0, <1>2, <1>4, CountUp
  <2> QED
    BY <1>0, <2>1
<1>6. PICK o, b : Bad(MaxNesting, o, b)
  BY <1>5
<1> HIDE DEF S, Bad
<1> QED
  BY <1>0, <1>3, <1>6

(* What comes out is filled.                                               *)
LEMMA FilledIfCompared ==
  ASSUME NEW own \in Values, NEW base \in Values, NEW filled,
         \/ filled = CompareStructure[<<own, base>>] /\ filled.type # "exit"
         \/ own = base /\ filled = base
  PROVE  IsFilled(filled, own, base)
<1> DEFINE R == {CompareStructure[v] : v \in Values \X Values} \cup Values
           Good(o, b, f) ==
             /\ o \in Values \cup {Nothing} /\ b \in Values /\ f \in R
             /\ \/ o \in Values /\ f = CompareStructure[<<o, b>>] /\ f.type # "exit"
                \/ o \in {Nothing, b} /\ f = b
           G == {v \in (Values \cup {Nothing}) \X Values \X R :
                   Good(v[1], v[2], v[3])}
<1>0. \A o, b \in Values : CompareStructure[<<o, b>>] \in R
  OBVIOUS
<1>1. <<own, base, filled>> \in G
  BY <1>0
<1>2. ASSUME NEW o, NEW b, NEW f, Good(o, b, f),
             NEW k \in Keys(o) \cup Keys(b) \cup Keys(f)
      PROVE  <<Part(o, k), Part(b, k), Part(f, k)>> \in G
  <2>0. ASSUME NEW x, NEW y, NEW z, Good(x, y, z) PROVE <<x, y, z>> \in G
    <3>1. /\ x \in Values \cup {Nothing} /\ y \in Values /\ z \in R
      BY <2>0
    <3>2. PICK v : v = <<x, y, z>>
      OBVIOUS
    <3>3. v \in (Values \cup {Nothing}) \X Values \X R
      BY <3>1, <3>2
    <3>4. Good(v[1], v[2], v[3])
      BY <2>0, <3>2, TripleOfParts
    <3> HIDE DEF Good, R
    <3> QED
      BY <3>2, <3>3, <3>4
  <2>1. CASE o \in Values /\ f = CompareStructure[<<o, b>>] /\ f.type # "exit"
    <3>1. /\ Keys(o) \subseteq Keys(b) /\ Keys(f) = Keys(b)
          /\ \A i \in Keys(b) :
               /\ f.value[i].type # "exit"
               /\ f.value[i] = IF i \in Keys(o)
                               THEN CompareStructure[<<o.value[i], b.value[i]>>]
                               ELSE b.value[i]
      <4>1. b \in Values
        BY <1>2
      <4> QED
        BY <2>1, <4>1, ComparedWell
    <3>2. /\ k \in Keys(b) /\ Part(b, k) = b.value[k] /\ b.value[k] \in Values
          /\ Part(f, k) = f.value[k]
      BY <1>2, <3>1, PartFacts, ValueFacts
    <3>3. CASE k \in Keys(o)
      <4>1. Part(o, k) = o.value[k] /\ o.value[k] \in Values
        BY <2>1, <3>3, PartFacts, ValueFacts
      <4>2. Part(f, k) = CompareStructure[<<o.value[k], b.value[k]>>]
            /\ Part(f, k).type # "exit"
        BY <3>1, <3>2, <3>3
      <4>3. Part(f, k) \in R
        BY <1>0, <3>2, <4>1, <4>2
      <4>4. Good(Part(o, k), Part(b, k), Part(f, k))
        BY <3>2, <4>1, <4>2, <4>3
      <4> QED
        BY <2>0, <4>4
    <3>4. CASE k \notin Keys(o)
      <4>1. Part(o, k) = Nothing /\ Part(f, k) = Part(b, k)
        BY <3>1, <3>2, <3>4, PartFacts
      <4>2. Good(Part(o, k), Part(b, k), Part(f, k))
        BY <3>2, <4>1
      <4> QED
        BY <2>0, <4>2
    <3> QED
      BY <3>3, <3>4
  <2>2. CASE o \in {Nothing, b} /\ f = b
    <3>1. k \in Keys(b)
      BY <2>2, PartFacts
    <3>2. Part(b, k) = b.value[k] /\ b.value[k] \in Values
      BY <1>2, <3>1, PartFacts, ValueFacts
    <3>3. Part(o, k) \in {Nothing, Part(b, k)} /\ Part(f, k) = Part(b, k)
      BY <2>2, PartFacts
    <3>4. Good(Part(o, k), Part(b, k), Part(f, k))
      BY <3>2, <3>3
    <3> QED
      BY <2>0, <3>4
  <2> QED
    BY <1>2, <2>1, <2>2
<1>3. ASSUME NEW v \in G PROVE PartsOf(v) \subseteq G
  <2>1. PICK o, b, f : v = <<o, b, f>> /\ Good(o, b, f)
    <3>1. PICK o \in Values \cup {Nothing}, b \in Values, f \in R : v = <<o, b, f>>
      OBVIOUS
    <3>2. v[1] = o /\ v[2] = b /\ v[3] = f
      BY <3>1
    <3>3. Good(v[1], v[2], v[3])
      OBVIOUS
    <3> QED
      BY <3>1, <3>2, <3>3
  <2> HIDE DEF G, Good
  <2>2. \A k \in Keys(o) \cup Keys(b) \cup Keys(f) :
          <<Part(o, k), Part(b, k), Part(f, k)>> \in G
    BY <1>2, <2>1
  <2> QED
    BY <2>1, <2>2, PartsOfThree
<1>4. Parts(<<own, base, filled>>) \subseteq G
  <2> HIDE DEF G
  <2> QED
    BY <1>1, <1>3, PartsWithin
<1>5. ASSUME NEW o, NEW b, NEW f, Good(o, b, f)
      PROVE  /\ f.type = b.type
             /\ ~IsStructured(b) => f = IF o = Nothing THEN b ELSE o
  <2>1. CASE o \in Values /\ f = CompareStructure[<<o, b>>] /\ f.type # "exit"
    <3>1. b \in Values /\ o # Nothing
      BY <1>5, <2>1, PartFacts
    <3> QED
      BY <2>1, <3>1, ComparedWell
  <2>2. CASE o \in {Nothing, b} /\ f = b
    BY <2>2
  <2> QED
    BY <1>5, <2>1, <2>2
<1>6. \A v \in G : Good(v[1], v[2], v[3])
  OBVIOUS
<1> HIDE DEF G, Good
<1> QED
  BY <1>4, <1>5, <1>6 DEF IsFilled

(* A file fits itself.                                                     *)
LEMMA FitsItself ==
  ASSUME NEW base \in Values
  PROVE  Fits(base, base)
<1> DEFINE G == {<<j, j>> : j \in Values}
<1>1. <<base, base>> \in G
  OBVIOUS
<1>2. ASSUME NEW v \in G PROVE PartsOf(v) \subseteq G
  <2>1. PICK j \in Values : v = <<j, j>>
    OBVIOUS
  <2>2. ASSUME NEW k \in Keys(j) PROVE <<Part(j, k), Part(j, k)>> \in G
    <3>1. Part(j, k) \in Values
      BY PartFacts, ValueFacts
    <3> QED
      BY <3>1
  <2>3. PartsOf(v) = {<<Part(j, k), Part(j, k)>> : k \in Keys(j) \cup Keys(j)}
    BY <2>1, PartsOfTwo
  <2> HIDE DEF G
  <2> QED
    BY <2>2, <2>3
<1>3. Parts(<<base, base>>) \subseteq G
  <2> HIDE DEF G
  <2> QED
    BY <1>1, <1>2, PartsWithin
<1>4. \A v \in G : v[1] = v[2]
  OBVIOUS
<1> HIDE DEF G
<1> QED
  BY <1>3, <1>4 DEF Fits

-----------------------------------------------------------------------------
(* The words of a command line. *)

(* A list of lists, flattened: its beginnings, one list after the other.   *)
LEMMA Flattened ==
  ASSUME NEW S, NEW lists \in Seq(Seq(S))
  PROVE  \E p : /\ \A k \in 0 .. Len(lists) : p[k] \in Seq(S)
                /\ p[0] = <<>>
                /\ \A k \in 1 .. Len(lists) : p[k] = p[k - 1] \o lists[k]
                /\ FlattenSeq(lists) = p[Len(lists)]
<1> DEFINE N == Len(lists)
           Level(f, k) == IF k = 1 THEN lists[k] ELSE f[k - 1] \o lists[k]
           D == 1 .. N
           T == {n \in 0 .. N : \E f : /\ f = [k \in D |-> f[k]]
                                       /\ \A k \in 1 .. n : f[k] = Level(f, k)}
<1>0. N \in Nat
  BY LenProperties
<1> HIDE DEF N
<1>1. 0 \in T
  <2> DEFINE f == [k \in D |-> <<>>]
  <2>1. f = [k \in D |-> f[k]]
    OBVIOUS
  <2> HIDE DEF f, Level
  <2> QED
    BY <1>0, <2>1
<1>2. ASSUME NEW n \in 0 .. N, n # N, n \in T PROVE n + 1 \in T
  <2>1. PICK f : /\ f = [k \in D |-> f[k]]
                 /\ \A k \in 1 .. n : f[k] = Level(f, k)
    BY <1>2
  <2> DEFINE h == [k \in D |-> IF k = n + 1 THEN Level(f, k) ELSE f[k]]
  <2>2. h = [k \in D |-> h[k]]
    OBVIOUS
  <2>3. \A k \in D : k # n + 1 => h[k] = f[k]
    OBVIOUS
  <2>4. n + 1 \in D /\ h[n + 1] = Level(f, n + 1)
    BY <1>0, <1>2
  <2> HIDE DEF h
  <2>5. ASSUME NEW k \in 1 .. n + 1 PROVE h[k] = Level(h, k)
    <3>1. k \in D /\ (k # 1 => k - 1 \in D /\ k - 1 # n + 1)
      BY <1>0, <1>2
    <3>2. k # 1 => h[k - 1] = f[k - 1]
      BY <2>3, <3>1
    <3>3. Level(h, k) = Level(f, k)
      BY <3>2
    <3>4. h[k] = Level(f, k)
      <4>1. CASE k = n + 1
        BY <2>4, <4>1
      <4>2. CASE k # n + 1
        <5>1. k \in 1 .. n
          BY <1>2, <4>2
        <5> HIDE DEF Level
        <5> QED
          BY <2>1, <2>3, <3>1, <4>2, <5>1
      <4> QED
        BY <4>1, <4>2
    <3> QED
      BY <3>3, <3>4
  <2>6. n + 1 \in 0 .. N
    BY <1>0, <1>2
  <2> HIDE DEF Level
  <2> QED
    BY <2>2, <2>5, <2>6
<1>3. N \in T
  <2> HIDE DEF T
  <2>1. \A n \in 0 .. N : n \in T
    BY <1>0, <1>1, <1>2, CountUp
  <2> QED
    BY <1>0, <2>1
<1> DEFINE Is(f) == f = [k \in D |-> Level(f, k)]
           flatten == CHOOSE f : Is(f)
<1>4. Is(flatten)
  <2>1. PICK f : /\ f = [k \in D |-> f[k]]
                 /\ \A k \in 1 .. N : f[k] = Level(f, k)
    BY <1>3
  <2>2. Is(f)
    <3> HIDE DEF Level
    <3> QED
      BY <2>1
  <2> HIDE DEF Is
  <2> QED
    BY <2>2
<1>5. FlattenSeq(lists) = IF N = 0 THEN lists ELSE flatten[N]
  BY DEF FlattenSeq, N
<1> HIDE DEF flatten
<1>6. \A k \in D : flatten[k] = Level(flatten, k)
  <2> HIDE DEF Level
  <2> QED
    BY <1>4
<1> DEFINE p == [k \in 0 .. N |-> IF k = 0 THEN <<>> ELSE flatten[k]]
<1>7. p[0] = <<>>
  BY <1>0
<1>8. ASSUME NEW k \in 1 .. N PROVE p[k] = p[k - 1] \o lists[k]
  <2>1. k \in 0 .. N /\ k - 1 \in 0 .. N /\ k # 0
    BY <1>0
  <2>2. p[k] = Level(flatten, k)
    BY <1>6, <2>1
  <2>3. CASE k = 1
    <3>1. p[k - 1] = <<>>
      BY <1>7, <2>3
    <3>2. lists[k] \in Seq(S)
      BY ElementOfSeq DEF N
    <3>3. <<>> \o lists[k] = lists[k]
      BY <3>2, ConcatEmptySeq
    <3> QED
      BY <2>2, <2>3, <3>1, <3>3
  <2>4. CASE k # 1
    <3>1. p[k - 1] = flatten[k - 1]
      BY <2>1, <2>4
    <3> QED
      BY <2>2, <2>4, <3>1
  <2> QED
    BY <2>3, <2>4
<1>9. FlattenSeq(lists) = p[N]
  <2>1. N = 0 => lists = <<>>
    BY EmptySeq DEF N
  <2>2. N \in 0 .. N
    BY <1>0
  <2> QED
    BY <1>5, <2>1, <2>2
<1> HIDE DEF p
<1> DEFINE U == {k \in 0 .. N : p[k] \in Seq(S)}
<1>10. 0 \in U
  <2>1. p[0] \in Seq(S)
    BY <1>7
  <2> QED
    BY <1>0, <2>1
<1>11. ASSUME NEW k \in 0 .. N, k # N, k \in U PROVE k + 1 \in U
  <2>1. k + 1 \in 1 .. N /\ (k + 1) - 1 = k
    BY <1>0, <1>11
  <2>2. p[k + 1] = p[k] \o lists[k + 1]
    BY <1>8, <2>1
  <2>3. lists[k + 1] \in Seq(S)
    BY <2>1, ElementOfSeq DEF N
  <2>4. p[k] \in Seq(S)
    BY <1>11
  <2>5. p[k + 1] \in Seq(S)
    BY <2>2, <2>3, <2>4, ConcatProperties
  <2> QED
    BY <2>1, <2>5
<1>12. \A k \in 0 .. N : k \in U
  <2> HIDE DEF U
  <2> QED
    BY <1>0, <1>10, <1>11, CountUp
<1> QED
  BY <1>7, <1>8, <1>9, <1>12 DEF N

(* p are the beginnings of flat, one list after the other.                 *)
Beginnings(p, lists, flat, S) ==
  /\ lists \in Seq(Seq(S)) /\ \A k \in 0 .. Len(lists) : p[k] \in Seq(S)
  /\ p[0] = <<>>
  /\ \A k \in 1 .. Len(lists) : p[k] = p[k - 1] \o lists[k]
  /\ flat = p[Len(lists)]

WordsAt(p, lists, flat, k) ==
  /\ Len(p[k - 1]) \in Nat /\ Len(p[k]) = Len(p[k - 1]) + Len(lists[k])
  /\ Len(p[k]) <= Len(flat)
  /\ \A i \in 1 .. Len(lists[k]) : flat[Len(p[k - 1]) + i] = lists[k][i]

(* Where the words of a list are in what it is flattened to.               *)
LEMMA WordsOfList ==
  ASSUME NEW S, NEW lists, NEW p, NEW flat,
         Beginnings(p, lists, flat, S), NEW k \in 1 .. Len(lists)
  PROVE  WordsAt(p, lists, flat, k)
<1> DEFINE N == Len(lists)
           T == {d \in 0 .. N - k :
                   /\ Len(p[k]) <= Len(p[k + d])
                   /\ \A i \in 1 .. Len(p[k]) : p[k + d][i] = p[k][i]}
<1> lists \in Seq(Seq(S))
  BY DEF Beginnings
<1>0. N \in Nat /\ k \in 1 .. N /\ k - 1 \in 0 .. N /\ k \in 0 .. N /\ N - k \in Nat
  BY LenProperties
<1>1. /\ \A j \in 0 .. N : p[j] \in Seq(S) /\ Len(p[j]) \in Nat
      /\ \A j \in 1 .. N : p[j] = p[j - 1] \o lists[j]
      /\ flat = p[N]
  BY LenProperties DEF Beginnings
<1>2. \A j \in 1 .. N : lists[j] \in Seq(S) /\ Len(lists[j]) \in Nat
  BY ElementOfSeq, LenProperties
<1> HIDE DEF N
<1>3. ASSUME NEW j \in 1 .. N
      PROVE  /\ Len(p[j]) = Len(p[j - 1]) + Len(lists[j])
             /\ \A i \in 1 .. Len(p[j - 1]) : p[j][i] = p[j - 1][i]
             /\ \A i \in 1 .. Len(lists[j]) :
                  p[j][Len(p[j - 1]) + i] = lists[j][i]
  <2>1. j - 1 \in 0 .. N
    BY <1>0
  <2>2. PICK a \in Seq(S), b \in Seq(S) : a = p[j - 1] /\ b = lists[j]
    BY <1>1, <1>2, <2>1
  <2>3. p[j] = a \o b /\ Len(a) \in Nat /\ Len(b) \in Nat
    BY <1>1, <2>2, LenProperties
  <2>4. /\ Len(a \o b) = Len(a) + Len(b)
        /\ \A i \in 1 .. Len(a) : (a \o b)[i] = a[i]
        /\ \A i \in 1 .. Len(b) : (a \o b)[Len(a) + i] = b[i]
    BY <2>3, ConcatProperties
  <2> QED
    BY <2>2, <2>3, <2>4
<1>4. 0 \in T
  <2>1. k + 0 = k
    BY <1>0
  <2>2. Len(p[k]) \in Nat
    BY <1>0, <1>1
  <2> QED
    BY <1>0, <2>1, <2>2
<1>5. ASSUME NEW d \in 0 .. N - k, d # N - k, d \in T PROVE d + 1 \in T
  <2>1. k + d \in 0 .. N /\ k + (d + 1) \in 1 .. N /\ (k + (d + 1)) - 1 = k + d
    BY <1>0, <1>5
  <2>2. PICK j \in 1 .. N : j = k + (d + 1) /\ j - 1 = k + d
    BY <2>1
  <2>3. Len(p[k]) \in Nat /\ Len(p[j - 1]) \in Nat /\ Len(lists[j]) \in Nat
    BY <1>0, <1>1, <1>2, <2>1, <2>2
  <2>4. /\ Len(p[k]) <= Len(p[j - 1])
        /\ \A i \in 1 .. Len(p[k]) : p[j - 1][i] = p[k][i]
    BY <1>5, <2>2
  <2>5. /\ Len(p[j]) = Len(p[j - 1]) + Len(lists[j])
        /\ \A i \in 1 .. Len(p[j - 1]) : p[j][i] = p[j - 1][i]
    BY <1>3
  <2>6. Len(p[k]) <= Len(p[j]) /\ \A i \in 1 .. Len(p[k]) : p[j][i] = p[k][i]
    <3>1. \A x, y, z \in Nat : x <= y => x <= y + z /\ 1 .. x \subseteq 1 .. y
      OBVIOUS
    <3>2. Len(p[k]) <= Len(p[j]) /\ 1 .. Len(p[k]) \subseteq 1 .. Len(p[j - 1])
      BY <2>3, <2>4, <2>5, <3>1
    <3> QED
      BY <2>4, <2>5, <3>2
  <2>7. d + 1 \in 0 .. N - k
    BY <1>0, <1>5
  <2> QED
    BY <2>2, <2>6, <2>7
<1>6. /\ Len(p[k]) <= Len(flat)
      /\ \A i \in 1 .. Len(p[k]) : flat[i] = p[k][i]
  <2>1. \A d \in 0 .. N - k : d \in T
    <3> HIDE DEF T
    <3> QED
      BY <1>0, <1>4, <1>5, CountUp
  <2>2. N - k \in T /\ k + (N - k) = N
    <3>1. N - k \in 0 .. N - k /\ k + (N - k) = N
      BY <1>0
    <3> HIDE DEF T
    <3> QED
      BY <2>1, <3>1
  <2> QED
    BY <1>1, <2>2
<1>7. Len(p[k]) = Len(p[k - 1]) + Len(lists[k]) /\ Len(p[k - 1]) \in Nat
      /\ Len(lists[k]) \in Nat
  BY <1>0, <1>1, <1>2, <1>3
<1>8. ASSUME NEW i \in 1 .. Len(lists[k])
      PROVE  flat[Len(p[k - 1]) + i] = lists[k][i]
  <2>1. Len(p[k - 1]) + i \in 1 .. Len(p[k])
    <3>1. \A x, y \in Nat : \A z \in 1 .. y : x + z \in 1 .. x + y
      OBVIOUS
    <3>2. Len(p[k - 1]) + i \in 1 .. Len(p[k - 1]) + Len(lists[k])
      BY <1>7, <3>1
    <3> QED
      BY <1>7, <3>2
  <2>2. p[k][Len(p[k - 1]) + i] = lists[k][i]
    BY <1>0, <1>3
  <2> QED
    BY <1>6, <2>1, <2>2
<1> QED
  BY <1>6, <1>7, <1>8 DEF WordsAt

(* What is behind the first of a list.                                     *)
LEMMA TailType ==
  ASSUME NEW S, NEW t \in Seq(S), Len(t) > 1
  PROVE  Tail(t) \in Seq(S) /\ Tail(t) # <<>>
<1>1. t # <<>>
  OBVIOUS
<1>2. Tail(t) \in Seq(S) /\ Len(Tail(t)) = Len(t) - 1
  BY <1>1, HeadTailProperties
<1>3. Len(Tail(t)) # 0
  BY <1>2
<1> QED
  BY <1>2, <1>3, EmptySeq

(* The argument map, one text after the other.                             *)
Texts == {text \in Seq(STRING) : Len(text) > 1 /\ Head(text) \in ArgKeys}
ArgMaps == [ArgKeys -> Seq(STRING)]

LEMMA ArgMapAppend ==
  ASSUME NEW texts \in Seq(Texts)
  PROVE  /\ ArgMap(<<>>) = [key \in ArgKeys |-> <<>>]
         /\ ArgMap(texts) \in ArgMaps
         /\ \A text \in Texts :
              ArgMap(Append(texts, text))
                = [ArgMap(texts) EXCEPT ![Head(text)] = Tail(text)]
<1> DEFINE Empty == [key \in ArgKeys |-> <<>>]
           Level(f, s, k) == IF k = 0 THEN Empty
                             ELSE [f[k - 1] EXCEPT ![Head(s[k])] = Tail(s[k])]
           Is(f, s) == f = [k \in 0 .. Len(s) |-> Level(f, s, k)]
<1>1. ASSUME NEW s \in Seq(Texts) PROVE \E f : Is(f, s)
  <2> DEFINE N == Len(s)
             D == 0 .. N
             T == {n \in D : \E f : /\ f = [k \in D |-> f[k]]
                                    /\ \A k \in 0 .. n : f[k] = Level(f, s, k)}
  <2>0. N \in Nat
    BY LenProperties
  <2>1. 0 \in T
    <3> DEFINE f == [k \in D |-> Empty]
    <3>1. f = [k \in D |-> f[k]] /\ f[0] = Empty
      BY <2>0
    <3> HIDE DEF f
    <3>2. \A k \in 0 .. 0 : f[k] = Level(f, s, k)
      BY <3>1
    <3> HIDE DEF Level
    <3> QED
      BY <2>0, <3>1, <3>2
  <2>2. ASSUME NEW n \in D, n # N, n \in T PROVE n + 1 \in T
    <3>1. PICK f : /\ f = [k \in D |-> f[k]]
                   /\ \A k \in 0 .. n : f[k] = Level(f, s, k)
      BY <2>2
    <3> DEFINE h == [k \in D |-> IF k = n + 1 THEN Level(f, s, k) ELSE f[k]]
    <3>2. h = [k \in D |-> h[k]]
      OBVIOUS
    <3>3. \A k \in D : k # n + 1 => h[k] = f[k]
      OBVIOUS
    <3>4. n + 1 \in D /\ h[n + 1] = Level(f, s, n + 1)
      BY <2>0, <2>2
    <3> HIDE DEF h
    <3>5. ASSUME NEW k \in 0 .. n + 1 PROVE h[k] = Level(h, s, k)
      <4>1. k \in D /\ (k # 0 => k - 1 \in D /\ k - 1 # n + 1)
        BY <2>0, <2>2
      <4>2. k # 0 => h[k - 1] = f[k - 1]
        BY <3>3, <4>1
      <4>3. Level(h, s, k) = Level(f, s, k)
        BY <4>2
      <4>4. h[k] = Level(f, s, k)
        <5>1. CASE k = n + 1
          BY <3>4, <5>1
        <5>2. CASE k # n + 1
          <6>1. k \in 0 .. n
            BY <2>2, <5>2
          <6> HIDE DEF Level
          <6> QED
            BY <3>1, <3>3, <4>1, <5>2, <6>1
        <5> QED
          BY <5>1, <5>2
      <4> QED
        BY <4>3, <4>4
    <3> HIDE DEF Level
    <3> QED
      BY <3>2, <3>4, <3>5 DEF ArgMaps
  <2>3. N \in T
    <3> HIDE DEF T
    <3>1. \A n \in 0 .. N : n \in T
      BY <2>0, <2>1, <2>2, CountUp
    <3> QED
      BY <2>0, <3>1
  <2>4. PICK f : /\ f = [k \in D |-> f[k]]
                 /\ \A k \in 0 .. N : f[k] = Level(f, s, k)
    BY <2>3
  <2>5. Is(f, s)
    <3> HIDE DEF Level
    <3> QED
      BY <2>4
  <2> HIDE DEF Is
  <2> QED
    BY <2>5
<1> DEFINE map(s) == CHOOSE f : Is(f, s)
<1>2. ASSUME NEW s \in Seq(Texts)
      PROVE  /\ ArgMap(s) = map(s)[Len(s)]
             /\ \A k \in 0 .. Len(s) : map(s)[k] = Level(map(s), s, k)
  <2>1. Is(map(s), s)
    <3> HIDE DEF Is
    <3> QED
      BY <1>1
  <2>2. ArgMap(s) = map(s)[Len(s)]
    BY DEF ArgMap
  <2> HIDE DEF map, Level
  <2> QED
    BY <2>1, <2>2
<1> HIDE DEF map
<1>3. ArgMap(<<>>) = Empty
  <2>1. \A S : <<>> \in Seq(S) /\ Len(<<>>) = 0
    OBVIOUS
  <2>2. PICK s \in Seq(Texts) : s = <<>> /\ Len(s) = 0
    BY <2>1
  <2> HIDE DEF Level
  <2>3. ArgMap(s) = map(s)[0] /\ map(s)[0] = Level(map(s), s, 0)
    <3>1. 0 \in 0 .. Len(s)
      BY <2>2
    <3> QED
      BY <1>2, <2>2, <3>1
  <2> QED
    BY <2>2, <2>3 DEF Level
<1>4. ASSUME NEW s \in Seq(Texts)
      PROVE  \A k \in 0 .. Len(s) : map(s)[k] \in ArgMaps
  <2> DEFINE U == {k \in 0 .. Len(s) : map(s)[k] \in ArgMaps}
  <2>0. Len(s) \in Nat
    BY LenProperties
  <2>1. 0 \in U
    <3>0. 0 \in 0 .. Len(s)
      BY <2>0
    <3>1. map(s)[0] = Level(map(s), s, 0) /\ 0 \in 0 .. Len(s)
      <4> HIDE DEF Level
      <4> QED
        BY <1>2, <3>0
    <3>2. Empty \in ArgMaps
      <4>1. \A S : <<>> \in Seq(S)
        OBVIOUS
      <4> QED
        BY <4>1 DEF ArgMaps
    <3> QED
      BY <3>1, <3>2
  <2>2. ASSUME NEW k \in 0 .. Len(s), k # Len(s), k \in U PROVE k + 1 \in U
    <3>1. k + 1 \in 1 .. Len(s) /\ (k + 1) - 1 = k /\ k + 1 \in 0 .. Len(s)
      BY <2>0, <2>2
    <3>2. map(s)[k + 1] = [map(s)[k] EXCEPT ![Head(s[k + 1])] = Tail(s[k + 1])]
      <4>1. map(s)[k + 1] = Level(map(s), s, k + 1)
        <5> HIDE DEF Level
        <5> QED
          BY <1>2, <3>1
      <4>2. k + 1 # 0
        BY <3>1
      <4> QED
        BY <3>1, <4>1, <4>2
    <3>3. s[k + 1] \in Texts
      BY <3>1, ElementOfSeq
    <3>4. Tail(s[k + 1]) \in Seq(STRING)
      BY <3>3, TailType DEF Texts
    <3>5. map(s)[k] \in ArgMaps
      BY <2>2
    <3>6. map(s)[k + 1] \in ArgMaps
      BY <3>2, <3>4, <3>5 DEF ArgMaps
    <3> QED
      BY <3>1, <3>6
  <2>3. \A k \in 0 .. Len(s) : k \in U
    <3> HIDE DEF U
    <3> QED
      BY <2>0, <2>1, <2>2, CountUp
  <2> QED
    BY <2>3
<1>5. ArgMap(texts) \in ArgMaps
  <2>1. Len(texts) \in 0 .. Len(texts)
    BY LenProperties
  <2> QED
    BY <1>2, <1>4, <2>1
<1>6. ASSUME NEW text \in Texts
      PROVE  ArgMap(Append(texts, text))
               = [ArgMap(texts) EXCEPT ![Head(text)] = Tail(text)]
  <2> DEFINE N == Len(texts)
  <2>0. N \in Nat
    BY LenProperties
  <2>1. PICK s \in Seq(Texts) : s = Append(texts, text)
    BY AppendProperties
  <2>2. Len(s) = N + 1 /\ s[N + 1] = text /\ \A i \in 1 .. N : s[i] = texts[i]
    BY <2>1, AppendProperties
  <2> HIDE DEF N
  <2> DEFINE U == {k \in 0 .. N : map(s)[k] = map(texts)[k]}
  <2>3. 0 \in U
    <3>1. 0 \in 0 .. Len(s) /\ 0 \in 0 .. Len(texts) /\ 0 \in 0 .. N
      BY <2>0, <2>2 DEF N
    <3>2. map(s)[0] = Level(map(s), s, 0) /\ map(texts)[0] = Level(map(texts), texts, 0)
      BY <1>2, <3>1
    <3> QED
      BY <3>1, <3>2
  <2>4. ASSUME NEW k \in 0 .. N, k # N, k \in U PROVE k + 1 \in U
    <3>1. /\ k + 1 \in 0 .. Len(s) /\ k + 1 \in 0 .. Len(texts)
          /\ k + 1 \in 1 .. N /\ (k + 1) - 1 = k /\ k + 1 # 0
      BY <2>0, <2>2, <2>4 DEF N
    <3>2. /\ map(s)[k + 1] = Level(map(s), s, k + 1)
          /\ map(texts)[k + 1] = Level(map(texts), texts, k + 1)
      BY <1>2, <3>1
    <3>3. s[k + 1] = texts[k + 1] /\ map(s)[k] = map(texts)[k]
      BY <2>2, <2>4, <3>1
    <3>4. Level(map(s), s, k + 1) = Level(map(texts), texts, k + 1)
      BY <3>1, <3>3
    <3> HIDE DEF Level
    <3> QED
      BY <3>1, <3>2, <3>4
  <2>5. \A k \in 0 .. N : k \in U
    <3> HIDE DEF U
    <3> QED
      BY <2>0, <2>3, <2>4, CountUp
  <2>6. map(s)[N] = map(texts)[N]
    BY <2>0, <2>5
  <2>7. ArgMap(s) = Level(map(s), s, N + 1)
    <3>1. N + 1 \in 0 .. Len(s)
      BY <2>0, <2>2
    <3> HIDE DEF Level
    <3> QED
      BY <1>2, <2>2, <3>1
  <2>8. Level(map(s), s, N + 1) = [map(texts)[N] EXCEPT ![Head(text)] = Tail(text)]
    <3>1. N + 1 # 0 /\ (N + 1) - 1 = N
      BY <2>0
    <3> QED
      BY <2>2, <2>6, <3>1
  <2>9. ArgMap(texts) = map(texts)[N]
    BY <1>2 DEF N
  <2> HIDE DEF Level
  <2> QED
    BY <2>1, <2>7, <2>8, <2>9
<1> QED
  BY <1>3, <1>5, <1>6

-----------------------------------------------------------------------------
(* The variables of the command line. *)

ArgsType ==
  [config_root : Words \cup {Null}, verbosity : Words \cup {Null},
   output : Words \cup {Null}, user_args : Seq(Texts),
   debugger_enabled : BOOLEAN, unexpected : BOOLEAN]

StartInv ==
  /\ asked \in Seq(Groups) /\ optind \in Nat \ {0} /\ args \in ArgsType
  /\ config \in PFPConfigs \cup {Null}
  /\ outcome = "parsing" => config = Null
  /\ config = Null => outcome \in {"parsing", "usage", "user_error", "undefined"}

(* Groups are lists of words, and words are strings.                       *)
LEMMA GroupWords ==
  /\ Groups \subseteq Seq(Words) /\ Words \subseteq STRING /\ Null \notin Words
  /\ \A g \in Groups : Len(g) \in 1 .. 3 /\ \A i \in 1 .. Len(g) : g[i] \in Words
<1>1. \A g \in Groups : g \in Seq(Words) /\ Len(g) \in 1 .. 3
  BY StartAssumption
<1>2. \A g \in Groups : \A i \in 1 .. Len(g) : g[i] \in Words
  BY <1>1, ElementOfSeq
<1> QED
  BY <1>1, <1>2, StartAssumption

(* What getopt_long takes a word for.                                      *)
LEMMA WordForm ==
  ASSUME NEW word \in Words
  PROVE  /\ Within(word) \in Words \cup {Null} /\ Size(word) \in {1, 2}
         /\ (Within(word) = Null) = (Size(word) = 2)
<1>1. Form[word] \in Options \X (Words \cup {Null})
  BY StartAssumption
<1> QED
  BY <1>1 DEF Within, Size

(* A key and a value, joined: the key is the first piece.                  *)
LEMMA JoinedText ==
  ASSUME NEW a \in Words, NEW b \in Words
  PROVE  /\ Pieces[a] \o Pieces[b] \in Texts
         /\ Head(Pieces[a] \o Pieces[b]) \in ArgKeys
         /\ Tail(Pieces[a] \o Pieces[b]) # <<>>
<1>1. PICK x, y : /\ x = Pieces[a] /\ y = Pieces[b] /\ x \in Seq(STRING)
                  /\ y \in Seq(STRING) /\ x # <<>> /\ y # <<>>
  BY StartAssumption
<1>2. Len(x) \in Nat /\ Len(y) \in Nat /\ Len(x) > 0 /\ Len(y) > 0
  BY <1>1, LenProperties, EmptySeq
<1>3. x \o y \in Seq(STRING) /\ Len(x \o y) > 1 /\ Head(x \o y) = Head(x)
  <2>1. x \o y \in Seq(STRING) /\ Len(x \o y) = Len(x) + Len(y)
    BY <1>1, ConcatProperties
  <2>2. 1 \in 1 .. Len(x) + Len(y) /\ 1 <= Len(x)
    BY <1>2
  <2>3. (x \o y)[1] = x[1]
    BY <1>1, <2>2
  <2>4. Len(x \o y) > 1
    <3>1. x \o y \in Seq(STRING) /\ Len(x \o y) = Len(x) + Len(y)
      BY <2>1
    <3> DEFINE lx == Len(x)
               ly == Len(y)
    <3>2. lx \in Nat /\ ly \in Nat /\ lx > 0 /\ ly > 0
      BY <1>2
    <3> HIDE DEF lx, ly
    <3>3. lx + ly > 1
      BY <3>2
    <3> QED
      BY <3>1, <3>3 DEF lx, ly
  <2>5. x # <<>> /\ x \o y # <<>>
    <3>1. x # <<>>
      BY <1>1
    <3> DEFINE z == x \o y
    <3>2. z \in Seq(STRING) /\ Len(z) > 1
      BY <2>1, <2>4
    <3> HIDE DEF z
    <3>3. z # <<>>
      BY <3>2, EmptySeq
    <3> QED
      BY <3>1, <3>3 DEF z
  <2>6. Head(x) = x[1] /\ Head(x \o y) = (x \o y)[1]
    <3>1. x \in Seq(STRING) /\ x # <<>> => Head(x) = x[1]
      OBVIOUS
    <3> DEFINE z == x \o y
    <3>2. z \in Seq(STRING) /\ z # <<>>
      BY <2>1, <2>5
    <3> HIDE DEF z
    <3>3. Head(z) = z[1]
      BY <3>2
    <3> QED
      BY <1>1, <3>1, <3>3 DEF z
  <2> QED
    BY <2>1, <2>3, <2>4, <2>6
<1>4. Head(x) \in ArgKeys
  BY <1>1 DEF ArgKeys
<1> QED
  BY <1>1, <1>3, <1>4, TailType DEF Texts

(* argv, which is its words.                                               *)
LEMMA ArgvWords ==
  ASSUME StartInv
  PROVE  /\ argv \in Seq(Words) /\ asked \in Seq(Seq(Words)) /\ Len(asked) \in Nat
         /\ \E p : Beginnings(p, asked, argv, Words)
<1>1. asked \in Seq(Seq(Words))
  BY GroupWords, WiderSeq DEF StartInv
<1>2. PICK p : Beginnings(p, asked, argv, Words)
  BY <1>1, Flattened DEF Beginnings, argv
<1>3. Len(asked) \in Nat
  BY <1>1, LenProperties
<1>4. argv \in Seq(Words)
  BY <1>2, <1>3 DEF Beginnings
<1> QED
  BY <1>1, <1>2, <1>3, <1>4

(* The variables of parse_args have their types before it reads.           *)
LEMMA StartInvInit ==
  ASSUME StartInit PROVE StartInv
<1>1. asked \in Seq(Groups)
  <2>1. PICK n \in 0 .. MaxGroups : asked \in [1 .. n -> Groups]
    BY DEF StartInit
  <2>2. n \in Nat
    BY StartAssumption
  <2> QED
    BY <2>1, <2>2
<1>2. \A S : <<>> \in Seq(S)
  OBVIOUS
<1>3. args \in ArgsType
  <2>1. <<>> \in Seq(Texts)
    BY <1>2
  <2> QED
    BY <2>1 DEF StartInit, ArgsType
<1> QED
  BY <1>1, <1>3 DEF StartInit, StartInv

(* What PFPConfig is given.                                                *)
LEMMA ConfigType ==
  ASSUME NEW a \in ArgsType, OrDefault(a.verbosity, "normal") \in Levels
  PROVE  [verbo |-> OrDefault(a.verbosity, "normal"),
          ConfigFilePath |-> WithSlash(OrDefault(a.config_root, "./Configs/")),
          OutputDirPath |-> OrDefault(a.output, "./"),
          argMap |-> ArgMap(a.user_args),
          debugger_flag |-> a.debugger_enabled] \in PFPConfigs
<1>1. OrDefault(a.config_root, "./Configs/") \in Words \cup {"./Configs/"}
  BY DEF ArgsType, OrDefault
<1>2. OrDefault(a.output, "./") \in Words \cup {"./"}
  BY DEF ArgsType, OrDefault
<1>3. ArgMap(a.user_args) \in [ArgKeys -> Seq(STRING)]
  <2>1. a.user_args \in Seq(Texts)
    BY DEF ArgsType
  <2> QED
    BY <2>1, ArgMapAppend DEF ArgMaps
<1>4. a.debugger_enabled \in BOOLEAN
  BY DEF ArgsType
<1> QED
  BY <1>1, <1>2, <1>3, <1>4 DEF PFPConfigs

(* The option read and its argument are words.                             *)
LEMMA ReadWords ==
  ASSUME StartInv, optind <= Len(argv)
  PROVE  /\ argv \in Seq(Words) /\ Len(argv) \in Nat
         /\ argv[optind] \in Words /\ Behind \in Nat \ {0}
         /\ HasArgument => optarg \in Words
<1>1. argv \in Seq(Words) /\ Len(argv) \in Nat /\ optind \in Nat \ {0}
  BY ArgvWords, LenProperties DEF StartInv
<1>2. argv[optind] \in Words
  BY <1>1, ElementOfSeq
<1>3. /\ Within(argv[optind]) \in Words \cup {Null}
      /\ Size(argv[optind]) \in {1, 2}
      /\ Within(argv[optind]) = Null <=> Size(argv[optind]) = 2
  BY <1>2, WordForm
<1>4. Behind \in Nat \ {0}
  BY <1>1, <1>3 DEF Behind
<1>5. ASSUME HasArgument, Within(argv[optind]) = Null
      PROVE  argv[optind + 1] \in Words
  <2>1. optind + 1 \in 1 .. Len(argv)
    BY <1>1, <1>3, <1>5 DEF HasArgument, Behind
  <2> QED
    BY <1>1, <2>1, ElementOfSeq
<1> QED
  BY <1>1, <1>2, <1>3, <1>4, <1>5 DEF optarg

(* One more option with its argument.                                      *)
LEMMA OnceOptionInv ==
  ASSUME StartInv, NEW option, NEW field \in {"config_root", "verbosity", "output"},
         OnceOption(option, field)
  PROVE  StartInv'
<1>1. optind <= Len(argv)
  BY DEF OnceOption, Reads
<1>2. CASE HasArgument /\ args[field] = Null
  <2>1. args' = [args EXCEPT ![field] = optarg] /\ Goes(Behind)
    BY <1>2 DEF OnceOption
  <2>2. optarg \in Words /\ Behind \in Nat \ {0}
    BY <1>1, <1>2, ReadWords
  <2>3. args' \in ArgsType
    BY <2>1, <2>2 DEF StartInv, ArgsType
  <2> QED
    BY <2>1, <2>2, <2>3 DEF Goes, StartInv
<1>3. CASE ~(HasArgument /\ args[field] = Null)
  <2>1. Ends("usage")
    BY <1>3 DEF OnceOption
  <2> QED
    BY <2>1 DEF Ends, StartInv
<1> QED
  BY <1>2, <1>3

(* -X keeps them: it takes one more word of the line.                      *)
LEMMA UserOptionInv ==
  ASSUME StartInv, UserOption PROVE StartInv'
<1>1. optind <= Len(argv)
  BY DEF UserOption, Reads
<1>2. CASE Ends("usage") \/ Ends("undefined")
  BY <1>2 DEF Ends, StartInv
<1>3. CASE /\ Behind <= Len(argv)
           /\ args' = [args EXCEPT !.user_args =
                         Append(@, Pieces[optarg] \o Pieces[argv[Behind]])]
           /\ Goes(Behind + 1)
  <2>1. /\ argv \in Seq(Words) /\ Len(argv) \in Nat /\ Behind \in Nat \ {0}
        /\ HasArgument => optarg \in Words
    BY <1>1, ReadWords
  <2>2. HasArgument /\ Behind \in 1 .. Len(argv)
    BY <1>3, <2>1 DEF HasArgument
  <2>3. optarg \in Words /\ argv[Behind] \in Words
    BY <2>1, <2>2, ElementOfSeq
  <2> DEFINE text == Pieces[optarg] \o Pieces[argv[Behind]]
  <2>4. text \in Texts
    BY <2>3, JoinedText
  <2> HIDE DEF text
  <2>5. Append(args.user_args, text) \in Seq(Texts)
    BY <2>4, AppendProperties DEF StartInv, ArgsType
  <2>6. args' = [args EXCEPT !.user_args = Append(args.user_args, text)]
    BY <1>3 DEF text
  <2>7. args' \in ArgsType
    BY <2>5, <2>6 DEF StartInv, ArgsType
  <2> QED
    BY <1>3, <2>1, <2>7 DEF Goes, StartInv
<1> QED
  BY <1>2, <1>3 DEF UserOption

(* Each step of parse_args keeps them, PFPConfig's included.               *)
LEMMA StartInvStep ==
  ASSUME StartInv, StartNext PROVE StartInv'
<1>1. CASE OnceOption("c", "config_root")
  BY <1>1, OnceOptionInv
<1>2. CASE OnceOption("v", "verbosity")
  BY <1>2, OnceOptionInv
<1>3. CASE OnceOption("o", "output")
  BY <1>3, OnceOptionInv
<1>4. CASE UserOption
  BY <1>4, UserOptionInv
<1>5. CASE DebuggerOption
  <2>1. args' = [args EXCEPT !.debugger_enabled = TRUE] /\ Goes(optind + 1)
    BY <1>5 DEF DebuggerOption
  <2>2. args' \in ArgsType
    BY <2>1 DEF StartInv, ArgsType
  <2> QED
    BY <2>1, <2>2 DEF Goes, StartInv
<1>6. CASE HelpOrBad \/ UserOptionAlone
  BY <1>6 DEF HelpOrBad, UserOptionAlone, Ends, StartInv
<1>7. CASE Unexpected
  <2>1. args' = [args EXCEPT !.unexpected = TRUE] /\ Goes(optind + 1)
    BY <1>7 DEF Unexpected
  <2>2. args' \in ArgsType
    BY <2>1 DEF StartInv, ArgsType
  <2> QED
    BY <2>1, <2>2 DEF Goes, StartInv
<1>8. CASE Configure
  <2>1. CASE Ends("usage") \/ Ends("user_error")
    BY <2>1 DEF Ends, StartInv
  <2>2. CASE ~(Ends("usage") \/ Ends("user_error"))
    <3>1. /\ OrDefault(args.verbosity, "normal") \in Levels
          /\ outcome' = "elaborating" /\ UNCHANGED <<asked, optind, args>>
          /\ config' =
               [verbo |-> OrDefault(args.verbosity, "normal"),
                ConfigFilePath |->
                  WithSlash(OrDefault(args.config_root, "./Configs/")),
                OutputDirPath |-> OrDefault(args.output, "./"),
                argMap |-> ArgMap(args.user_args),
                debugger_flag |-> args.debugger_enabled]
      BY <1>8, <2>2 DEF Configure
    <3>2. config' \in PFPConfigs
      BY <3>1, ConfigType DEF StartInv
    <3>3. config' # Null
      BY <3>2, StartAssumption
    <3> QED
      BY <3>1, <3>2, <3>3 DEF StartInv
  <2> QED
    BY <2>1, <2>2
<1> QED
  BY <1>1, <1>2, <1>3, <1>4, <1>5, <1>6, <1>7, <1>8 DEF StartNext

-----------------------------------------------------------------------------
(* ArgumentsTaken. *)

(* The first k groups have the option at most once, and value is its       *)
(* argument.                                                               *)
OptionAt(i) == OptionOf(asked[i][1])
OptionUpto(value, option, k) ==
  /\ (\A i \in 1 .. k : OptionAt(i) # option) => value = Null
  /\ \A i \in 1 .. k : OptionAt(i) = option => value = Argument(asked[i])

MapUpto(map, k) ==
  /\ \A key \in ArgKeys :
       map[key] = <<>> <=> \A i \in 1 .. k : OptionAt(i) = "X" => Key(i) # key
  /\ \A i \in 1 .. k :
       (/\ OptionAt(i) = "X"
        /\ \A j \in 1 .. k : OptionAt(j) = "X" /\ Key(j) = Key(i) => j <= i)
         => map[Key(i)] = Value(i)

(* args is what the first k groups say.                                    *)
Upto(a, k) ==
  /\ OptionUpto(a.config_root, "c", k) /\ OptionUpto(a.verbosity, "v", k)
  /\ OptionUpto(a.output, "o", k) /\ MapUpto(ArgMap(a.user_args), k)
  /\ a.debugger_enabled <=> \E i \in 1 .. k : OptionAt(i) = "d"
  /\ ~a.unexpected

Progress ==
  \E p, k : /\ Beginnings(p, asked, argv, Words) /\ k \in 0 .. Len(asked)
            /\ optind = Len(p[k]) + 1 /\ Upto(args, k)

TakenInv ==
  /\ ArgumentsTaken
  /\ WellFormed /\ outcome = "parsing" => Progress

(* What a well formed group says.                                          *)
LEMMA GroupSays ==
  ASSUME StartInv, WellFormed, NEW k \in 1 .. Len(asked)
  PROVE  LET g == asked[k] IN
         /\ g[1] \in Words /\ Len(g) \in 1 .. 3
         /\ \A i \in 1 .. Len(g) : g[i] \in Words
         /\ \/ OptionAt(k) = "d" /\ Len(g) = 1
            \/ /\ OptionAt(k) \in Once /\ Len(g) = Size(g[1])
               /\ \A i \in 1 .. Len(asked) : OptionAt(i) = OptionAt(k) => i = k
            \/ OptionAt(k) = "X" /\ Len(g) = Size(g[1]) + 1
         /\ OptionAt(k) # "d" => Argument(g) \in Words
         /\ OptionAt(k) = "X" => /\ Key(k) \in ArgKeys /\ Value(k) # <<>>
                                /\ Text(g) \in Texts
<1> DEFINE g == asked[k]
<1>1. g \in Groups /\ DOMAIN asked = 1 .. Len(asked)
  BY ElementOfSeq, LenProperties DEF StartInv
<1>2. Len(g) \in 1 .. 3 /\ \A i \in 1 .. Len(g) : g[i] \in Words
  BY <1>1, GroupWords
<1>3. 1 \in 1 .. Len(g) /\ g[1] \in Words
  <2>1. 1 \in 1 .. Len(g)
    BY <1>2
  <2> QED
    BY <1>2, <2>1
<1>4. \/ OptionAt(k) = "d" /\ Len(g) = 1
      \/ OptionAt(k) \in Once /\ Len(g) = Size(g[1])
      \/ OptionAt(k) = "X" /\ Len(g) = Size(g[1]) + 1
  BY <1>1 DEF WellFormed, OptionAt
<1>5. ASSUME OptionAt(k) \in Once, NEW i \in 1 .. Len(asked),
             OptionAt(i) = OptionAt(k)
      PROVE  i = k
  BY <1>1, <1>5 DEF WellFormed, Given, OptionAt
<1>6. /\ Within(g[1]) \in Words \cup {Null} /\ Size(g[1]) \in {1, 2}
      /\ (Within(g[1]) = Null) = (Size(g[1]) = 2)
  BY <1>3, WordForm
<1>7. ASSUME OptionAt(k) # "d" PROVE Argument(g) \in Words
  <2>1. CASE Within(g[1]) = Null
    <3>1. 2 \in 1 .. Len(g)
      BY <1>2, <1>4, <1>6, <1>7, <2>1
    <3>2. g[2] \in Words
      BY <1>2, <3>1
    <3> QED
      BY <2>1, <3>2 DEF Argument
  <2>2. CASE Within(g[1]) # Null
    BY <1>6, <2>2 DEF Argument
  <2> QED
    BY <2>1, <2>2
<1>8. ASSUME OptionAt(k) = "X"
      PROVE  /\ Key(k) \in ArgKeys /\ Value(k) # <<>>
             /\ Text(g) \in Texts
  <2>1. Len(g) \in 1 .. Len(g) /\ g[Len(g)] \in Words /\ Argument(g) \in Words
    BY <1>2, <1>7, <1>8
  <2>2. Text(g) = Pieces[Argument(g)] \o Pieces[g[Len(g)]]
    BY DEF Text, Last
  <2>3. /\ Text(g) \in Texts /\ Head(Text(g)) \in ArgKeys
        /\ Tail(Text(g)) # <<>>
    BY <2>1, <2>2, JoinedText
  <2> QED
    BY <2>3 DEF Key, Value
<1> QED
  BY <1>2, <1>3, <1>4, <1>5, <1>7, <1>8 DEF Once

(* One more group.                                                         *)
LEMMA OptionOther ==
  ASSUME NEW value, NEW option, NEW k \in Nat, OptionUpto(value, option, k),
         OptionAt(k + 1) # option
  PROVE  OptionUpto(value, option, k + 1)
<1>1. \A i \in 1 .. k + 1 : i \in 1 .. k \/ i = k + 1
  OBVIOUS
<1>2. \A i \in 1 .. k : i \in 1 .. k + 1
  OBVIOUS
<1> QED
  BY <1>1, <1>2 DEF OptionUpto

(* The next group gives the option.                                        *)
LEMMA OptionThis ==
  ASSUME NEW option, NEW k \in Nat, OptionAt(k + 1) = option,
         \A i \in 1 .. k : OptionAt(i) # option
  PROVE  OptionUpto(Argument(asked[k + 1]), option, k + 1)
<1>1. \A i \in 1 .. k + 1 : i \in 1 .. k \/ i = k + 1
  OBVIOUS
<1>2. k + 1 \in 1 .. k + 1
  OBVIOUS
<1> QED
  BY <1>1, <1>2 DEF OptionUpto

(* The next group is no -X.                                                *)
LEMMA MapOther ==
  ASSUME NEW map, NEW k \in Nat, MapUpto(map, k), OptionAt(k + 1) # "X"
  PROVE  MapUpto(map, k + 1)
<1>1. \A i \in 1 .. k + 1 : i \in 1 .. k \/ i = k + 1
  OBVIOUS
<1>2. \A i \in 1 .. k : i \in 1 .. k + 1
  OBVIOUS
<1> QED
  BY <1>1, <1>2 DEF MapUpto

(* The next group is an -X: its value replaces what its key had.           *)
LEMMA MapThis ==
  ASSUME NEW map \in ArgMaps, NEW k \in Nat,
         MapUpto(map, k), OptionAt(k + 1) = "X", Key(k + 1) \in ArgKeys,
         Value(k + 1) # <<>>,
         \A i \in 1 .. k : OptionAt(i) = "X" => Key(i) \in ArgKeys
  PROVE  MapUpto([map EXCEPT ![Key(k + 1)] = Value(k + 1)], k + 1)
<1> DEFINE new == Key(k + 1)
           next == [map EXCEPT ![new] = Value(k + 1)]
<1>1. \A i \in 1 .. k + 1 : i \in 1 .. k \/ i = k + 1
  OBVIOUS
<1>2. /\ \A i \in 1 .. k : i \in 1 .. k + 1 /\ i < k + 1 /\ ~(k + 1 <= i)
      /\ k + 1 \in 1 .. k + 1
  OBVIOUS
<1>3. /\ next[new] = Value(k + 1) /\ next[new] # <<>>
      /\ \A key \in ArgKeys : key # new => next[key] = map[key]
  BY DEF ArgMaps
<1> HIDE DEF next
<1>4. ASSUME NEW key \in ArgKeys
      PROVE  next[key] = <<>>
               <=> \A i \in 1 .. k + 1 : OptionAt(i) = "X" => Key(i) # key
  <2>1. CASE key = new
    BY <1>2, <1>3, <2>1
  <2>2. CASE key # new
    <3>1. next[key] = map[key]
      BY <1>3, <2>2
    <3>2. map[key] = <<>> <=> \A i \in 1 .. k : OptionAt(i) = "X" => Key(i) # key
      BY DEF MapUpto
    <3> QED
      BY <1>1, <1>2, <2>2, <3>1, <3>2
  <2> QED
    BY <2>1, <2>2
<1>5. ASSUME NEW i \in 1 .. k + 1, OptionAt(i) = "X",
             \A j \in 1 .. k + 1 :
               OptionAt(j) = "X" /\ Key(j) = Key(i) => j <= i
      PROVE  next[Key(i)] = Value(i)
  <2>1. CASE i = k + 1
    BY <1>3, <2>1
  <2>2. CASE i # k + 1
    <3>1. i \in 1 .. k /\ Key(i) # new
      BY <1>1, <1>2, <1>5, <2>2
    <3>2. map[Key(i)] = Value(i)
      BY <1>2, <1>5, <3>1 DEF MapUpto
    <3> QED
      BY <1>3, <1>5, <3>1, <3>2
  <2> QED
    BY <2>1, <2>2
<1>6. MapUpto(next, k + 1)
  BY <1>4, <1>5 DEF MapUpto
<1> QED
  BY <1>6 DEF next

(* Reading the next group.                                                 *)
LEMMA NextGroup ==
  ASSUME StartInv, WellFormed, outcome = "parsing", NEW p, NEW k,
         Beginnings(p, asked, argv, Words), k \in 0 .. Len(asked),
         k # Len(asked), optind = Len(p[k]) + 1
  PROVE  /\ k \in Nat /\ k + 1 \in 1 .. Len(asked) /\ optind \in 1 .. Len(argv)
         /\ Len(argv) \in Nat
         /\ argv[optind] = asked[k + 1][1]
         /\ Len(p[k + 1]) + 1 = optind + Len(asked[k + 1])
         /\ Behind = optind + Size(asked[k + 1][1])
         /\ Len(asked[k + 1]) >= Size(asked[k + 1][1]) =>
              HasArgument /\ optarg = Argument(asked[k + 1])
         /\ Len(asked[k + 1]) = Size(asked[k + 1][1]) + 1 =>
              Behind <= Len(argv) /\ argv[Behind] = Last(asked[k + 1])
<1>1. /\ asked \in Seq(Seq(Words)) /\ Len(asked) \in Nat /\ Len(argv) \in Nat
  BY ArgvWords, LenProperties
<1>2. k \in Nat /\ k + 1 \in 1 .. Len(asked) /\ (k + 1) - 1 = k
  BY <1>1
<1>3. PICK n \in 1 .. Len(asked) : n = k + 1 /\ n - 1 = k
  BY <1>2
<1> DEFINE x == Len(p[k])
           y == Len(asked[n])
<1>4. /\ x \in Nat /\ Len(p[n]) = x + y /\ Len(p[n]) <= Len(argv)
      /\ \A i \in 1 .. y : argv[x + i] = asked[n][i]
  <2>1. /\ Len(p[n - 1]) \in Nat /\ Len(p[n]) = Len(p[n - 1]) + Len(asked[n])
        /\ Len(p[n]) <= Len(argv)
        /\ \A i \in 1 .. Len(asked[n]) : argv[Len(p[n - 1]) + i] = asked[n][i]
    <3>1. Beginnings(p, asked, argv, Words) /\ n \in 1 .. Len(asked)
      BY <1>1
    <3>2. WordsAt(p, asked, argv, n)
      BY <3>1, WordsOfList
    <3> QED
      BY <3>2 DEF WordsAt
  <2> QED
    BY <1>3, <2>1
<1>5. y \in 1 .. 3
  <2>1. asked[n] \in Groups
    BY ElementOfSeq DEF StartInv
  <2> QED
    BY <2>1, GroupWords
<1>6. optind = x + 1
  OBVIOUS
<1> HIDE DEF x, y
<1>7. optind \in 1 .. Len(argv) /\ argv[optind] = asked[n][1]
  <2>1. 1 \in 1 .. y
    BY <1>5
  <2>2. argv[x + 1] = asked[n][1]
    BY <1>4, <2>1
  <2>3. x + 1 \in 1 .. Len(argv)
    BY <1>1, <1>4, <1>5
  <2> QED
    BY <1>6, <2>2, <2>3
<1>8. Len(p[n]) + 1 = optind + y
  BY <1>4, <1>5, <1>6
<1>9. ASSUME NEW i \in 0 .. y - 1
      PROVE  optind + i <= Len(argv) /\ argv[optind + i] = asked[n][i + 1]
  <2>1. i + 1 \in 1 .. y /\ optind + i = x + (i + 1)
    BY <1>4, <1>5, <1>6
  <2>2. argv[x + (i + 1)] = asked[n][i + 1]
    BY <1>4, <2>1
  <2>3. optind + i <= Len(argv)
    BY <1>1, <1>4, <1>5, <2>1
  <2> QED
    BY <2>1, <2>2, <2>3
<1> DEFINE z == Size(asked[n][1])
<1>10. /\ z \in {1, 2} /\ (Within(asked[n][1]) = Null) = (z = 2)
       /\ Behind = optind + z /\ optind \in Nat
  <2>1. asked[n] \in Groups
    BY ElementOfSeq DEF StartInv
  <2>2. 1 \in 1 .. y
    BY <1>5
  <2>3. asked[n][1] \in Words
    BY <2>1, <2>2, GroupWords DEF y
  <2> QED
    BY <1>7, <2>3, WordForm DEF Behind
<1> HIDE DEF z
<1>11. ASSUME y >= z PROVE HasArgument /\ optarg = Argument(asked[n])
  <2>1. z - 1 \in 0 .. y - 1 /\ Behind - 1 = optind + (z - 1)
    BY <1>5, <1>10, <1>11
  <2>2. HasArgument
    BY <1>9, <2>1 DEF HasArgument
  <2>3. CASE Within(asked[n][1]) = Null
    <3>1. 1 \in 0 .. y - 1
      BY <1>5, <1>10, <1>11, <2>3
    <3>2. argv[optind + 1] = asked[n][1 + 1]
      BY <1>9, <3>1
    <3> QED
      BY <1>7, <2>2, <2>3, <3>2 DEF optarg, Argument
  <2>4. CASE Within(asked[n][1]) # Null
    BY <1>7, <2>2, <2>4 DEF optarg, Argument
  <2> QED
    BY <2>3, <2>4
<1>12. ASSUME y = z + 1 PROVE Behind <= Len(argv) /\ argv[Behind] = Last(asked[n])
  <2>1. z \in 0 .. y - 1 /\ z + 1 = y
    BY <1>5, <1>10, <1>12
  <2>2. optind + z <= Len(argv) /\ argv[optind + z] = asked[n][z + 1]
    BY <1>9, <2>1
  <2> QED
    BY <1>10, <2>1, <2>2 DEF Last, y
<1> QED
  BY <1>1, <1>2, <1>3, <1>7, <1>8, <1>10, <1>11, <1>12 DEF y, z

(* A well formed line is read to its end.                                  *)
LEMMA ReadingInv ==
  ASSUME StartInv, WellFormed, outcome = "parsing", StartNext, NEW p, NEW k,
         Beginnings(p, asked, argv, Words), k \in 0 .. Len(asked),
         k # Len(asked), optind = Len(p[k]) + 1, Upto(args, k)
  PROVE  /\ UNCHANGED <<asked, config, outcome>>
         /\ optind' = Len(p[k + 1]) + 1 /\ Upto(args', k + 1)
         /\ k + 1 \in 0 .. Len(asked)
<1> DEFINE g == asked[k + 1]
           o == OptionAt(k + 1)
<1>1. /\ k \in Nat /\ k + 1 \in 1 .. Len(asked) /\ optind \in 1 .. Len(argv)
      /\ Len(argv) \in Nat /\ argv[optind] = g[1]
      /\ Len(p[k + 1]) + 1 = optind + Len(g)
      /\ Behind = optind + Size(g[1])
      /\ Len(g) >= Size(g[1]) => HasArgument /\ optarg = Argument(g)
      /\ Len(g) = Size(g[1]) + 1 => Behind <= Len(argv) /\ argv[Behind] = Last(g)
  BY NextGroup
<1>2. /\ g[1] \in Words /\ Len(g) \in 1 .. 3
      /\ \/ o = "d" /\ Len(g) = 1
         \/ /\ o \in Once /\ Len(g) = Size(g[1])
            /\ \A i \in 1 .. Len(asked) : OptionAt(i) = o => i = k + 1
         \/ o = "X" /\ Len(g) = Size(g[1]) + 1
      /\ o = "X" => /\ Key(k + 1) \in ArgKeys /\ Value(k + 1) # <<>>
                    /\ Text(g) \in Texts
  BY <1>1, GroupSays
<1>3. \A i \in 1 .. k : i \in 1 .. Len(asked) /\ i # k + 1
  BY <1>1
<1>4. k + 1 \in 0 .. Len(asked)
  BY <1>1
<1>5. ~Configure
  BY <1>1 DEF Configure
<1>6. \A i \in 1 .. k + 1 : i \in 1 .. k \/ i = k + 1
  BY <1>1
<1>7. k + 1 \in 1 .. k + 1 /\ \A i \in 1 .. k : i \in 1 .. k + 1
  BY <1>1
<1>8. /\ OptionUpto(args.config_root, "c", k) /\ OptionUpto(args.verbosity, "v", k)
      /\ OptionUpto(args.output, "o", k) /\ MapUpto(ArgMap(args.user_args), k)
      /\ args.debugger_enabled <=> \E i \in 1 .. k : OptionAt(i) = "d"
      /\ ~args.unexpected
  BY DEF Upto
<1>9. args \in ArgsType
  BY DEF StartInv
<1>10. o # "d" => (args.debugger_enabled
                     <=> \E i \in 1 .. k + 1 : OptionAt(i) = "d")
  BY <1>6, <1>7, <1>8
<1>0. Size(g[1]) \in {1, 2} /\ optind \in Nat
  BY <1>1, <1>2, WordForm
<1>11. CASE o = "d" /\ Len(g) = 1
  <2>1. DebuggerOption
    BY <1>1, <1>5, <1>11 DEF StartNext, OnceOption, UserOption, HelpOrBad,
            UserOptionAlone, Unexpected, Reads, OptionAt
  <2>2. args' = [args EXCEPT !.debugger_enabled = TRUE] /\ Goes(optind + 1)
    BY <2>1 DEF DebuggerOption
  <2>3. /\ args'.config_root = args.config_root /\ args'.verbosity = args.verbosity
        /\ args'.output = args.output /\ args'.user_args = args.user_args
        /\ args'.unexpected = args.unexpected /\ args'.debugger_enabled = TRUE
    BY <1>9, <2>2 DEF ArgsType
  <2>4. \E i \in 1 .. k + 1 : OptionAt(i) = "d"
    BY <1>7, <1>11
  <2>5. /\ OptionUpto(args'.config_root, "c", k + 1)
        /\ OptionUpto(args'.verbosity, "v", k + 1)
        /\ OptionUpto(args'.output, "o", k + 1)
    BY <1>1, <1>8, <1>11, <2>3, OptionOther
  <2>6. MapUpto(ArgMap(args'.user_args), k + 1)
    BY <1>1, <1>8, <1>11, <2>3, MapOther
  <2>7. Upto(args', k + 1)
    BY <1>8, <2>3, <2>4, <2>5, <2>6 DEF Upto
  <2>8. optind' = Len(p[k + 1]) + 1
    BY <1>1, <1>11, <2>2 DEF Goes
  <2> QED
    BY <1>4, <2>2, <2>7, <2>8 DEF Goes
<1>12. CASE o \in Once /\ Len(g) = Size(g[1])
  <2>1. HasArgument /\ optarg = Argument(g)
    BY <1>0, <1>1, <1>12
  <2>2. /\ \A i \in 1 .. Len(asked) : OptionAt(i) = o => i = k + 1
        /\ \A i \in 1 .. k : OptionAt(i) # o
    BY <1>2, <1>3, <1>12 DEF Once
  <2>3. MapUpto(ArgMap(args.user_args), k + 1)
    BY <1>1, <1>8, <1>12, MapOther DEF Once
  <2>4. ASSUME NEW option, o # option, NEW value, OptionUpto(value, option, k)
        PROVE  OptionUpto(value, option, k + 1)
    BY <1>1, <2>4, OptionOther
  <2>5. OptionUpto(Argument(g), o, k + 1)
    BY <1>1, <2>2, OptionThis
  <2>6. CASE o = "c"
    <3>1. OnceOption("c", "config_root")
      BY <1>1, <1>5, <2>6 DEF StartNext, OnceOption, UserOption, HelpOrBad,
              UserOptionAlone, DebuggerOption, Unexpected, Reads, OptionAt
    <3>2. args.config_root = Null
      BY <1>8, <2>2, <2>6 DEF OptionUpto
    <3>3. args' = [args EXCEPT !.config_root = Argument(g)] /\ Goes(Behind)
      BY <2>1, <3>1, <3>2 DEF OnceOption
    <3>4. /\ args'.config_root = Argument(g)
          /\ args'.verbosity = args.verbosity
          /\ args'.output = args.output /\ args'.user_args = args.user_args
          /\ args'.unexpected = args.unexpected
          /\ args'.debugger_enabled = args.debugger_enabled
      BY <1>9, <3>3 DEF ArgsType
    <3>5. /\ OptionUpto(args'.config_root, "c", k + 1)
          /\ OptionUpto(args'.verbosity, "v", k + 1)
          /\ OptionUpto(args'.output, "o", k + 1)
      BY <1>8, <2>4, <2>5, <2>6, <3>4
    <3>6. Upto(args', k + 1)
      BY <1>8, <1>10, <2>3, <2>6, <3>4, <3>5 DEF Upto
    <3>7. optind' = Len(p[k + 1]) + 1
      BY <1>1, <1>12, <3>3 DEF Goes
    <3> QED
      BY <1>4, <3>3, <3>6, <3>7 DEF Goes
  <2>7. CASE o = "v"
    <3>1. OnceOption("v", "verbosity")
      BY <1>1, <1>5, <2>7 DEF StartNext, OnceOption, UserOption, HelpOrBad,
              UserOptionAlone, DebuggerOption, Unexpected, Reads, OptionAt
    <3>2. args.verbosity = Null
      BY <1>8, <2>2, <2>7 DEF OptionUpto
    <3>3. args' = [args EXCEPT !.verbosity = Argument(g)] /\ Goes(Behind)
      BY <2>1, <3>1, <3>2 DEF OnceOption
    <3>4. /\ args'.verbosity = Argument(g)
          /\ args'.config_root = args.config_root
          /\ args'.output = args.output /\ args'.user_args = args.user_args
          /\ args'.unexpected = args.unexpected
          /\ args'.debugger_enabled = args.debugger_enabled
      BY <1>9, <3>3 DEF ArgsType
    <3>5. /\ OptionUpto(args'.config_root, "c", k + 1)
          /\ OptionUpto(args'.verbosity, "v", k + 1)
          /\ OptionUpto(args'.output, "o", k + 1)
      BY <1>8, <2>4, <2>5, <2>7, <3>4
    <3>6. Upto(args', k + 1)
      BY <1>8, <1>10, <2>3, <2>7, <3>4, <3>5 DEF Upto
    <3>7. optind' = Len(p[k + 1]) + 1
      BY <1>1, <1>12, <3>3 DEF Goes
    <3> QED
      BY <1>4, <3>3, <3>6, <3>7 DEF Goes
  <2>8. CASE o = "o"
    <3>1. OnceOption("o", "output")
      BY <1>1, <1>5, <2>8 DEF StartNext, OnceOption, UserOption, HelpOrBad,
              UserOptionAlone, DebuggerOption, Unexpected, Reads, OptionAt
    <3>2. args.output = Null
      BY <1>8, <2>2, <2>8 DEF OptionUpto
    <3>3. args' = [args EXCEPT !.output = Argument(g)] /\ Goes(Behind)
      BY <2>1, <3>1, <3>2 DEF OnceOption
    <3>4. /\ args'.output = Argument(g)
          /\ args'.config_root = args.config_root
          /\ args'.verbosity = args.verbosity /\ args'.user_args = args.user_args
          /\ args'.unexpected = args.unexpected
          /\ args'.debugger_enabled = args.debugger_enabled
      BY <1>9, <3>3 DEF ArgsType
    <3>5. /\ OptionUpto(args'.config_root, "c", k + 1)
          /\ OptionUpto(args'.verbosity, "v", k + 1)
          /\ OptionUpto(args'.output, "o", k + 1)
      BY <1>8, <2>4, <2>5, <2>8, <3>4
    <3>6. Upto(args', k + 1)
      BY <1>8, <1>10, <2>3, <2>8, <3>4, <3>5 DEF Upto
    <3>7. optind' = Len(p[k + 1]) + 1
      BY <1>1, <1>12, <3>3 DEF Goes
    <3> QED
      BY <1>4, <3>3, <3>6, <3>7 DEF Goes
  <2> QED
    BY <1>12, <2>6, <2>7, <2>8 DEF Once
<1>13. CASE o = "X" /\ Len(g) = Size(g[1]) + 1
  <2>1. UserOption
    BY <1>1, <1>5, <1>13 DEF StartNext, OnceOption, HelpOrBad, UserOptionAlone,
            DebuggerOption, Unexpected, Reads, OptionAt
  <2>2. /\ HasArgument /\ optarg = Argument(g)
        /\ Behind <= Len(argv) /\ ~(Behind > Len(argv)) /\ argv[Behind] = Last(g)
    <3>1. Len(g) >= Size(g[1])
      BY <1>0, <1>13
    <3> QED
      BY <1>0, <1>1, <1>13, <3>1
  <2>3. /\ args' = [args EXCEPT !.user_args = Append(args.user_args, Text(g))]
        /\ Goes(Behind + 1)
    BY <2>1, <2>2 DEF UserOption, Text
  <2>4. /\ args'.config_root = args.config_root /\ args'.verbosity = args.verbosity
        /\ args'.output = args.output
        /\ args'.user_args = Append(args.user_args, Text(g))
        /\ args'.unexpected = args.unexpected
        /\ args'.debugger_enabled = args.debugger_enabled
    BY <1>9, <2>3 DEF ArgsType
  <2>6. /\ ArgMap(args.user_args) \in ArgMaps
        /\ ArgMap(args'.user_args)
             = [ArgMap(args.user_args) EXCEPT ![Key(k + 1)] = Value(k + 1)]
    <3>1. args.user_args \in Seq(Texts)
      BY <1>9 DEF ArgsType
    <3>2. PICK text \in Texts : text = Text(g)
      BY <1>2, <1>13
    <3>3. ArgMap(Append(args.user_args, text))
            = [ArgMap(args.user_args) EXCEPT ![Head(text)] = Tail(text)]
      BY <3>1, ArgMapAppend
    <3> QED
      BY <2>4, <3>1, <3>2, <3>3, ArgMapAppend DEF Key, Value
  <2>7. \A i \in 1 .. k : OptionAt(i) = "X" => Key(i) \in ArgKeys
    BY <1>3, GroupSays
  <2>8. MapUpto(ArgMap(args'.user_args), k + 1)
    BY <1>1, <1>2, <1>8, <1>13, <2>6, <2>7, MapThis
  <2>9. /\ OptionUpto(args'.config_root, "c", k + 1)
        /\ OptionUpto(args'.verbosity, "v", k + 1)
        /\ OptionUpto(args'.output, "o", k + 1)
    BY <1>1, <1>8, <1>13, <2>4, OptionOther
  <2>10. Upto(args', k + 1)
    BY <1>8, <1>10, <1>13, <2>4, <2>8, <2>9 DEF Upto
  <2>11. optind' = Len(p[k + 1]) + 1
    BY <1>0, <1>1, <1>13, <2>3 DEF Goes
  <2> QED
    BY <1>4, <2>3, <2>10, <2>11 DEF Goes
<1> QED
  BY <1>2, <1>11, <1>12, <1>13

(* What PFPConfig is given at the end of a well formed line.               *)
LEMMA OptionAtEnd ==
  ASSUME NEW value, NEW option, OptionUpto(value, option, Len(asked)),
         DOMAIN asked = 1 .. Len(asked), NEW default,
         \A i \in 1 .. Len(asked) : OptionAt(i) = option => Argument(asked[i]) # Null
  PROVE  OrDefault(value, default) = Word(option, default)
<1>1. CASE Given(option) = {}
  <2>1. \A i \in 1 .. Len(asked) : OptionAt(i) # option
    BY <1>1 DEF Given, OptionAt
  <2> QED
    BY <1>1, <2>1 DEF OptionUpto, OrDefault, Word
<1>2. CASE Given(option) # {}
  <2>1. PICK i \in Given(option) : i = CHOOSE j \in Given(option) : TRUE
    BY <1>2
  <2>2. i \in 1 .. Len(asked) /\ OptionAt(i) = option
    BY DEF Given, OptionAt
  <2>3. value = Argument(asked[i]) /\ value # Null
    BY <2>2 DEF OptionUpto
  <2> QED
    BY <1>2, <2>1, <2>3 DEF OrDefault, Word
<1> QED
  BY <1>1, <1>2

(* When all groups are read PFPConfig gets what they say.                  *)
LEMMA EndOfLine ==
  ASSUME StartInv, WellFormed, outcome = "parsing", StartNext, NEW p,
         Beginnings(p, asked, argv, Words), optind = Len(p[Len(asked)]) + 1,
         Upto(args, Len(asked))
  PROVE  /\ UNCHANGED asked /\ outcome' = "elaborating" /\ ArgumentsTaken'
<1> DEFINE N == Len(asked)
<1>1. N \in Nat /\ Len(argv) \in Nat /\ optind = Len(argv) + 1
  BY ArgvWords, LenProperties DEF Beginnings
<1>2. ~(optind <= Len(argv))
  BY <1>1
<1>3. Configure
  BY <1>2 DEF StartNext, OnceOption, UserOption, HelpOrBad, DebuggerOption,
              UserOptionAlone, Unexpected, Reads
<1>4. DOMAIN asked = 1 .. N
  BY LenProperties DEF StartInv
<1>5. ASSUME NEW i \in 1 .. N, OptionAt(i) \in {"c", "v", "o"}
      PROVE  Argument(asked[i]) # Null
  BY <1>5, GroupSays, GroupWords
<1>6. /\ OptionUpto(args.config_root, "c", N) /\ OptionUpto(args.verbosity, "v", N)
      /\ OptionUpto(args.output, "o", N) /\ MapUpto(ArgMap(args.user_args), N)
      /\ args.debugger_enabled <=> \E i \in 1 .. N : OptionAt(i) = "d"
      /\ ~args.unexpected
  BY DEF Upto
<1>7. /\ OrDefault(args.config_root, "./Configs/") = Word("c", "./Configs/")
      /\ OrDefault(args.verbosity, "normal") = Word("v", "normal")
      /\ OrDefault(args.output, "./") = Word("o", "./")
  BY <1>4, <1>5, <1>6, OptionAtEnd
<1>8. OrDefault(args.verbosity, "normal") \in Levels
  <2>1. "normal" \in Levels
    BY StartAssumption
  <2>2. CASE Given("v") = {}
    BY <1>7, <2>1, <2>2 DEF Word
  <2>3. CASE Given("v") # {}
    <3>1. PICK i \in Given("v") : i = CHOOSE j \in Given("v") : TRUE
      BY <2>3
    <3>2. Argument(asked[i]) \in Levels
      BY DEF WellFormed
    <3> QED
      BY <1>7, <2>3, <3>1, <3>2 DEF Word
  <2> QED
    BY <2>2, <2>3
<1>9. /\ outcome' = "elaborating" /\ UNCHANGED asked
      /\ config' = [verbo |-> OrDefault(args.verbosity, "normal"),
                    ConfigFilePath |->
                      WithSlash(OrDefault(args.config_root, "./Configs/")),
                    OutputDirPath |-> OrDefault(args.output, "./"),
                    argMap |-> ArgMap(args.user_args),
                    debugger_flag |-> args.debugger_enabled]
  BY <1>3, <1>6, <1>8 DEF Configure
<1>10. config' # Null
  <2>1. args \in ArgsType
    BY DEF StartInv
  <2>2. config' \in PFPConfigs
    BY <1>8, <1>9, <2>1, ConfigType
  <2> QED
    BY <2>2, StartAssumption
<1>11. /\ config'.verbo = Word("v", "normal")
       /\ config'.ConfigFilePath = WithSlash(Word("c", "./Configs/"))
       /\ config'.OutputDirPath = Word("o", "./")
       /\ config'.argMap = ArgMap(args.user_args)
       /\ config'.debugger_flag = args.debugger_enabled
  BY <1>7, <1>9
<1>12. args.debugger_enabled = (Given("d") # {})
  <2>1. args.debugger_enabled \in BOOLEAN
    BY DEF StartInv, ArgsType
  <2>2. Given("d") # {} <=> \E i \in 1 .. N : OptionAt(i) = "d"
    BY <1>4 DEF Given, OptionAt
  <2> QED
    BY <1>6, <2>1, <2>2
<1>13. /\ \A i : i \in Given("X") <=> i \in 1 .. N /\ OptionAt(i) = "X"
       /\ \A key : key \in {Key(i) : i \in Given("X")}
                     <=> \E i \in 1 .. N : OptionAt(i) = "X" /\ Key(i) = key
  BY <1>4 DEF Given, OptionAt
<1> HIDE DEF N
<1>14. \A key \in ArgKeys :
         config'.argMap[key] = <<>>
           <=> key \notin {Key(i) : i \in Given("X")}
  <2>1. \A key \in ArgKeys : ArgMap(args.user_args)[key] = <<>>
          <=> \A i \in 1 .. N : OptionAt(i) = "X" => Key(i) # key
    BY <1>6 DEF MapUpto
  <2> QED
    BY <1>11, <1>13, <2>1
<1>15. ASSUME NEW i \in Given("X"),
              \A j \in Given("X") : Key(j) = Key(i) => j <= i
       PROVE  config'.argMap[Key(i)] = Value(i)
  <2>1. i \in 1 .. N /\ OptionAt(i) = "X"
    BY <1>13
  <2>2. \A j \in 1 .. N : OptionAt(j) = "X" /\ Key(j) = Key(i) => j <= i
    BY <1>13, <1>15
  <2>3. ArgMap(args.user_args)[Key(i)] = Value(i)
    BY <1>6, <2>1, <2>2 DEF MapUpto
  <2> QED
    BY <1>11, <2>3
<1>16. /\ Given("X")' = Given("X") /\ (Given("d") # {})' = (Given("d") # {})
       /\ Word("v", "normal")' = Word("v", "normal")
       /\ Word("c", "./Configs/")' = Word("c", "./Configs/")
       /\ Word("o", "./")' = Word("o", "./")
  BY <1>9 DEF Given, Word, Argument
<1>18. (\A i : Key(i)' = Key(i) /\ Value(i)' = Value(i)) /\ WellFormed'
  BY <1>9 DEF Key, Value, Text, Argument, WellFormed, Given, Once
<1>17. ArgumentsTaken'
  BY <1>9, <1>10, <1>11, <1>12, <1>14, <1>15, <1>16, <1>18 DEF ArgumentsTaken
<1> QED
  BY <1>9, <1>17

(* Before the first group nothing is taken.                                *)
LEMMA TakenInvInit ==
  ASSUME StartInit PROVE TakenInv
<1>1. StartInv
  BY StartInvInit
<1>2. PICK p : Beginnings(p, asked, argv, Words)
  BY <1>1, ArgvWords
<1>3. Len(asked) \in Nat
  BY <1>1, ArgvWords
<1>4. p[0] = <<>> /\ Len(p[0]) = 0 /\ optind = 1
  BY <1>2 DEF Beginnings, StartInit
<1>5. ArgMap(args.user_args) = [key \in ArgKeys |-> <<>>]
  <2>1. <<>> \in Seq(Texts)
    <3>1. \A S : <<>> \in Seq(S)
      OBVIOUS
    <3> QED
      BY <3>1
  <2> QED
    BY <2>1, ArgMapAppend DEF StartInit
<1>6. 1 .. 0 = {}
  OBVIOUS
<1>7. MapUpto(ArgMap(args.user_args), 0)
  BY <1>5, <1>6 DEF MapUpto
<1>8. Upto(args, 0)
  BY <1>6, <1>7 DEF Upto, OptionUpto, StartInit
<1>9. Progress
  BY <1>2, <1>3, <1>4, <1>8 DEF Progress
<1> QED
  BY <1>9 DEF TakenInv, ArgumentsTaken, StartInit

(* Each step of parse_args reads one whole group of a well formed line.    *)
LEMMA TakenInvStep ==
  ASSUME StartInv, TakenInv, StartNext PROVE TakenInv'
<1>1. outcome = "parsing" /\ UNCHANGED asked
  BY DEF StartNext, OnceOption, UserOption, UserOptionAlone, HelpOrBad,
         DebuggerOption, Unexpected, Configure, Reads, Goes, Ends
<1>2. WellFormed' <=> WellFormed
  BY <1>1 DEF WellFormed, Given
<1>3. CASE ~WellFormed
  BY <1>2, <1>3 DEF TakenInv, ArgumentsTaken
<1>4. CASE WellFormed
  <2>1. PICK p, k : /\ Beginnings(p, asked, argv, Words) /\ k \in 0 .. Len(asked)
                    /\ optind = Len(p[k]) + 1 /\ Upto(args, k)
    BY <1>1, <1>4 DEF TakenInv, Progress
  <2>2. CASE k = Len(asked)
    <3>1. outcome' = "elaborating" /\ ArgumentsTaken'
      BY <1>1, <1>4, <2>1, <2>2, EndOfLine
    <3> QED
      BY <3>1 DEF TakenInv
  <2>3. CASE k # Len(asked)
    <3>1. /\ UNCHANGED <<asked, config, outcome>>
          /\ optind' = Len(p[k + 1]) + 1 /\ Upto(args', k + 1)
          /\ k + 1 \in 0 .. Len(asked)
      BY <1>1, <1>4, <2>1, <2>3, ReadingInv
    <3>2. config' = Null /\ outcome' = "parsing"
      BY <1>1, <3>1 DEF StartInv
    <3>3. Beginnings(p, asked, argv, Words)'
      BY <1>1, <2>1 DEF Beginnings, argv
    <3>4. Upto(args, k + 1)'
      BY <1>1, <3>1 DEF Upto, OptionUpto, MapUpto, OptionAt, Key, Value
    <3>5. Progress'
      BY <1>1, <3>1, <3>3, <3>4 DEF Progress
    <3> QED
      BY <3>2, <3>5 DEF TakenInv, ArgumentsTaken
  <2> QED
    BY <2>2, <2>3
<1> QED
  BY <1>3, <1>4

(* Building the tree leaves what was taken alone.                          *)
LEMMA TakenInvTree ==
  ASSUME StartInv, TakenInv, UNCHANGED <<asked, optind, args, config>>,
         outcome \notin {"parsing", "usage", "user_error"}, config # Null,
         outcome' # "parsing"
  PROVE  StartInv' /\ TakenInv'
<1>1. StartInv'
  BY DEF StartInv
<1>2. ArgumentsTaken'
  BY DEF TakenInv, ArgumentsTaken, WellFormed, Given, Word, Key, Value
<1> QED
  BY <1>1, <1>2 DEF TakenInv

-----------------------------------------------------------------------------
(* Trees. *)

(* What holds of the top and passes from parent to child holds of all.     *)
LEMMA TreeInduction ==
  ASSUME IsTree, NEW S, Top \in S,
         \A m \in Modules \ {Top} : parent[m] \in S => m \in S
  PROVE  Modules \subseteq S
<1> DEFINE bad == (Modules \ {Top}) \ S
<1> SUFFICES ASSUME bad # {} PROVE FALSE
  OBVIOUS
<1>1. PICK m \in bad : parent[m] \notin bad
  <2>1. bad \in SUBSET (Modules \ {Top})
    OBVIOUS
  <2> HIDE DEF bad
  <2> QED
    BY <2>1 DEF IsTree
<1>2. parent[m] \in Modules
  BY DEF IsTree
<1> QED
  BY <1>1, <1>2

(* s leads from m upwards to the first module of stop.                     *)
Chain(s, m, stop) ==
  /\ s \in Seq(Modules) /\ s # <<>> /\ s[1] = m
  /\ \A i \in 1 .. Len(s) - 1 : s[i] \notin stop /\ s[i + 1] = parent[s[i]]
  /\ s[Len(s)] \in stop

(* s with x in front                                                       *)
LEMMA InFront ==
  ASSUME NEW S, NEW x \in S, NEW s \in Seq(S)
  PROVE  /\ <<x>> \o s \in Seq(S) /\ <<x>> \o s # <<>>
         /\ Len(<<x>> \o s) = Len(s) + 1
         /\ (<<x>> \o s)[1] = x
         /\ \A i \in 1 .. Len(s) : (<<x>> \o s)[i + 1] = s[i]
<1>1. <<x>> \in Seq(S) /\ Len(<<x>>) = 1 /\ <<x>>[1] = x
  OBVIOUS
<1>2. Len(s) \in Nat
  BY LenProperties
<1> QED
  BY <1>1, <1>2, ConcatProperties

(* At a module of stop the chain ends.                                     *)
LEMMA ChainStops ==
  ASSUME NEW m \in Modules, NEW stop, m \in stop
  PROVE  /\ Chain(<<m>>, m, stop)
         /\ \A s : Chain(s, m, stop) => s = <<m>>
<1>1. <<m>> \in Seq(Modules) /\ Len(<<m>>) = 1 /\ <<m>>[1] = m /\ <<m>> # <<>>
  OBVIOUS
<1>2. Chain(<<m>>, m, stop)
  BY <1>1 DEF Chain
<1>3. ASSUME NEW s, Chain(s, m, stop) PROVE s = <<m>>
  <2>1. s \in Seq(Modules) /\ s # <<>> /\ s[1] = m
    BY <1>3 DEF Chain
  <2>2. Len(s) \in Nat \ {0} /\ s = [i \in 1 .. Len(s) |-> s[i]]
    BY <2>1, EmptySeq, LenProperties
  <2>3. ~(1 \in 1 .. Len(s) - 1)
    BY <1>3, <2>1 DEF Chain
  <2>4. Len(s) = 1
    BY <2>2, <2>3
  <2> QED
    BY <1>1, <2>1, <2>4
<1> QED
  BY <1>2, <1>3

(* Elsewhere it is the parent's chain with the module in front.            *)
LEMMA ChainGoesOn ==
  ASSUME NEW m \in Modules, NEW stop, m \notin stop, NEW s
  PROVE  /\ Chain(s, parent[m], stop) => Chain(<<m>> \o s, m, stop)
         /\ Chain(s, m, stop) =>
              /\ Chain(Tail(s), parent[m], stop) /\ s = <<m>> \o Tail(s)
<1>1. ASSUME Chain(s, parent[m], stop) PROVE Chain(<<m>> \o s, m, stop)
  <2>1. s \in Seq(Modules) /\ s # <<>> /\ Len(s) \in Nat \ {0}
    BY <1>1, EmptySeq DEF Chain
  <2> DEFINE t == <<m>> \o s
  <2>2. /\ t \in Seq(Modules) /\ t # <<>> /\ Len(t) = Len(s) + 1 /\ t[1] = m
        /\ \A i \in 1 .. Len(s) : t[i + 1] = s[i]
    BY <2>1, InFront
  <2> HIDE DEF t
  <2>3. ASSUME NEW i \in 1 .. Len(t) - 1
        PROVE  t[i] \notin stop /\ t[i + 1] = parent[t[i]]
    <3>1. CASE i = 1
      BY <1>1, <2>1, <2>2, <3>1 DEF Chain
    <3>2. CASE i # 1
      <4>1. i - 1 \in 1 .. Len(s) - 1 /\ (i - 1) + 1 = i /\ i \in 1 .. Len(s)
        BY <2>1, <2>2, <3>2
      <4>2. t[i] = s[i - 1] /\ t[i + 1] = s[i]
        <5>1. i - 1 \in 1 .. Len(s)
          BY <2>1, <4>1
        <5> QED
          BY <2>2, <4>1, <5>1
      <4>3. s[i - 1] \notin stop /\ s[i] = parent[s[i - 1]]
        BY <1>1, <4>1 DEF Chain
      <4> QED
        BY <4>2, <4>3
    <3> QED
      BY <3>1, <3>2
  <2>4. t[Len(t)] \in stop
    BY <1>1, <2>1, <2>2 DEF Chain
  <2>5. Chain(t, m, stop)
    BY <2>2, <2>3, <2>4 DEF Chain
  <2> QED
    BY <2>5 DEF t
<1>2. ASSUME Chain(s, m, stop)
      PROVE  Chain(Tail(s), parent[m], stop) /\ s = <<m>> \o Tail(s)
  <2>1. s \in Seq(Modules) /\ s # <<>> /\ Len(s) \in Nat \ {0} /\ s[1] = m
    BY <1>2, EmptySeq DEF Chain
  <2>2. Len(s) # 1
    BY <1>2, <2>1 DEF Chain
  <2>3. PICK t : t = Tail(s)
    OBVIOUS
  <2>4. /\ t \in Seq(Modules) /\ Len(t) = Len(s) - 1
        /\ \A i \in 1 .. Len(t) : t[i] = s[i + 1]
    BY <2>1, <2>3, HeadTailProperties
  <2>5. t # <<>> /\ t[1] = parent[m]
    <3>1. 1 \in 1 .. Len(s) - 1 /\ 1 \in 1 .. Len(t)
      BY <2>1, <2>2, <2>4
    <3>2. s[1 + 1] = parent[s[1]]
      BY <1>2, <3>1 DEF Chain
    <3>3. Len(t) # 0
      BY <3>1, <2>1, <2>4
    <3> QED
      BY <2>1, <2>4, <3>1, <3>2, <3>3, EmptySeq
  <2>6. ASSUME NEW i \in 1 .. Len(t) - 1
        PROVE  t[i] \notin stop /\ t[i + 1] = parent[t[i]]
    <3>1. /\ i \in 1 .. Len(t) /\ i + 1 \in 1 .. Len(t)
          /\ i + 1 \in 1 .. Len(s) - 1
      BY <2>1, <2>4
    <3>2. s[i + 1] \notin stop /\ s[(i + 1) + 1] = parent[s[i + 1]]
      BY <1>2, <3>1 DEF Chain
    <3> QED
      BY <2>4, <3>1, <3>2
  <2>7. t[Len(t)] \in stop
    <3>1. Len(t) \in 1 .. Len(t) /\ Len(t) + 1 = Len(s)
      BY <2>1, <2>2, <2>4
    <3> QED
      BY <1>2, <2>4, <3>1 DEF Chain
  <2>8. Chain(t, parent[m], stop)
    BY <2>4, <2>5, <2>6, <2>7 DEF Chain
  <2>9. s = <<m>> \o t
    <3>1. PICK u : u = <<m>> \o t
      OBVIOUS
    <3>2. /\ u \in Seq(Modules) /\ Len(u) = Len(t) + 1 /\ u[1] = m
          /\ \A i \in 1 .. Len(t) : u[i + 1] = t[i]
      BY <2>4, <3>1, InFront
    <3>3. ASSUME NEW i \in 1 .. Len(s) PROVE u[i] = s[i]
      <4>1. i = 1 \/ (i - 1 \in 1 .. Len(t) /\ (i - 1) + 1 = i)
        BY <2>1, <2>4
      <4> QED
        BY <2>1, <2>4, <3>2, <4>1
    <3>4. Len(u) = Len(s)
      BY <2>1, <2>4, <3>2
    <3>5. u = s
      BY <2>1, <3>2, <3>3, <3>4, SeqEqual
    <3> QED
      BY <3>1, <3>5
  <2> QED
    BY <2>3, <2>8, <2>9
<1> QED
  BY <1>1, <1>2

(* There is one chain upwards from each module.                            *)
LEMMA OneChain ==
  ASSUME IsTree, NEW stop, Top \in stop, NEW m \in Modules
  PROVE  /\ \E s : Chain(s, m, stop)
         /\ \A s, t : Chain(s, m, stop) /\ Chain(t, m, stop) => s = t
<1> DEFINE One(q) == /\ \E s : Chain(s, q, stop)
                     /\ \A s, t : Chain(s, q, stop) /\ Chain(t, q, stop) => s = t
           S == {q \in Modules : One(q)}
<1>0. Top \in Modules
  BY TreeAssumption
<1>1. ASSUME NEW q \in Modules, q \in stop PROVE q \in S
  BY <1>1, ChainStops
<1>2. ASSUME NEW q \in Modules \ {Top}, parent[q] \in S, q \notin stop
      PROVE  q \in S
  <2>1. PICK s : Chain(s, parent[q], stop)
    BY <1>2
  <2>2. Chain(<<q>> \o s, q, stop)
    BY <1>2, <2>1, ChainGoesOn
  <2>3. ASSUME NEW t, NEW u, Chain(t, q, stop), Chain(u, q, stop) PROVE t = u
    <3>1. /\ Chain(Tail(t), parent[q], stop) /\ t = <<q>> \o Tail(t)
          /\ Chain(Tail(u), parent[q], stop) /\ u = <<q>> \o Tail(u)
      BY <1>2, <2>3, ChainGoesOn
    <3>2. Tail(t) = Tail(u)
      BY <1>2, <3>1
    <3> QED
      BY <3>1, <3>2
  <2> QED
    BY <2>2, <2>3
<1>3. Modules \subseteq S
  <2> HIDE DEF S
  <2> QED
    BY <1>0, <1>1, <1>2, TreeInduction
<1> QED
  BY <1>3

(* Chains along a path of the tree: the one of m, and what it does at its  *)
(* first step.                                                             *)
LEMMA ChainsUp ==
  ASSUME IsTree, NEW stop, Top \in stop
  PROVE  \E up : \A m \in Modules :
           /\ up[m] \in Seq(Modules) /\ Len(up[m]) \in Nat \ {0}
           /\ up[m] = IF m \in stop THEN <<m>> ELSE <<m>> \o up[parent[m]]
<1> DEFINE up == [m \in Modules |-> CHOOSE s : Chain(s, m, stop)]
<1>0. Top \in Modules
  BY TreeAssumption
<1>1. ASSUME NEW m \in Modules PROVE Chain(up[m], m, stop)
  BY OneChain
<1>2. ASSUME NEW m \in Modules
      PROVE  up[m] = IF m \in stop THEN <<m>> ELSE <<m>> \o up[parent[m]]
  <2>1. CASE m \in stop
    BY <1>1, <2>1, ChainStops
  <2>2. CASE m \notin stop
    <3>1. parent[m] \in Modules
      BY <2>2 DEF IsTree
    <3>2. Chain(<<m>> \o up[parent[m]], m, stop)
      BY <1>1, <2>2, <3>1, ChainGoesOn
    <3> HIDE DEF up
    <3>3. up[m] = <<m>> \o up[parent[m]]
      BY <1>1, <3>2, OneChain
    <3> QED
      BY <2>2, <3>3
  <2> QED
    BY <2>1, <2>2
<1>3. ASSUME NEW m \in Modules
      PROVE  up[m] \in Seq(Modules) /\ Len(up[m]) \in Nat \ {0}
  <2> HIDE DEF up
  <2> QED
    BY <1>1, EmptySeq DEF Chain
<1> HIDE DEF up
<1> QED
  BY <1>2, <1>3

(* A search upwards, as a recursive function, is one.                      *)
LEMMA UpwardSearch ==
  ASSUME IsTree, NEW stop, Top \in stop, NEW base
  PROVE  \E f : /\ f = [m \in Modules |-> f[m]]
                /\ \A m \in Modules :
                     f[m] = IF m \in stop THEN base[m] ELSE f[parent[m]]
<1>1. PICK up : \A m \in Modules :
           /\ up[m] \in Seq(Modules) /\ Len(up[m]) \in Nat \ {0}
           /\ up[m] = IF m \in stop THEN <<m>> ELSE <<m>> \o up[parent[m]]
  BY ChainsUp
<1> DEFINE f == [m \in Modules |-> base[up[m][Len(up[m])]]]
<1>2. ASSUME NEW m \in Modules
      PROVE  f[m] = IF m \in stop THEN base[m] ELSE f[parent[m]]
  <2>1. CASE m \in stop
    <3>1. up[m] = <<m>>
      BY <1>1, <2>1
    <3>2. up[m][Len(up[m])] = m
      BY <3>1
    <3> QED
      BY <2>1, <3>2
  <2>2. CASE m \notin stop
    <3>1. parent[m] \in Modules
      BY <2>2 DEF IsTree
    <3>2. up[m] = <<m>> \o up[parent[m]]
      BY <1>1, <2>2
    <3>3. /\ Len(up[m]) = Len(up[parent[m]]) + 1
          /\ \A i \in 1 .. Len(up[parent[m]]) :
               up[m][i + 1] = up[parent[m]][i]
      BY <1>1, <3>1, <3>2, InFront
    <3>4. up[m][Len(up[m])] = up[parent[m]][Len(up[parent[m]])]
      <4>1. Len(up[parent[m]]) \in Nat \ {0}
        BY <1>1, <3>1
      <4> QED
        BY <3>3, <4>1
    <3> QED
      BY <2>2, <3>1, <3>4
  <2> QED
    BY <2>1, <2>2
<1>3. f = [m \in Modules |-> f[m]]
  OBVIOUS
<1> HIDE DEF f
<1> QED
  BY <1>2, <1>3

(* So is the list of what stands on the way up.                            *)
LEMMA UpwardList ==
  ASSUME IsTree, NEW stop, Top \in stop, NEW S, NEW label \in [Modules -> S]
  PROVE  \E f : /\ f = [m \in Modules |-> f[m]]
                /\ \A m \in Modules :
                     f[m] = IF m \in stop THEN <<label[m]>>
                            ELSE <<label[m]>> \o f[parent[m]]
<1>1. PICK up : \A m \in Modules :
           /\ up[m] \in Seq(Modules) /\ Len(up[m]) \in Nat \ {0}
           /\ up[m] = IF m \in stop THEN <<m>> ELSE <<m>> \o up[parent[m]]
  BY ChainsUp
<1> DEFINE f == [m \in Modules |->
                  [i \in 1 .. Len(up[m]) |-> label[up[m][i]]]]
<1>0. ASSUME NEW m \in Modules
      PROVE  /\ f[m] \in Seq(S) /\ Len(f[m]) = Len(up[m])
             /\ \A i \in 1 .. Len(up[m]) : f[m][i] = label[up[m][i]]
  <2>1. Len(up[m]) \in Nat /\ \A i \in 1 .. Len(up[m]) : up[m][i] \in Modules
    BY <1>1, ElementOfSeq
  <2>2. f[m] = [i \in 1 .. Len(up[m]) |-> label[up[m][i]]]
    OBVIOUS
  <2> HIDE DEF f
  <2>3. f[m] \in [1 .. Len(up[m]) -> S]
    BY <2>1, <2>2
  <2> QED
    BY <2>1, <2>2, <2>3
<1>3. f = [m \in Modules |-> f[m]]
  OBVIOUS
<1> HIDE DEF f
<1>2. ASSUME NEW m \in Modules
      PROVE  f[m] = IF m \in stop THEN <<label[m]>>
                    ELSE <<label[m]>> \o f[parent[m]]
  <2>1. CASE m \in stop
    <3>1. up[m] = <<m>>
      BY <1>1, <2>1
    <3>2. Len(up[m]) = 1 /\ up[m][1] = m
      BY <3>1
    <3>3. f[m] \in Seq(S) /\ Len(f[m]) = 1 /\ f[m][1] = label[m]
      BY <1>0, <3>2
    <3>4. f[m] = <<label[m]>>
      BY <3>3
    <3> QED
      BY <2>1, <3>4
  <2>2. CASE m \notin stop
    <3> DEFINE q == parent[m]
               t == <<label[m]>> \o f[q]
    <3>1. q \in Modules
      BY <2>2 DEF IsTree
    <3>2. up[m] = <<m>> \o up[q]
      BY <1>1, <2>2
    <3>3. /\ Len(up[m]) = Len(up[q]) + 1 /\ up[m][1] = m
          /\ \A i \in 1 .. Len(up[q]) : up[m][i + 1] = up[q][i]
      BY <1>1, <3>1, <3>2, InFront
    <3> HIDE DEF q
    <3>4. /\ t \in Seq(S) /\ Len(t) = Len(f[q]) + 1 /\ t[1] = label[m]
          /\ \A i \in 1 .. Len(f[q]) : t[i + 1] = f[q][i]
      BY <1>0, <3>1, InFront
    <3> HIDE DEF t
    <3>5. /\ f[m] \in Seq(S) /\ Len(f[m]) = Len(up[m])
          /\ \A i \in 1 .. Len(up[m]) : f[m][i] = label[up[m][i]]
          /\ Len(f[q]) = Len(up[q]) /\ Len(up[q]) \in Nat
          /\ \A i \in 1 .. Len(up[q]) : f[q][i] = label[up[q][i]]
      BY <1>0, <1>1, <3>1
    <3>6. ASSUME NEW i \in 1 .. Len(f[m]) PROVE f[m][i] = t[i]
      <4>1. i = 1 \/ (i - 1 \in 1 .. Len(up[q]) /\ (i - 1) + 1 = i)
        BY <3>3, <3>5
      <4>2. f[m][i] = label[up[m][i]]
        BY <3>5
      <4>3. i # 1 => f[m][i] = label[up[q][i - 1]] /\ t[i] = f[q][i - 1]
        BY <3>3, <3>4, <3>5, <4>1, <4>2
      <4> QED
        BY <3>3, <3>4, <3>5, <4>1, <4>2, <4>3
    <3>7. Len(f[m]) = Len(t)
      BY <3>3, <3>4, <3>5
    <3>8. f[m] = t
      BY <3>4, <3>5, <3>6, <3>7, SeqEqual
    <3> QED
      BY <2>2, <3>8 DEF t, q
  <2> QED
    BY <2>1, <2>2
<1> QED
  BY <1>2, <1>3
-----------------------------------------------------------------------------
(* Lookups. *)

(* No name but that of the top contains "top", by which the code knows it. *)
PlainNames == Names \cap WithTop = {}

(* The searches know the top by its name.                                  *)
LEMMA TopByName ==
  ASSUME PlainNames, IsTree, NEW m \in Modules
  PROVE  /\ name[m] \in WithTop <=> m = Top
         /\ name[m] = "top" <=> m = Top
BY TreeAssumption DEF PlainNames, IsTree

(* A module's ancestors are itself and those of its parent.                *)
LEMMA AncestorsUp ==
  ASSUME IsTree, NEW m \in Modules
  PROVE  /\ Ancestors(m) \in Seq(Modules) /\ Len(Ancestors(m)) \in Nat \ {0}
         /\ Ancestors(m) = IF m = Top THEN <<m>>
                           ELSE <<m>> \o Ancestors(parent[m])
<1> DEFINE Up(f) == f = [n \in Modules |->
                           IF n = Top THEN <<n>> ELSE <<n>> \o f[parent[n]]]
           up == CHOOSE f : Up(f)
<1>1. \E f : Up(f)
  <2>1. PICK g : \A n \in Modules :
            g[n] = IF n \in {Top} THEN <<n>> ELSE <<n>> \o g[parent[n]]
    <3>1. \E g : \A n \in Modules :
            /\ g[n] \in Seq(Modules) /\ Len(g[n]) \in Nat \ {0}
            /\ g[n] = IF n \in {Top} THEN <<n>> ELSE <<n>> \o g[parent[n]]
      <4>1. PICK stop : stop = {Top} /\ Top \in stop
        OBVIOUS
      <4> QED
        BY <4>1, ChainsUp
    <3> QED
      BY <3>1
  <2> DEFINE f == [n \in Modules |-> g[n]]
  <2>2. \A n \in Modules : n # Top => parent[n] \in Modules
    BY DEF IsTree
  <2>3. ASSUME NEW n \in Modules
        PROVE  f[n] = IF n = Top THEN <<n>> ELSE <<n>> \o f[parent[n]]
    BY <2>1, <2>2
  <2>4. f = [n \in Modules |-> f[n]]
    OBVIOUS
  <2> HIDE DEF f
  <2>5. Up(f)
    BY <2>3, <2>4
  <2> QED
    BY <2>5
<1>2. Up(up)
  <2> HIDE DEF Up
  <2> QED
    BY <1>1
<1>3. \A n \in Modules : Ancestors(n) = up[n]
  BY DEF Ancestors
<1> HIDE DEF up
<1>4. \A n \in Modules :
        up[n] = IF n = Top THEN <<n>> ELSE <<n>> \o up[parent[n]]
  BY <1>2
<1> HIDE DEF Up
<1>5. \A n \in Modules : n # Top => parent[n] \in Modules
  BY DEF IsTree
<1> DEFINE S == {n \in Modules :
                   up[n] \in Seq(Modules) /\ Len(up[n]) \in Nat \ {0}}
<1>6. Top \in S
  <2>1. Top \in Modules
    BY TreeAssumption
  <2>2. up[Top] = <<Top>>
    BY <1>4, <2>1
  <2>3. <<Top>> \in Seq(Modules) /\ Len(<<Top>>) \in Nat \ {0}
    BY <2>1
  <2>4. up[Top] \in Seq(Modules) /\ Len(up[Top]) \in Nat \ {0}
    BY <2>2, <2>3
  <2> HIDE DEF up
  <2> QED
    BY <2>1, <2>4
<1>7. ASSUME NEW n \in Modules \ {Top}, parent[n] \in S PROVE n \in S
  <2> DEFINE p == up[parent[n]]
  <2>1. up[n] = <<n>> \o p
    BY <1>4
  <2>2. p \in Seq(Modules) /\ Len(p) \in Nat \ {0}
    BY <1>7
  <2> HIDE DEF p
  <2>3. <<n>> \o p \in Seq(Modules) /\ Len(<<n>> \o p) = Len(p) + 1
    BY <2>2, InFront
  <2>4. Len(up[n]) \in Nat \ {0}
    BY <2>1, <2>2, <2>3
  <2> QED
    BY <2>1, <2>3, <2>4
<1>8. Modules \subseteq S
  <2> HIDE DEF S
  <2> QED
    BY <1>6, <1>7, TreeInduction
<1> QED
  BY <1>3, <1>4, <1>5, <1>8

(* where on a path a parameter has a value                                 *)
Having(path, param) == {i \in 1 .. Len(path) : ~IsNull(Own(path[i], param))}

NearestOn(path, param, value) ==
  IF Having(path, param) = {} THEN value = Exit
  ELSE \E i \in Having(path, param) :
         /\ \A j \in Having(path, param) : i <= j
         /\ value = Own(path[i], param)

(* Where a parameter has a value when one more module is asked first.      *)
LEMMA HavingInFront ==
  ASSUME NEW m \in Modules, NEW path \in Seq(Modules), NEW param
  PROVE  /\ 1 \in Having(<<m>> \o path, param) <=> ~IsNull(Own(m, param))
         /\ \A i \in 1 .. Len(path) : i + 1 \in Having(<<m>> \o path, param)
                                        <=> i \in Having(path, param)
         /\ \A i \in Having(<<m>> \o path, param) :
              i = 1 \/ (i - 1 \in 1 .. Len(path) /\ (i - 1) + 1 = i)
<1>1. PICK s : s = <<m>> \o path
  OBVIOUS
<1>2. /\ Len(s) = Len(path) + 1 /\ s[1] = m /\ Len(path) \in Nat
      /\ \A i \in 1 .. Len(path) : s[i + 1] = path[i]
  BY <1>1, InFront, LenProperties
<1>3. 1 \in Having(s, param) <=> ~IsNull(Own(m, param))
  BY <1>2 DEF Having
<1>4. ASSUME NEW i \in 1 .. Len(path)
      PROVE  i + 1 \in Having(s, param) <=> i \in Having(path, param)
  <2>1. i + 1 \in 1 .. Len(s) /\ s[i + 1] = path[i]
    BY <1>2
  <2> QED
    BY <2>1 DEF Having
<1>5. ASSUME NEW i \in Having(s, param)
      PROVE  i = 1 \/ (i - 1 \in 1 .. Len(path) /\ (i - 1) + 1 = i)
  BY <1>2 DEF Having
<1> QED
  BY <1>1, <1>3, <1>4, <1>5

(* The nearest on a path that begins with m is m, or the nearest behind.   *)
LEMMA NearestInFront ==
  ASSUME NEW m \in Modules, NEW path \in Seq(Modules), NEW param, NEW value,
         IF ~IsNull(Own(m, param)) THEN value = Own(m, param)
         ELSE NearestOn(path, param, value)
  PROVE  NearestOn(<<m>> \o path, param, value)
<1>1. PICK s : s = <<m>> \o path
  OBVIOUS
<1>2. /\ 1 \in Having(s, param) <=> ~IsNull(Own(m, param))
      /\ \A i \in 1 .. Len(path) : i + 1 \in Having(s, param)
                                     <=> i \in Having(path, param)
      /\ \A i \in Having(s, param) :
           i = 1 \/ (i - 1 \in 1 .. Len(path) /\ (i - 1) + 1 = i)
  BY <1>1, HavingInFront
<1>3. /\ s[1] = m /\ Len(path) \in Nat
      /\ \A i \in 1 .. Len(path) : s[i + 1] = path[i]
  BY <1>1, InFront, LenProperties
<1>4. \A i \in Having(path, param) : i \in 1 .. Len(path)
  BY DEF Having
<1>5. CASE ~IsNull(Own(m, param))
  <2>1. 1 \in Having(s, param) /\ value = Own(s[1], param)
    BY <1>2, <1>3, <1>5
  <2>2. \A j \in Having(s, param) : 1 <= j
    BY <1>2, <1>3
  <2>3. NearestOn(s, param, value)
    BY <2>1, <2>2 DEF NearestOn
  <2> QED
    BY <1>1, <2>3
<1>6. CASE IsNull(Own(m, param))
  <2>1. NearestOn(path, param, value)
    BY <1>6
  <2>2. CASE Having(path, param) = {}
    <3>1. Having(s, param) = {}
      BY <1>2, <1>6, <2>2
    <3> QED
      BY <1>1, <2>1, <2>2, <3>1 DEF NearestOn
  <2>3. CASE Having(path, param) # {}
    <3>1. PICK i \in Having(path, param) :
            /\ \A j \in Having(path, param) : i <= j
            /\ value = Own(path[i], param)
      BY <2>1, <2>3 DEF NearestOn
    <3>2. i + 1 \in Having(s, param) /\ s[i + 1] = path[i] /\ i \in Nat
      BY <1>2, <1>3, <1>4, <3>1
    <3>3. ASSUME NEW j \in Having(s, param) PROVE i + 1 <= j
      <4>1. j - 1 \in 1 .. Len(path) /\ (j - 1) + 1 = j
        BY <1>2, <1>6
      <4>2. i <= j - 1 /\ j - 1 \in Nat
        BY <1>2, <3>1, <4>1
      <4> QED
        BY <3>2, <4>1, <4>2
    <3>4. NearestOn(s, param, value)
      BY <3>1, <3>2, <3>3 DEF NearestOn
    <3> QED
      BY <1>1, <3>4
  <2> QED
    BY <2>2, <2>3
<1> QED
  BY <1>5, <1>6

(* The value of a search upwards is the nearest one.                       *)
LEMMA SearchIsNearest ==
  ASSUME IsTree, NEW param, NEW f,
         \A q \in Modules :
           f[q] = IF ~IsNull(Own(q, param)) THEN Own(q, param)
                  ELSE IF q = Top THEN Exit ELSE f[parent[q]]
  PROVE  \A m \in Modules : NearestOn(Ancestors(m), param, f[m])
<1> DEFINE S == {m \in Modules : NearestOn(Ancestors(m), param, f[m])}
<1>1. Top \in S
  <2>1. /\ Top \in Modules /\ Ancestors(Top) = <<Top>>
        /\ Len(<<Top>>) = 1 /\ <<Top>>[1] = Top
    BY AncestorsUp, TreeAssumption
  <2>2. PICK path : path = <<Top>>
    OBVIOUS
  <2>3. Having(path, param) = IF IsNull(Own(Top, param)) THEN {} ELSE {1}
    BY <2>1, <2>2 DEF Having
  <2>4. NearestOn(path, param, f[Top])
    BY <2>1, <2>2, <2>3 DEF NearestOn
  <2> QED
    BY <2>1, <2>2, <2>4
<1>2. ASSUME NEW m \in Modules \ {Top}, parent[m] \in S PROVE m \in S
  <2>1. parent[m] \in Modules /\ Ancestors(m) = <<m>> \o Ancestors(parent[m])
    BY <1>2, AncestorsUp
  <2>2. Ancestors(parent[m]) \in Seq(Modules)
    BY <2>1, AncestorsUp
  <2>3. IF ~IsNull(Own(m, param)) THEN f[m] = Own(m, param)
        ELSE NearestOn(Ancestors(parent[m]), param, f[m])
    BY <1>2
  <2>4. NearestOn(<<m>> \o Ancestors(parent[m]), param, f[m])
    BY <2>2, <2>3, NearestInFront
  <2> QED
    BY <2>1, <2>4
<1>3. Modules \subseteq S
  <2> HIDE DEF S
  <2> QED
    BY <1>1, <1>2, TreeInduction
<1> QED
  BY <1>3

-----------------------------------------------------------------------------
(* Both searches along the parents find the nearest value.                 *)
LEMMA SearchesAreNearest ==
  ASSUME PlainNames, IsTree, NEW param, NEW m \in Modules
  PROVE  /\ NearestOn(Ancestors(m), param, GetParameterfromParent(param, m))
         /\ NearestOn(Ancestors(m), param, Searchinparent(param, m))
<1> DEFINE Next1(f, q) == IF ~IsNull(Own(q, param)) THEN Own(q, param)
                          ELSE IF q = Top THEN Exit ELSE f[parent[q]]
           Is(f) == f = [q \in Modules |-> Next1(f, q)]
           result == CHOOSE f : Is(f)
<1>1. \E f : Is(f)
  <2> DEFINE stop == {q \in Modules : ~IsNull(Own(q, param)) \/ q = Top}
             base == [q \in Modules |->
                       IF ~IsNull(Own(q, param)) THEN Own(q, param) ELSE Exit]
  <2>1. Top \in stop
    BY TreeAssumption
  <2>2. \A q \in Modules : base[q] = IF ~IsNull(Own(q, param)) THEN Own(q, param)
                                     ELSE Exit
    OBVIOUS
  <2>3. \A q \in Modules : q \in stop <=> (~IsNull(Own(q, param)) \/ q = Top)
    OBVIOUS
  <2> HIDE DEF stop, base
  <2>4. PICK f : /\ f = [q \in Modules |-> f[q]]
                 /\ \A q \in Modules :
                      f[q] = IF q \in stop THEN base[q] ELSE f[parent[q]]
    BY <2>1, UpwardSearch
  <2>5. \A q \in Modules : f[q] = Next1(f, q)
    BY <2>2, <2>3, <2>4
  <2>6. Is(f)
    <3> HIDE DEF Next1
    <3> QED
      BY <2>4, <2>5
  <2> QED
    BY <2>6
<1>2. Is(result)
  <2> HIDE DEF Is
  <2> QED
    BY <1>1
<1>3. \A q \in Modules : /\ name[q] \in WithTop <=> q = Top
                         /\ name[q] = "top" <=> q = Top
  BY TopByName
<1>4. GetParameterfromParent(param, m) = result[m]
  <2>1. \A f : [q \in Modules |-> IF ~IsNull(Own(q, param)) THEN Own(q, param)
                                  ELSE IF name[q] = "top" THEN Exit
                                  ELSE f[parent[q]]]
                 = [q \in Modules |-> Next1(f, q)]
    BY <1>3
  <2> HIDE DEF Next1
  <2> QED
    BY <2>1 DEF GetParameterfromParent
<1>5. Searchinparent(param, m) = result[m]
  <2>1. \A f : [q \in Modules |-> IF ~IsNull(Own(q, param)) THEN Own(q, param)
                                  ELSE IF name[q] \in WithTop THEN Exit
                                  ELSE f[parent[q]]]
                 = [q \in Modules |-> Next1(f, q)]
    BY <1>3
  <2>2. m # Null
    BY TreeAssumption
  <2> HIDE DEF Next1
  <2> QED
    BY <2>1, <2>2 DEF Searchinparent
<1> HIDE DEF result
<1>6. \A q \in Modules : result[q] = Next1(result, q)
  <2> HIDE DEF Next1
  <2> QED
    BY <1>2
<1>7. NearestOn(Ancestors(m), param, result[m])
  BY <1>6, SearchIsNearest
<1> QED
  BY <1>4, <1>5, <1>7

(* What a module's own parameter can be.                                   *)
LEMMA LoadFacts ==
  ASSUME NEW files \in Configurations \cup {Null}
  PROVE  /\ Load(files).type \in {"object", "null", "exit"}
         /\ \A param : LocalSearch(Load(files), param).type \in ValueTypes
<1>1. CASE files = Null
  BY <1>1 DEF Load, LocalSearch, NullJson, Json, ValueTypes
<1>2. CASE files # Null
  <2> DEFINE base == File[files[1]]
             own == File[files[2]]
  <2>1. base \in Values /\ base.type = "object"
    BY <1>2, TreeAssumption
  <2>2. CASE files[2] = Null
    <3>1. Load(files) = base
      BY <1>2, <2>2 DEF Load
    <3>2. ASSUME NEW param PROVE LocalSearch(base, param).type \in ValueTypes
      <4>1. CASE param \in DOMAIN base.value
        <5>1. param \in Keys(base)
          BY <2>1, <4>1 DEF Keys, IsStructured
        <5>2. base.value[param] \in Values
          BY <2>1, <5>1, ValueFacts
        <5>3. base.value[param].type \in ValueTypes
          BY <5>2, ValueFacts
        <5> QED
          BY <2>1, <4>1, <5>3 DEF LocalSearch
      <4>2. CASE param \notin DOMAIN base.value
        BY <4>2 DEF LocalSearch, NullJson, Json, ValueTypes
      <4> QED
        BY <4>1, <4>2
    <3> QED
      BY <2>1, <3>1, <3>2
  <2>3. CASE files[2] # Null
    <3>1. own \in Values
      BY <1>2, <2>3, TreeAssumption
    <3>2. PICK r : r = CompareStructure[<<own, base>>]
      OBVIOUS
    <3>3. Load(files) = r
      BY <1>2, <2>3, <3>2 DEF Load
    <3>4. CASE r.type = "exit"
      BY <3>3, <3>4 DEF LocalSearch, NullJson, Json, ValueTypes
    <3>5. CASE r.type # "exit"
      <4> HIDE DEF own, base
      <4>1. /\ r.type = base.type /\ Keys(r) = Keys(base)
            /\ \A k \in Keys(base) :
                 /\ r.value[k].type # "exit"
                 /\ r.value[k] = IF k \in Keys(own)
                                 THEN CompareStructure[<<own.value[k], base.value[k]>>]
                                 ELSE base.value[k]
        BY <2>1, <3>1, <3>2, <3>5, ComparedWell
      <4>2. ASSUME NEW param, param \in DOMAIN r.value
            PROVE  r.value[param].type \in ValueTypes
        <5>1. param \in Keys(base)
          BY <2>1, <4>1, <4>2 DEF Keys, IsStructured
        <5>2. base.value[param] \in Values /\ base.value[param].type \in ValueTypes
          BY <2>1, <5>1, ValueFacts
        <5>3. CASE param \in Keys(own)
          <6>1. own.value[param] \in Values
            BY <3>1, <5>3, ValueFacts
          <6>2. PICK s : s = CompareStructure[<<own.value[param], base.value[param]>>]
            OBVIOUS
          <6>3. s.type # "exit" /\ r.value[param] = s
            BY <4>1, <5>1, <5>3, <6>2
          <6>4. s.type = base.value[param].type
            BY <5>2, <6>1, <6>2, <6>3, ComparedWell
          <6> QED
            BY <5>2, <6>3, <6>4
        <5>4. CASE param \notin Keys(own)
          BY <4>1, <5>1, <5>2, <5>4
        <5> QED
          BY <5>3, <5>4
      <4>3. \A param : LocalSearch(r, param).type \in ValueTypes
        <5>1. NullJson.type \in ValueTypes
          BY DEF NullJson, Json, ValueTypes
        <5> QED
          BY <4>2, <5>1 DEF LocalSearch
      <4> QED
        BY <2>1, <3>3, <4>1, <4>3
    <3> QED
      BY <3>4, <3>5
  <2> QED
    BY <2>2, <2>3
<1> QED
  BY <1>1, <1>2

-----------------------------------------------------------------------------
(* Answers. *)

Path(how, module, process) ==
  IF how = "GetParameter" THEN Ancestors(module)
  ELSE IF process = Null THEN <<module>>
  ELSE <<module>> \o Tail(Ancestors(process))

Right(how, module, process, param, value) ==
  LET path == Path(how, module, process)
      having == {i \in DOMAIN path : ~IsNull(Own(path[i], param))}
  IN  CASE value.type = "exit" -> having = {}
        [] value.type = "crash" -> having = {} /\ process = Top
        [] value.type = "null" ->
             \/ having = {} /\ module = Top
             \/ how = "operator[]" /\ 1 \notin having
        [] OTHER -> \E i \in having : /\ \A j \in having : i <= j
                                      /\ value = Own(path[i], param)

(* What is searched is a list of modules, operator[]'s own module first.   *)
LEMMA PathIsList ==
  ASSUME IsTree, NEW module \in Modules, NEW process \in Modules \cup {Null}, NEW how
  PROVE  /\ Path(how, module, process) \in Seq(Modules)
         /\ how # "GetParameter" => Path(how, module, process)[1] = module
                                    /\ 1 \in DOMAIN Path(how, module, process)
<1>1. /\ Ancestors(module) \in Seq(Modules)
      /\ <<module>> \in Seq(Modules) /\ <<module>>[1] = module
  <2>1. Ancestors(module) \in Seq(Modules)
    BY AncestorsUp
  <2>2. <<module>> \in Seq(Modules) /\ <<module>>[1] = module
    OBVIOUS
  <2> QED
    BY <2>1, <2>2
<1>2. CASE process \in Modules
  <2>1. Ancestors(process) \in Seq(Modules) /\ Len(Ancestors(process)) \in Nat \ {0}
    BY <1>2, AncestorsUp
  <2>2. Tail(Ancestors(process)) \in Seq(Modules)
    BY <2>1, EmptySeq, HeadTailProperties
  <2>3. PICK t \in Seq(Modules) : t = Tail(Ancestors(process))
    BY <2>2
  <2>4. /\ <<module>> \o t \in Seq(Modules) /\ (<<module>> \o t)[1] = module
        /\ Len(<<module>> \o t) = Len(t) + 1 /\ Len(t) \in Nat
    BY InFront, LenProperties
  <2>5. 1 \in DOMAIN (<<module>> \o t)
    <3>1. PICK s \in Seq(Modules) : s = <<module>> \o t
      BY <2>4
    <3>2. DOMAIN s = 1 .. Len(s) /\ Len(s) = Len(t) + 1
      BY <2>4, <3>1, LenProperties
    <3> QED
      BY <2>4, <3>1, <3>2
  <2>6. process # Null
    BY <1>2, TreeAssumption
  <2> QED
    BY <1>1, <2>3, <2>4, <2>5, <2>6 DEF Path
<1>3. CASE process = Null
  <2>1. 1 \in DOMAIN <<module>>
    OBVIOUS
  <2> QED
    BY <1>1, <1>3, <2>1 DEF Path
<1> QED
  BY <1>2, <1>3

(* The nearest value is the right answer.                                  *)
LEMMA NearestIsRight ==
  ASSUME IsTree, NEW module \in Modules, NEW process \in Modules \cup {Null},
         NEW how, NEW param, NEW value,
         \A q \in Modules : Own(q, param).type \in ValueTypes,
         NearestOn(Path(how, module, process), param, value)
  PROVE  Right(how, module, process, param, value)
<1>1. PICK path \in Seq(Modules) : path = Path(how, module, process)
  BY PathIsList
<1>2. DOMAIN path = 1 .. Len(path) /\ \A i \in 1 .. Len(path) : path[i] \in Modules
  BY LenProperties, ElementOfSeq
<1>3. Having(path, param) = {i \in DOMAIN path : ~IsNull(Own(path[i], param))}
  BY <1>2 DEF Having
<1>4. NearestOn(path, param, value)
  BY <1>1
<1>5. CASE Having(path, param) = {}
  <2>1. value.type = "exit"
    BY <1>4, <1>5 DEF NearestOn, Exit, Json
  <2> QED
    BY <1>1, <1>3, <1>5, <2>1 DEF Right
<1>6. CASE Having(path, param) # {}
  <2>1. PICK i \in Having(path, param) :
          /\ \A j \in Having(path, param) : i <= j
          /\ value = Own(path[i], param)
    BY <1>4, <1>6 DEF NearestOn
  <2>2. value.type \in ValueTypes /\ value.type # "null"
    BY <1>2, <2>1 DEF Having, IsNull
  <2>3. value.type \notin {"exit", "crash", "null"}
    BY <2>2 DEF ValueTypes
  <2> QED
    BY <1>1, <1>3, <2>1, <2>3 DEF Right
<1> QED
  BY <1>5, <1>6

(* GetParameter asks the module, then its parents.                         *)
LEMMA GetParameterIsRight ==
  ASSUME PlainNames, IsTree, NEW m \in Modules, NEW process \in Modules \cup {Null},
         NEW param, \A q \in Modules : Own(q, param).type \in ValueTypes
  PROVE  Right("GetParameter", m, process, param, GetParameter(m, param))
<1> DEFINE path == Ancestors(m)
           value == GetParameter(m, param)
<1>1. Path("GetParameter", m, process) = path
  BY DEF Path
<1>2. name[m] = "top" <=> m = Top
  BY TopByName
<1>3. CASE m # Top
  <2>1. parent[m] \in Modules /\ path = <<m>> \o Ancestors(parent[m])
    BY <1>3, AncestorsUp DEF IsTree
  <2>2. Ancestors(parent[m]) \in Seq(Modules)
    BY <2>1, AncestorsUp
  <2>3. NearestOn(Ancestors(parent[m]), param, GetParameterfromParent(param, parent[m]))
    BY <2>1, SearchesAreNearest
  <2>4. IF ~IsNull(Own(m, param)) THEN value = Own(m, param)
        ELSE NearestOn(Ancestors(parent[m]), param, value)
    BY <1>2, <1>3, <2>3 DEF GetParameter
  <2> HIDE DEF value
  <2>5. NearestOn(path, param, value)
    BY <2>1, <2>2, <2>4, NearestInFront
  <2> QED
    BY <1>1, <2>5, NearestIsRight DEF value
<1>4. CASE m = Top
  <2>1. value = Own(m, param)
    BY <1>2, <1>4 DEF GetParameter
  <2>2. path = <<m>>
    BY <1>4, AncestorsUp
  <2>3. PICK s : s = <<m>>
    OBVIOUS
  <2>4. DOMAIN s = {1} /\ s[1] = m
    BY <2>3
  <2>5. value.type \in ValueTypes
    BY <2>1
  <2>6. value.type \notin {"exit", "crash"}
    BY <2>5 DEF ValueTypes
  <2>7. CASE IsNull(Own(m, param))
    <3>1. {i \in DOMAIN s : ~IsNull(Own(s[i], param))} = {}
      BY <2>4, <2>7
    <3>2. value.type = "null"
      BY <2>1, <2>7 DEF IsNull
    <3> QED
      BY <1>1, <1>4, <2>2, <2>3, <3>1, <3>2 DEF Right
  <2>8. CASE ~IsNull(Own(m, param))
    <3>1. {i \in DOMAIN s : ~IsNull(Own(s[i], param))} = {1}
      BY <2>4, <2>8
    <3>2. value.type \notin {"exit", "crash", "null"}
      BY <2>1, <2>6, <2>8 DEF IsNull
    <3>3. \E i \in {1} : /\ \A j \in {1} : i <= j
                         /\ value = Own(s[i], param)
      BY <2>1, <2>4
    <3> QED
      BY <1>1, <2>2, <2>3, <3>1, <3>2, <3>3 DEF Right
  <2> QED
    BY <2>7, <2>8
<1> QED
  BY <1>3, <1>4

(* operator[] asks the module, then the parents of the running process.    *)
LEMMA HeirarchalSearchIsRight ==
  ASSUME PlainNames, IsTree, NEW m \in Modules, NEW process \in Modules \cup {Null},
         NEW param, \A q \in Modules : Own(q, param).type \in ValueTypes
  PROVE  Right("operator[]", m, process, param, HeirarchalSearch(m, param, process))
<1> DEFINE value == HeirarchalSearch(m, param, process)
           found == /\ SimulationParameters[m].type = "object"
                    /\ param \in DOMAIN SimulationParameters[m].value
<1>0. "operator[]" # "GetParameter"
  OBVIOUS
<1>1. PICK path \in Seq(Modules) : path = Path("operator[]", m, process)
  BY PathIsList
<1>2. path[1] = m /\ 1 \in DOMAIN path /\ DOMAIN path = 1 .. Len(path)
  BY <1>0, <1>1, PathIsList, LenProperties
<1> DEFINE having == {i \in DOMAIN path : ~IsNull(Own(path[i], param))}
<1>3. CASE found
  <2>1. value = Own(m, param)
    BY <1>3 DEF HeirarchalSearch
  <2>2. value.type \notin {"exit", "crash"}
    <3>1. value.type \in ValueTypes
      BY <2>1
    <3> QED
      BY <3>1 DEF ValueTypes
  <2>3. CASE IsNull(Own(m, param))
    <3>1. value.type = "null" /\ 1 \notin having
      BY <1>2, <2>1, <2>3 DEF IsNull
    <3> QED
      BY <1>1, <3>1 DEF Right
  <2>4. CASE ~IsNull(Own(m, param))
    <3>1. value.type \notin {"exit", "crash", "null"}
      BY <2>1, <2>2, <2>4 DEF IsNull
    <3>2. 1 \in having /\ value = Own(path[1], param)
      BY <1>2, <2>1, <2>4
    <3>3. \A j \in having : 1 <= j
      BY <1>2
    <3> QED
      BY <1>1, <3>1, <3>2, <3>3 DEF Right
  <2> QED
    BY <2>3, <2>4
<1>4. CASE ~found
  <2>1. Own(m, param) = NullJson /\ IsNull(Own(m, param))
    BY <1>4 DEF Own, LocalSearch, IsNull, NullJson, Json
  <2>2. CASE process = Null
    <3>1. value.type = "exit"
      BY <1>4, <2>2 DEF HeirarchalSearch, Exit, Json
    <3>2. path = <<m>>
      BY <1>0, <1>1, <2>2 DEF Path
    <3>3. DOMAIN path = {1}
      BY <3>2
    <3>4. having = {}
      BY <1>2, <2>1, <3>3
    <3> QED
      BY <1>1, <3>1, <3>4 DEF Right
  <2>3. CASE process = Top
    <3>1. process # Null /\ parent[process] = Null
      BY <2>3, TreeAssumption DEF IsTree
    <3>2. value.type = "crash"
      BY <1>4, <3>1 DEF HeirarchalSearch, Searchinparent, Crash, Json
    <3>3. path = <<m>>
      <4>1. Ancestors(process) = <<Top>>
        BY <2>3, AncestorsUp, TreeAssumption
      <4>2. Tail(<<Top>>) = <<>> /\ <<m>> \o <<>> = <<m>>
        OBVIOUS
      <4> QED
        BY <1>0, <1>1, <3>1, <4>1, <4>2 DEF Path
    <3>4. DOMAIN path = {1}
      BY <3>3
    <3>5. having = {}
      BY <1>2, <2>1, <3>4
    <3> QED
      BY <1>1, <2>3, <3>2, <3>5 DEF Right
  <2>4. CASE process \in Modules \ {Top}
    <3> DEFINE up == Ancestors(parent[process])
    <3>1. process # Null /\ parent[process] \in Modules
      BY <2>4, TreeAssumption DEF IsTree
    <3>2. value = Searchinparent(param, parent[process])
      BY <1>4, <3>1 DEF HeirarchalSearch
    <3>3. NearestOn(up, param, value)
      BY <3>1, <3>2, SearchesAreNearest
    <3>4. up \in Seq(Modules)
      BY <3>1, AncestorsUp
    <3>5. Tail(Ancestors(process)) = up
      <4>1. Ancestors(process) = <<process>> \o up
        BY <2>4, AncestorsUp
      <4> HIDE DEF up
      <4>2. Tail(<<process>> \o up) = up
        BY <3>4
      <4> QED
        BY <4>1, <4>2
    <3>6. path = <<m>> \o up
      BY <1>0, <1>1, <3>1, <3>5 DEF Path
    <3> HIDE DEF up, value
    <3>7. NearestOn(<<m>> \o up, param, value)
      BY <2>1, <3>3, <3>4, NearestInFront
    <3> QED
      BY <1>1, <3>6, <3>7, NearestIsRight DEF value
  <2> QED
    BY <2>2, <2>3, <2>4
<1> QED
  BY <1>3, <1>4

-----------------------------------------------------------------------------
(* The inductive invariant of the tree. *)

RegisteredChildren(m) ==
  [n \in {name[c] : c \in Children(m)} |->
    CHOOSE c \in Children(m) : name[c] = n]

(* the modules of the answer's path are configured                         *)
Settled(path) ==
  \A i \in DOMAIN path : path[i] \in Modules /\ stage[path[i]] # "none"

AnswerInv ==
  answer # Null =>
    /\ answer.module \in Modules /\ answer.process \in Modules \cup {Null}
    /\ Settled(Path(answer.how, answer.module, answer.process))
    /\ PlainNames /\ answer.how \in {"GetParameter", "operator[]"}
         => Right(answer.how, answer.module, answer.process, answer.param,
                  answer.value)

StageInv ==
  /\ stage \in [Modules -> {"none", "children", "done"}]
  /\ \A m \in Modules \ {Top} : stage[m] # "none" => stage[parent[m]] # "none"
  /\ \A m \in Modules : stage[m] = "done"
       => \A c \in Children(m) : stage[c] = "done"

LoadInv ==
  /\ configuration \in [Modules -> Configurations \cup {Null}]
  /\ SimulationParameters \in [Modules -> {Load(f) : f \in Configurations \cup {Null}}]
  /\ \A m \in Modules : SimulationParameters[m] = Load(configuration[m])

RegisterInv ==
  childModules = [m \in Modules |->
                   IF stage[m] = "done" THEN RegisteredChildren(m) ELSE <<>>]

ObserverInv ==
  \/ observers = [m \in Modules |-> <<>>] /\ outcome # "running"
  \/ observers = [m \in Modules |-> <<Observer>>] /\ stage[Top] = "done"

OutcomeInv ==
  /\ outcome \in {"parsing", "usage", "user_error", "undefined",
                  "elaborating", "failure", "running", "exit", "unhandled"}
  /\ outcome = "running" => stage[Top] = "done"

TreeInv ==
  /\ IsTree /\ StageInv /\ LoadInv /\ RegisterInv /\ ObserverInv /\ OutcomeInv

(* All are done when the top is.                                           *)
LEMMA AllDone ==
  ASSUME IsTree, StageInv, stage[Top] = "done", NEW m \in Modules
  PROVE  stage[m] = "done"
<1> DEFINE S == {q \in Modules : stage[q] = "done"}
<1>1. Top \in S
  BY TreeAssumption
<1>2. ASSUME NEW q \in Modules \ {Top}, parent[q] \in S PROVE q \in S
  BY <1>2 DEF StageInv, Children
<1>3. Modules \subseteq S
  <2> HIDE DEF S
  <2> QED
    BY <1>1, <1>2, TreeInduction
<1> QED
  BY <1>3

(* A module's parents are configured before it.                            *)
LEMMA AncestorsSettled ==
  ASSUME IsTree, StageInv, NEW m \in Modules, stage[m] # "none"
  PROVE  Settled(Ancestors(m))
<1> DEFINE S == {q \in Modules : stage[q] # "none" => Settled(Ancestors(q))}
<1>1. Top \in S
  <2>1. Top \in Modules /\ Ancestors(Top) = <<Top>>
    BY AncestorsUp, TreeAssumption
  <2>2. PICK s : s = <<Top>>
    OBVIOUS
  <2>3. DOMAIN s = {1} /\ s[1] = Top
    BY <2>2
  <2>4. stage[Top] # "none" => Settled(s)
    BY <2>1, <2>3 DEF Settled
  <2> QED
    BY <2>1, <2>2, <2>4
<1>2. ASSUME NEW q \in Modules \ {Top}, parent[q] \in S PROVE q \in S
  <2>1. parent[q] \in Modules
    BY DEF IsTree
  <2>2. PICK u \in Seq(Modules) : u = Ancestors(parent[q])
    BY <2>1, AncestorsUp
  <2>3. Ancestors(q) = <<q>> \o u
    BY <2>2, AncestorsUp
  <2>4. PICK s : s = <<q>> \o u
    OBVIOUS
  <2>5. /\ s \in Seq(Modules) /\ Len(s) = Len(u) + 1 /\ s[1] = q
        /\ \A i \in 1 .. Len(u) : s[i + 1] = u[i]
        /\ Len(u) \in Nat /\ DOMAIN u = 1 .. Len(u)
    BY <2>4, InFront, LenProperties
  <2>6. DOMAIN s = 1 .. Len(s)
    BY <2>5, LenProperties
  <2>7. ASSUME stage[q] # "none" PROVE Settled(s)
    <3>1. stage[parent[q]] # "none"
      BY <2>7 DEF StageInv
    <3>2. Settled(u)
      BY <1>2, <2>2, <3>1
    <3>3. ASSUME NEW i \in DOMAIN s PROVE s[i] \in Modules /\ stage[s[i]] # "none"
      <4>1. i = 1 \/ (i - 1 \in 1 .. Len(u) /\ (i - 1) + 1 = i)
        BY <2>5, <2>6
      <4>2. CASE i = 1
        BY <2>5, <2>7, <4>2
      <4>3. CASE i - 1 \in 1 .. Len(u) /\ (i - 1) + 1 = i
        <5>1. s[i] = u[i - 1]
          BY <2>5, <4>3
        <5> QED
          BY <2>5, <3>2, <4>3, <5>1 DEF Settled
      <4> QED
        BY <4>1, <4>2, <4>3
    <3> QED
      BY <3>3 DEF Settled
  <2> QED
    BY <2>3, <2>4, <2>7
<1>3. Modules \subseteq S
  <2> HIDE DEF S
  <2> QED
    BY <1>1, <1>2, TreeInduction
<1> QED
  BY <1>3

(* childModules_ gives each child by its name: siblings' names differ.     *)
LEMMA ChildFacts ==
  ASSUME IsTree, NEW m \in Modules
  PROVE  /\ RegisteredChildren(m) \in [{name[c] : c \in Children(m)} -> Children(m)]
         /\ \A c \in Children(m) : c \in Modules \ {Top} /\ parent[c] = m
                                   /\ RegisteredChildren(m)[name[c]] = c
<1>1. ASSUME NEW c \in Children(m) PROVE c \in Modules \ {Top} /\ parent[c] = m
  BY TreeAssumption DEF Children, IsTree
<1>2. ASSUME NEW c \in Children(m)
      PROVE  (CHOOSE d \in Children(m) : name[d] = name[c]) = c
  <2>1. PICK d \in Children(m) :
          d = (CHOOSE e \in Children(m) : name[e] = name[c]) /\ name[d] = name[c]
    OBVIOUS
  <2>2. d = c
    BY <2>1, <1>1 DEF IsTree
  <2> QED
    BY <2>1, <2>2
<1>3. RegisteredChildren(m) \in [{name[c] : c \in Children(m)} -> Children(m)]
  <2>1. \A n \in {name[c] : c \in Children(m)} :
          (CHOOSE c \in Children(m) : name[c] = n) \in Children(m)
    OBVIOUS
  <2> QED
    BY <2>1 DEF RegisteredChildren
<1> QED
  BY <1>1, <1>2, <1>3 DEF RegisteredChildren

(* An answer stays right: what it was read from does not change.           *)
LEMMA AnswerStays ==
  ASSUME IsTree, AnswerInv, UNCHANGED <<parent, answer>>,
         \A q \in Modules : stage[q] # "none" =>
           stage'[q] # "none" /\ SimulationParameters'[q] = SimulationParameters[q]
  PROVE  AnswerInv'
<1> SUFFICES ASSUME answer # Null PROVE AnswerInv'
  BY DEF AnswerInv
<1> DEFINE how == answer.how
           module == answer.module
           process == answer.process
           param == answer.param
           value == answer.value
<1>1. /\ module \in Modules /\ process \in Modules \cup {Null}
      /\ Settled(Path(how, module, process))
      /\ PlainNames /\ how \in {"GetParameter", "operator[]"}
           => Right(how, module, process, param, value)
  BY DEF AnswerInv
<1>2. PICK path : path = Path(how, module, process)
  OBVIOUS
<1>3. Path(how, module, process)' = path
  BY <1>2 DEF Path, Ancestors
<1>4. \A i \in DOMAIN path : path[i] \in Modules /\ stage[path[i]] # "none"
  BY <1>1, <1>2 DEF Settled
<1>5. Settled(path)'
  BY <1>4 DEF Settled
<1>6. ASSUME NEW i \in DOMAIN path PROVE Own(path[i], param)' = Own(path[i], param)
  <2>1. SimulationParameters'[path[i]] = SimulationParameters[path[i]]
    BY <1>4
  <2> QED
    BY <2>1 DEF Own, LocalSearch
<1>7. Right(how, module, process, param, value)
        => Right(how, module, process, param, value)'
  <2>1. {i \in DOMAIN path : ~IsNull(Own(path[i], param))}'
          = {i \in DOMAIN path : ~IsNull(Own(path[i], param))}
    <3>1. {i \in DOMAIN path : ~IsNull(Own(path[i], param)')}
            = {i \in DOMAIN path : ~IsNull(Own(path[i], param))}
      BY <1>6
    <3>2. {i \in DOMAIN path : ~IsNull(Own(path[i], param))}'
            = {i \in DOMAIN path : ~IsNull(Own(path[i], param)')}
      BY DEF IsNull
    <3> QED
      BY <3>1, <3>2
  <2> QED
    BY <1>2, <1>3, <1>6, <2>1 DEF Right
<1>8. Settled(Path(how, module, process))'
  BY <1>3, <1>5 DEF Settled
<1> QED
  BY <1>1, <1>7, <1>8 DEF AnswerInv, PlainNames

(* A new answer is right.                                                  *)
LEMMA LooksSettled ==
  ASSUME IsTree, StageInv, OutcomeInv, NEW how, NEW m \in Modules,
         NEW process \in Modules \cup {Null}, NEW param, NEW value,
         Looks(how, m, process, param, value)
  PROVE  Settled(Path(how, m, process))
<1>1. CASE outcome = "running"
  <2>1. \A q \in Modules : stage[q] = "done"
    BY <1>1, AllDone DEF OutcomeInv
  <2>2. PICK path \in Seq(Modules) : path = Path(how, m, process)
    BY PathIsList
  <2>3. DOMAIN path = 1 .. Len(path) /\ \A i \in 1 .. Len(path) : path[i] \in Modules
    BY LenProperties, ElementOfSeq
  <2> QED
    BY <2>1, <2>2, <2>3 DEF Settled
<1>2. CASE outcome # "running"
  <2>1. process = Null /\ stage[m] # "none"
    BY <1>2 DEF Looks
  <2>2. CASE how = "GetParameter"
    BY <2>1, <2>2, AncestorsSettled DEF Path
  <2>3. CASE how # "GetParameter"
    <3>1. PICK path : path = <<m>>
      OBVIOUS
    <3>2. DOMAIN path = {1} /\ path[1] = m
      BY <3>1
    <3>3. Settled(path)
      BY <2>1, <3>2 DEF Settled
    <3> QED
      BY <2>1, <2>3, <3>1, <3>3 DEF Path
  <2> QED
    BY <2>2, <2>3
<1> QED
  BY <1>1, <1>2

(* A lookup gives an answer from modules that are configured.              *)
LEMMA AnswerGiven ==
  ASSUME IsTree, StageInv, OutcomeInv, NEW how, NEW m \in Modules,
         NEW process \in Modules \cup {Null}, NEW param, NEW value,
         Looks(how, m, process, param, value),
         PlainNames /\ how \in {"GetParameter", "operator[]"}
           => Right(how, m, process, param, value)
  PROVE  AnswerInv'
<1>1. Settled(Path(how, m, process))
  BY LooksSettled
<1>2. /\ UNCHANGED <<parent, stage, SimulationParameters>>
      /\ answer' = [how |-> how, module |-> m, process |-> process,
                    param |-> param, value |-> value]
  BY DEF Looks
<1>3. /\ answer'.how = how /\ answer'.module = m /\ answer'.process = process
      /\ answer'.param = param /\ answer'.value = value
  BY <1>2
<1>4. Path(how, m, process)' = Path(how, m, process)
  BY <1>2 DEF Path, Ancestors
<1>5. Settled(Path(how, m, process))'
  BY <1>1, <1>2, <1>4 DEF Settled
<1>6. Right(how, m, process, param, value)
        => Right(how, m, process, param, value)'
  BY <1>2, <1>4 DEF Right, Own, LocalSearch
<1>7. Path(answer.how, answer.module, answer.process)' = Path(how, m, process)'
  BY <1>3 DEF Path, Ancestors
<1>8. Settled(Path(answer.how, answer.module, answer.process))'
  BY <1>5, <1>7 DEF Settled
<1>9. Right(how, m, process, param, value)'
        => Right(answer.how, answer.module, answer.process, answer.param,
                 answer.value)'
  BY <1>3, <1>7 DEF Right, Own, LocalSearch
<1> QED
  BY <1>3, <1>6, <1>8, <1>9 DEF AnswerInv, PlainNames

(* A module's own value is a JSON value or null, no end of the process.    *)
LEMMA OwnTypes ==
  ASSUME LoadInv, NEW q \in Modules, NEW param
  PROVE  Own(q, param).type \in ValueTypes
<1>1. PICK files \in Configurations \cup {Null} : SimulationParameters[q] = Load(files)
  BY DEF LoadInv
<1> QED
  BY <1>1, LoadFacts DEF Own

(* Each kind of lookup gives a right answer.                               *)
LEMMA AnswerInvLookup ==
  ASSUME TreeInv, NEW m \in Modules,
         NEW process \in Modules \cup {Null}, NEW param,
         \/ Lookup(m, process, param)
         \/ \E position \in 0 .. 2 : LookupAt(m, process, param, position)
  PROVE  AnswerInv'
<1>0. IsTree /\ StageInv /\ OutcomeInv /\ LoadInv
  BY DEF TreeInv
<1>1. \A q \in Modules : Own(q, param).type \in ValueTypes
  BY <1>0, OwnTypes
<1>2. CASE Looks("GetParameter", m, process, param, GetParameter(m, param))
  <2>1. PlainNames => Right("GetParameter", m, process, param, GetParameter(m, param))
    BY <1>0, <1>1, GetParameterIsRight
  <2> QED
    BY <1>0, <1>2, <2>1, AnswerGiven
<1>3. CASE Looks("operator[]", m, process, param, HeirarchalSearch(m, param, process))
  <2>1. PlainNames
          => Right("operator[]", m, process, param, HeirarchalSearch(m, param, process))
    BY <1>0, <1>1, HeirarchalSearchIsRight
  <2> QED
    BY <1>0, <1>3, <2>1, AnswerGiven
<1>4. CASE \E position \in 0 .. 2 : LookupAt(m, process, param, position)
  <2>1. PICK value : Looks("operator[][]", m, process, param, value)
    BY <1>4 DEF LookupAt
  <2>2. "operator[][]" \notin {"GetParameter", "operator[]"}
    OBVIOUS
  <2> QED
    BY <1>0, <2>1, <2>2, AnswerGiven
<1> QED
  BY <1>2, <1>3, <1>4 DEF Lookup

-----------------------------------------------------------------------------
(* Every step keeps the invariant. *)

(* No module is constructed yet.                                           *)
LEMMA TreeInvInit ==
  ASSUME Init PROVE TreeInv /\ AnswerInv
<1>1. StageInv
  BY DEF Init, StageInv
<1>2. LoadInv
  <2>1. Load(Null) = NullJson /\ Null \in Configurations \cup {Null}
    BY DEF Load
  <2> QED
    BY <2>1 DEF Init, LoadInv
<1>3. RegisterInv
  <2>1. \A m \in Modules : stage[m] # "done"
    BY DEF Init
  <2> QED
    BY <2>1 DEF Init, RegisterInv
<1>4. ObserverInv /\ OutcomeInv
  BY DEF Init, StartInit, ObserverInv, OutcomeInv
<1> QED
  BY <1>1, <1>2, <1>3, <1>4 DEF Init, TreeInv, AnswerInv

(* A constructor of the base class keeps the invariant.                    *)
LEMMA ConstructInv ==
  ASSUME TreeInv, AnswerInv, NEW m \in Modules, NEW files \in Configurations,
         Construct(m, files)
  PROVE  TreeInv' /\ AnswerInv'
<1>0. IsTree /\ StageInv /\ LoadInv /\ RegisterInv /\ ObserverInv /\ OutcomeInv
  BY DEF TreeInv
<1>1. /\ outcome = "elaborating" /\ stage[m] = "none"
      /\ m # Top => stage[parent[m]] = "children"
      /\ configuration' = [configuration EXCEPT ![m] = files]
      /\ SimulationParameters' = [SimulationParameters EXCEPT ![m] = Load(files)]
      /\ stage' = [stage EXCEPT ![m] = "children"]
      /\ outcome' \in {"failure", "elaborating"}
      /\ UNCHANGED <<parent, name, childModules, observers, answer>>
  BY DEF Construct
<1>2. IsTree'
  BY <1>0, <1>1 DEF IsTree
<1>3. /\ \A q \in Modules : stage'[q] = IF q = m THEN "children" ELSE stage[q]
      /\ stage' \in [Modules -> {"none", "children", "done"}]
  BY <1>0, <1>1 DEF StageInv
<1>4. StageInv'
  <2>1. ASSUME NEW q \in Modules \ {Top}, stage'[q] # "none"
        PROVE  stage'[parent[q]] # "none"
    <3>1. parent[q] \in Modules
      BY <1>0 DEF IsTree
    <3> QED
      BY <1>0, <1>1, <1>3, <2>1, <3>1 DEF StageInv
  <2>2. ASSUME NEW q \in Modules, stage'[q] = "done", NEW c \in Children(q)
        PROVE  stage'[c] = "done"
    <3>1. stage[q] = "done" /\ stage[c] = "done" /\ c \in Modules
      BY <1>0, <1>3, <2>2 DEF StageInv, Children
    <3> QED
      BY <1>1, <1>3, <3>1
  <2> QED
    BY <1>1, <1>3, <2>1, <2>2 DEF StageInv, Children
<1>5. LoadInv'
  BY <1>0, <1>1 DEF LoadInv
<1>6. RegisterInv'
  <2>1. \A q \in Modules : RegisteredChildren(q)' = RegisteredChildren(q)
    BY <1>1 DEF RegisteredChildren, Children
  <2>2. \A q \in Modules : stage'[q] = "done" <=> stage[q] = "done"
    BY <1>1, <1>3
  <2>3. [q \in Modules |->
          IF stage[q] = "done" THEN RegisteredChildren(q) ELSE <<>>]'
          = [q \in Modules |->
              IF stage[q] = "done" THEN RegisteredChildren(q) ELSE <<>>]
    <3> HIDE DEF RegisteredChildren
    <3> QED
      BY <2>1, <2>2
  <2> QED
    BY <1>0, <1>1, <2>3 DEF RegisterInv
<1>7. ObserverInv'
  <2>1. Top \in Modules /\ (stage[Top] = "done" => stage'[Top] = "done")
    BY <1>1, <1>3, TreeAssumption
  <2> QED
    BY <1>0, <1>1, <2>1 DEF ObserverInv
<1>8. OutcomeInv'
  BY <1>1 DEF OutcomeInv
<1>9. AnswerInv'
  <2>1. \A q \in Modules : stage[q] # "none" =>
          stage'[q] # "none" /\ SimulationParameters'[q] = SimulationParameters[q]
    BY <1>0, <1>1, <1>3 DEF LoadInv
  <2> QED
    BY <1>0, <1>1, <2>1, AnswerStays
<1> QED
  BY <1>2, <1>4, <1>5, <1>6, <1>7, <1>8, <1>9 DEF TreeInv

(* Registering the children keeps it.                                      *)
LEMMA AddChildModulesInv ==
  ASSUME TreeInv, AnswerInv, NEW m \in Modules, AddChildModules(m)
  PROVE  TreeInv' /\ AnswerInv'
<1>0. IsTree /\ StageInv /\ LoadInv /\ RegisterInv /\ ObserverInv /\ OutcomeInv
  BY DEF TreeInv
<1>1. /\ outcome = "elaborating" /\ stage[m] = "children"
      /\ \A c \in Children(m) : stage[c] = "done"
      /\ stage' = [stage EXCEPT ![m] = "done"]
      /\ childModules' = [childModules EXCEPT ![m] = RegisteredChildren(m)]
      /\ UNCHANGED <<outcome, parent, name, configuration, SimulationParameters,
                     observers, answer>>
  BY DEF AddChildModules, RegisteredChildren, startVars
<1>2. IsTree'
  BY <1>0, <1>1 DEF IsTree
<1>3. /\ \A q \in Modules : stage'[q] = IF q = m THEN "done" ELSE stage[q]
      /\ stage' \in [Modules -> {"none", "children", "done"}]
  BY <1>0, <1>1 DEF StageInv
<1>4. StageInv'
  <2>1. ASSUME NEW q \in Modules \ {Top}, stage'[q] # "none"
        PROVE  stage'[parent[q]] # "none"
    <3>1. parent[q] \in Modules
      BY <1>0 DEF IsTree
    <3> QED
      BY <1>0, <1>1, <1>3, <2>1, <3>1 DEF StageInv
  <2>2. ASSUME NEW q \in Modules, stage'[q] = "done", NEW c \in Children(q)
        PROVE  stage'[c] = "done"
    <3>1. c \in Modules /\ stage[c] = "done"
      BY <1>0, <1>1, <1>3, <2>2 DEF StageInv, Children
    <3> QED
      BY <1>3, <3>1
  <2> QED
    BY <1>1, <1>3, <2>1, <2>2 DEF StageInv, Children
<1>5. LoadInv'
  BY <1>0, <1>1 DEF LoadInv
<1>6. RegisterInv'
  <2> DEFINE Registered(q) == IF stage[q] = "done" THEN RegisteredChildren(q) ELSE <<>>
  <2>1. \A q \in Modules : RegisteredChildren(q)' = RegisteredChildren(q)
    BY <1>1 DEF RegisteredChildren, Children
  <2>2. childModules = [q \in Modules |-> Registered(q)]
    BY <1>0 DEF RegisterInv
  <2>3. childModules' = [q \in Modules |->
                          IF q = m THEN RegisteredChildren(m) ELSE Registered(q)]
    <3> HIDE DEF Registered
    <3> QED
      BY <1>1, <2>2
  <2>4. \A q \in Modules :
          (IF q = m THEN RegisteredChildren(m) ELSE Registered(q))
            = IF stage'[q] = "done" THEN RegisteredChildren(q)' ELSE <<>>
    BY <1>3, <2>1
  <2> HIDE DEF Registered
  <2>5. childModules' = [q \in Modules |->
                          IF stage'[q] = "done" THEN RegisteredChildren(q)' ELSE <<>>]
    BY <2>3, <2>4
  <2> QED
    BY <2>5 DEF RegisterInv
<1>7. ObserverInv'
  <2>1. Top \in Modules /\ (stage[Top] = "done" => stage'[Top] = "done")
    BY <1>3, TreeAssumption
  <2> QED
    BY <1>0, <1>1, <2>1 DEF ObserverInv
<1>8. OutcomeInv'
  BY <1>1 DEF OutcomeInv
<1>9. AnswerInv'
  <2>1. \A q \in Modules : stage[q] # "none" =>
          stage'[q] # "none" /\ SimulationParameters'[q] = SimulationParameters[q]
    BY <1>1, <1>3
  <2> QED
    BY <1>0, <1>1, <2>1, AnswerStays
<1> QED
  BY <1>2, <1>4, <1>5, <1>6, <1>7, <1>8, <1>9 DEF TreeInv

(* Steps that leave the tree as it is.                                     *)
LEMMA TreeInvSame ==
  ASSUME TreeInv, UNCHANGED <<parent, name, stage, configuration,
                              SimulationParameters, childModules, observers>>,
         outcome' \in {"parsing", "usage", "user_error", "undefined",
                       "elaborating", "failure", "exit", "unhandled"}
           \/ outcome' = outcome
  PROVE  TreeInv'
<1>0. IsTree /\ StageInv /\ LoadInv /\ RegisterInv /\ ObserverInv /\ OutcomeInv
  BY DEF TreeInv
<1>1. IsTree'
  BY <1>0 DEF IsTree
<1>2. StageInv'
  BY <1>0 DEF StageInv, Children
<1>3. LoadInv'
  BY <1>0 DEF LoadInv
<1>4. RegisterInv'
  BY <1>0 DEF RegisterInv, RegisteredChildren, Children
<1>5. ObserverInv'
  BY <1>0 DEF ObserverInv, OutcomeInv
<1>6. OutcomeInv'
  BY <1>0 DEF OutcomeInv
<1> QED
  BY <1>1, <1>2, <1>3, <1>4, <1>5, <1>6 DEF TreeInv

(* Steps outside the tree leave the answer right.                          *)
LEMMA AnswerSame ==
  ASSUME TreeInv, AnswerInv, UNCHANGED treeVars PROVE AnswerInv'
<1>1. /\ IsTree /\ UNCHANGED <<parent, answer>>
      /\ \A q \in Modules : stage[q] # "none" =>
           stage'[q] # "none" /\ SimulationParameters'[q] = SimulationParameters[q]
  BY DEF TreeInv, treeVars
<1> QED
  BY <1>1, AnswerStays

(* A lookup changes its answer, and at most ends the process.              *)
LEMMA LookupChanges ==
  ASSUME TreeInv, NEW m \in Modules, NEW process \in Modules \cup {Null}, NEW param,
         \/ Lookup(m, process, param)
         \/ \E position \in 0 .. 2 : LookupAt(m, process, param, position)
  PROVE  /\ TreeInv' /\ UNCHANGED <<asked, optind, args, config>>
         /\ outcome \in {"elaborating", "running"} /\ outcome' # "parsing"
<1>1. PICK how, value : Looks(how, m, process, param, value)
  BY DEF Lookup, LookupAt
<1>2. /\ UNCHANGED <<asked, optind, args, config, parent, name, stage,
                     configuration, SimulationParameters, childModules, observers>>
      /\ outcome \in {"elaborating", "running"}
      /\ outcome' \in {"exit", "undefined", "unhandled"} \/ outcome' = outcome
  BY <1>1 DEF Looks
<1>3. TreeInv'
  BY <1>2, TreeInvSame
<1> QED
  BY <1>2, <1>3

(* How parse_args may end.                                                 *)
LEMMA StartOutcomes ==
  ASSUME StartNext
  PROVE  outcome' \in {"parsing", "usage", "user_error", "undefined", "elaborating"}
BY DEF StartNext, OnceOption, UserOption, UserOptionAlone, DebuggerOption,
       HelpOrBad, Unexpected, Configure, Reads, Goes, Ends

-----------------------------------------------------------------------------
(* The observer reaches every module. *)

RangeOf(s) == {s[i] : i \in DOMAIN s}

(* What is above a module: itself, and what is above its parent.           *)
LEMMA AncestorsRange ==
  ASSUME IsTree, NEW m \in Modules
  PROVE  RangeOf(Ancestors(m)) =
           IF m = Top THEN {m} ELSE {m} \cup RangeOf(Ancestors(parent[m]))
<1>1. CASE m = Top
  <2>1. PICK s : s = <<m>>
    OBVIOUS
  <2>2. DOMAIN s = {1} /\ s[1] = m
    BY <2>1
  <2>3. RangeOf(s) = {m}
    BY <2>2 DEF RangeOf
  <2> QED
    BY <1>1, <2>1, <2>3, AncestorsUp
<1>2. CASE m # Top
  <2>1. parent[m] \in Modules
    BY <1>2 DEF IsTree
  <2>2. PICK u \in Seq(Modules) : u = Ancestors(parent[m])
    BY <2>1, AncestorsUp
  <2>3. PICK s : s = <<m>> \o u
    OBVIOUS
  <2>4. Ancestors(m) = s
    BY <1>2, <2>2, <2>3, AncestorsUp
  <2>5. /\ s \in Seq(Modules) /\ Len(s) = Len(u) + 1 /\ s[1] = m
        /\ \A i \in 1 .. Len(u) : s[i + 1] = u[i]
        /\ Len(u) \in Nat /\ DOMAIN u = 1 .. Len(u)
    BY <2>3, InFront, LenProperties
  <2>6. DOMAIN s = 1 .. Len(s)
    BY <2>5, LenProperties
  <2>7. ASSUME NEW x \in RangeOf(s) PROVE x \in {m} \cup RangeOf(u)
    <3>1. PICK i \in DOMAIN s : x = s[i]
      BY <2>7 DEF RangeOf
    <3>2. i = 1 \/ (i - 1 \in 1 .. Len(u) /\ (i - 1) + 1 = i)
      BY <2>5, <2>6
    <3>3. i # 1 => x = u[i - 1] /\ i - 1 \in DOMAIN u
      BY <2>5, <3>1, <3>2
    <3> QED
      BY <2>5, <3>1, <3>3 DEF RangeOf
  <2>8. m \in RangeOf(s)
    <3>1. 1 \in DOMAIN s
      BY <2>5, <2>6
    <3> QED
      BY <2>5, <3>1 DEF RangeOf
  <2>9. ASSUME NEW x \in RangeOf(u) PROVE x \in RangeOf(s)
    <3>1. PICK i \in DOMAIN u : x = u[i]
      BY <2>9 DEF RangeOf
    <3>2. i + 1 \in DOMAIN s /\ s[i + 1] = x
      BY <2>5, <2>6, <3>1
    <3> QED
      BY <3>2 DEF RangeOf
  <2>10. RangeOf(s) = {m} \cup RangeOf(u)
    BY <2>7, <2>8, <2>9
  <2> QED
    BY <1>2, <2>2, <2>4, <2>10
<1> QED
  BY <1>1, <1>2

(* Above a module are itself and the parents of what is above it.          *)
LEMMA AboveByChildren ==
  ASSUME IsTree, NEW d \in Modules, NEW q \in Modules
  PROVE  q \in RangeOf(Ancestors(d))
           <=> d = q \/ \E c \in Children(q) : c \in RangeOf(Ancestors(d))
<1> DEFINE A(x) == RangeOf(Ancestors(x))
           P(x, y) == y \in A(x) <=> x = y \/ \E c \in Children(y) : c \in A(x)
           S == {x \in Modules : \A y \in Modules : P(x, y)}
<1>1. Top \in S
  <2>1. Top \in Modules /\ A(Top) = {Top}
    BY AncestorsRange, TreeAssumption
  <2>2. \A y \in Modules : Top \notin Children(y)
    BY TreeAssumption DEF Children, IsTree
  <2> HIDE DEF A
  <2> QED
    BY <2>1, <2>2
<1>2. ASSUME NEW x \in Modules \ {Top}, parent[x] \in S PROVE x \in S
  <2>1. A(x) = {x} \cup A(parent[x])
    BY AncestorsRange
  <2>2. \A y \in Modules : y \in A(parent[x])
          <=> parent[x] = y \/ \E c \in Children(y) : c \in A(parent[x])
    BY <1>2
  <2>3. \A y : x \in Children(y) <=> parent[x] = y
    BY DEF Children
  <2> HIDE DEF A
  <2>4. ASSUME NEW y \in Modules PROVE P(x, y)
    <3>1. y \in A(x) <=> y = x \/ parent[x] = y
                         \/ \E c \in Children(y) : c \in A(parent[x])
      BY <2>1, <2>2
    <3>2. (\E c \in Children(y) : c \in A(x))
            <=> parent[x] = y \/ \E c \in Children(y) : c \in A(parent[x])
      BY <2>1, <2>3
    <3> QED
      BY <3>1, <3>2
  <2> QED
    BY <2>4
<1>3. Modules \subseteq S
  <2> HIDE DEF S
  <2> QED
    BY <1>1, <1>2, TreeInduction
<1> HIDE DEF A
<1>4. P(d, q)
  BY <1>3
<1> QED
  BY <1>4 DEF A

(* attach_observer goes down childModules_ to every module.                *)
LEMMA AllReached ==
  ASSUME TreeInv, stage[Top] = "done"
  PROVE  Modules \subseteq Reached(Top)
<1>0. IsTree /\ StageInv /\ RegisterInv
  BY DEF TreeInv
<1>1. \A q \in Modules : childModules[q] = RegisteredChildren(q)
  <2>1. \A q \in Modules : stage[q] = "done"
    BY <1>0, AllDone
  <2> QED
    BY <1>0, <2>1 DEF RegisterInv
<1>2. ASSUME NEW q \in Modules
      PROVE  {childModules[q][n] : n \in DOMAIN childModules[q]} = Children(q)
  <2>1. PICK r : r = RegisteredChildren(q)
    OBVIOUS
  <2>2. childModules[q] = r
    BY <1>1, <2>1
  <2>3. /\ r \in [{name[c] : c \in Children(q)} -> Children(q)]
        /\ \A c \in Children(q) : r[name[c]] = c
    BY <1>0, <2>1, ChildFacts
  <2>4. {r[n] : n \in DOMAIN r} = Children(q)
    BY <2>3
  <2> QED
    BY <2>2, <2>4
<1> DEFINE Below(f, q) == {q} \cup UNION {f[childModules[q][n]] :
                                            n \in DOMAIN childModules[q]}
           Is(f) == f = [q \in Modules |-> Below(f, q)]
           below == CHOOSE f : Is(f)
<1>3. \A f : \A q \in Modules : Below(f, q) = {q} \cup UNION {f[c] : c \in Children(q)}
  BY <1>2
<1>4. \E f : Is(f)
  <2> DEFINE f == [q \in Modules |-> {d \in Modules : q \in RangeOf(Ancestors(d))}]
  <2>1. \A q \in Modules : f[q] = {d \in Modules : q \in RangeOf(Ancestors(d))}
    OBVIOUS
  <2>2. f = [q \in Modules |-> f[q]]
    OBVIOUS
  <2> HIDE DEF f, Below
  <2>3. ASSUME NEW q \in Modules PROVE f[q] = Below(f, q)
    <3>1. \A c \in Children(q) : c \in Modules
      BY DEF Children
    <3>2. f[q] = {q} \cup UNION {f[c] : c \in Children(q)}
      <4>1. ASSUME NEW d \in f[q] PROVE d \in {q} \cup UNION {f[c] : c \in Children(q)}
        <5>1. d \in Modules /\ q \in RangeOf(Ancestors(d))
          BY <2>1, <4>1
        <5>2. d = q \/ \E c \in Children(q) : c \in RangeOf(Ancestors(d))
          BY <1>0, <5>1, AboveByChildren
        <5> QED
          BY <2>1, <3>1, <5>1, <5>2
      <4>2. q \in f[q]
        <5>1. q \in RangeOf(Ancestors(q))
          BY <1>0, AncestorsRange
        <5> QED
          BY <2>1, <5>1
      <4>3. ASSUME NEW c \in Children(q), NEW d \in f[c] PROVE d \in f[q]
        <5>1. d \in Modules /\ c \in RangeOf(Ancestors(d))
          BY <2>1, <3>1, <4>3
        <5>2. q \in RangeOf(Ancestors(d))
          BY <1>0, <5>1, AboveByChildren
        <5> QED
          BY <2>1, <5>1, <5>2
      <4> QED
        BY <4>1, <4>2, <4>3
    <3> QED
      BY <1>3, <3>2
  <2>4. Is(f)
    BY <2>2, <2>3
  <2> QED
    BY <2>4
<1>5. Is(below)
  <2> HIDE DEF Is
  <2> QED
    BY <1>4
<1>6. Reached(Top) = below[Top]
  BY DEF Reached
<1> HIDE DEF below
<1>7. \A q \in Modules : below[q] = {q} \cup UNION {below[c] : c \in Children(q)}
  <2>1. \A q \in Modules : below[q] = Below(below, q)
    <3> HIDE DEF Below
    <3> QED
      BY <1>5
  <2> HIDE DEF Below
  <2> QED
    BY <1>3, <2>1
<1> DEFINE S == {d \in Modules : below[d] \subseteq below[Top]}
<1>8. Top \in S
  BY TreeAssumption
<1>9. ASSUME NEW d \in Modules \ {Top}, parent[d] \in S PROVE d \in S
  <2>1. d \in Children(parent[d])
    BY DEF Children
  <2>2. below[d] \subseteq below[parent[d]]
    BY <1>7, <1>9, <2>1
  <2> QED
    BY <1>9, <2>2
<1>10. Modules \subseteq S
  <2> HIDE DEF S
  <2> QED
    BY <1>0, <1>8, <1>9, TreeInduction
<1>11. ASSUME NEW d \in Modules PROVE d \in below[Top]
  <2>1. d \in below[d]
    BY <1>7
  <2> QED
    BY <1>10, <2>1
<1> QED
  BY <1>6, <1>11

(* Attaching the observer keeps the invariant.                             *)
LEMMA AttachInv ==
  ASSUME TreeInv, AnswerInv, attach_observer
  PROVE  TreeInv' /\ AnswerInv'
<1>0. IsTree /\ StageInv /\ LoadInv /\ RegisterInv /\ ObserverInv /\ OutcomeInv
  BY DEF TreeInv
<1>1. /\ outcome = "elaborating" /\ stage[Top] = "done" /\ observers[Top] = <<>>
      /\ observers' = [m \in Modules |->
           IF m \in Reached(Top) THEN Append(observers[m], Observer)
           ELSE observers[m]]
      /\ outcome' = "running"
      /\ UNCHANGED <<asked, optind, args, config, parent, name, stage,
                     configuration, SimulationParameters, childModules, answer>>
  BY DEF attach_observer
<1>2. Modules \subseteq Reached(Top)
  BY <1>1, AllReached
<1>3. observers = [m \in Modules |-> <<>>]
  <2>1. <<Observer>> # <<>> /\ Top \in Modules
    BY TreeAssumption
  <2> QED
    BY <1>0, <1>1, <2>1 DEF ObserverInv
<1>4. observers' = [m \in Modules |-> <<Observer>>]
  <2>1. Append(<<>>, Observer) = <<Observer>>
    OBVIOUS
  <2>2. \A m \in Modules :
          (IF m \in Reached(Top) THEN Append(observers[m], Observer)
           ELSE observers[m]) = <<Observer>>
    BY <1>2, <1>3, <2>1
  <2> QED
    BY <1>1, <2>2
<1>5. IsTree'
  BY <1>0, <1>1 DEF IsTree
<1>6. StageInv'
  BY <1>0, <1>1 DEF StageInv, Children
<1>7. LoadInv'
  BY <1>0, <1>1 DEF LoadInv
<1>8. RegisterInv'
  BY <1>0, <1>1 DEF RegisterInv, RegisteredChildren, Children
<1>9. ObserverInv' /\ OutcomeInv'
  BY <1>1, <1>4 DEF ObserverInv, OutcomeInv
<1>10. AnswerInv'
  BY <1>0, <1>1, AnswerStays
<1> QED
  BY <1>5, <1>6, <1>7, <1>8, <1>9, <1>10 DEF TreeInv

-----------------------------------------------------------------------------
(* Names are told apart. *)

(* A module's hierarchy is its name before that of its parent.             *)
LEMMA HierarchyUp ==
  ASSUME PlainNames, IsTree, name \in [Modules -> Names \cup {"top"}],
         NEW m \in Modules
  PROVE  /\ ModuleHierarchy(m) \in Seq(Names \cup {"top"})
         /\ Len(ModuleHierarchy(m)) \in Nat \ {0}
         /\ ModuleHierarchy(m) =
              IF m = Top THEN <<"top">>
              ELSE <<name[m]>> \o ModuleHierarchy(parent[m])
<1> DEFINE A == Names \cup {"top"}
           Next1(f, q) == IF name[q] \in WithTop THEN <<name[q]>>
                          ELSE <<name[q]>> \o f[parent[q]]
           Is(f) == f = [q \in Modules |-> Next1(f, q)]
           h == CHOOSE f : Is(f)
<1>0. \A q \in Modules : /\ name[q] \in WithTop <=> q = Top
                         /\ q # Top => parent[q] \in Modules
                         /\ name[q] \in A
  BY TopByName DEF IsTree
<1>1. \E f : Is(f)
  <2>1. PICK stop : stop = {Top} /\ Top \in stop
    OBVIOUS
  <2>2. PICK f : /\ f = [q \in Modules |-> f[q]]
                 /\ \A q \in Modules :
                      f[q] = IF q \in stop THEN <<name[q]>>
                             ELSE <<name[q]>> \o f[parent[q]]
    <3> HIDE DEF Next1, Is, A
    <3>1. name \in [Modules -> A]
      BY DEF A
    <3> QED
      BY <2>1, <3>1, UpwardList
  <2>3. \A q \in Modules : f[q] = Next1(f, q)
    BY <1>0, <2>1, <2>2
  <2> HIDE DEF Next1
  <2> QED
    BY <2>2, <2>3
<1>2. Is(h)
  <2> HIDE DEF Is
  <2> QED
    BY <1>1
<1>3. \A q \in Modules : ModuleHierarchy(q) = h[q]
  BY DEF ModuleHierarchy
<1> HIDE DEF h
<1>4. \A q \in Modules : h[q] = IF q = Top THEN <<"top">>
                                ELSE <<name[q]>> \o h[parent[q]]
  <2>1. \A q \in Modules : h[q] = Next1(h, q)
    <3> HIDE DEF Next1
    <3> QED
      BY <1>2
  <2>2. name[Top] = "top"
    BY DEF IsTree
  <2> QED
    BY <1>0, <2>1, <2>2
<1> DEFINE S == {q \in Modules : h[q] \in Seq(A) /\ Len(h[q]) \in Nat \ {0}}
<1>5. Top \in S
  <2>1. h[Top] = <<"top">> /\ Top \in Modules
    BY <1>4, TreeAssumption
  <2>2. PICK t : t = "top"
    OBVIOUS
  <2>3. t \in A
    BY <2>2
  <2> HIDE DEF A
  <2>4. <<t>> \in Seq(A) /\ Len(<<t>>) \in Nat \ {0}
    BY <2>3
  <2>5. h[Top] = <<t>>
    BY <2>1, <2>2
  <2> QED
    BY <2>1, <2>4, <2>5
<1>6. ASSUME NEW q \in Modules \ {Top}, parent[q] \in S PROVE q \in S
  <2> DEFINE p == h[parent[q]]
  <2>1. h[q] = <<name[q]>> \o p
    BY <1>4
  <2>2. p \in Seq(A) /\ Len(p) \in Nat \ {0} /\ name[q] \in A
    BY <1>0, <1>6
  <2> HIDE DEF p, A
  <2>3. <<name[q]>> \o p \in Seq(A) /\ Len(<<name[q]>> \o p) = Len(p) + 1
    BY <2>2, InFront
  <2>4. Len(h[q]) \in Nat \ {0}
    BY <2>1, <2>2, <2>3
  <2> QED
    BY <2>1, <2>3, <2>4
<1>7. Modules \subseteq S
  <2> HIDE DEF S
  <2> QED
    BY <1>5, <1>6, TreeInduction
<1> QED
  BY <1>0, <1>3, <1>4, <1>7

(* One hierarchy is of one module.                                         *)
LEMMA HierarchyTells ==
  ASSUME PlainNames, IsTree, name \in [Modules -> Names \cup {"top"}],
         NEW m \in Modules, NEW n \in Modules,
         ModuleHierarchy(m) = ModuleHierarchy(n)
  PROVE  m = n
<1> DEFINE H(q) == ModuleHierarchy(q)
           A == Names \cup {"top"}
           S == {q \in Modules : \A r \in Modules : H(q) = H(r) => q = r}
<1>1. ASSUME NEW q \in Modules
      PROVE  /\ H(q) \in Seq(A) /\ Len(H(q)) \in Nat \ {0}
             /\ H(q) = IF q = Top THEN <<"top">> ELSE <<name[q]>> \o H(parent[q])
  BY HierarchyUp
<1>2. ASSUME NEW q \in Modules \ {Top}
      PROVE  /\ parent[q] \in Modules
             /\ Len(H(q)) = Len(H(parent[q])) + 1 /\ H(q)[1] = name[q]
             /\ \A i \in 1 .. Len(H(parent[q])) : H(q)[i + 1] = H(parent[q])[i]
             /\ Len(H(q)) # 1
  <2>1. parent[q] \in Modules /\ name[q] \in A
    BY DEF IsTree
  <2>2. PICK p : p = H(parent[q])
    OBVIOUS
  <2>3. p \in Seq(A) /\ Len(p) \in Nat \ {0} /\ H(q) = <<name[q]>> \o p
    BY <1>1, <2>1, <2>2
  <2>4. /\ Len(<<name[q]>> \o p) = Len(p) + 1 /\ (<<name[q]>> \o p)[1] = name[q]
        /\ \A i \in 1 .. Len(p) : (<<name[q]>> \o p)[i + 1] = p[i]
    <3> HIDE DEF A, H
    <3> QED
      BY <2>1, <2>3, InFront
  <2> HIDE DEF H
  <2> QED
    BY <2>1, <2>2, <2>3, <2>4
<1>3. Top \in Modules /\ Len(H(Top)) = 1
  <2>1. Top \in Modules /\ H(Top) = <<"top">>
    BY <1>1, TreeAssumption
  <2>2. \A t : Len(<<t>>) = 1
    OBVIOUS
  <2> QED
    BY <2>1, <2>2
<1> HIDE DEF H, A
<1>4. Top \in S
  BY <1>2, <1>3
<1>5. ASSUME NEW q \in Modules \ {Top}, parent[q] \in S,
             NEW r \in Modules, H(q) = H(r)
      PROVE  q = r
  <2>1. r # Top
    BY <1>2, <1>3, <1>5
  <2>2. name[q] = name[r] /\ parent[q] \in Modules /\ parent[r] \in Modules
    BY <1>2, <1>5, <2>1
  <2>3. PICK u \in Seq(A) : u = H(parent[q]) /\ Len(u) \in Nat
    BY <1>1, <2>2
  <2>4. PICK v \in Seq(A) : v = H(parent[r]) /\ Len(v) \in Nat
    BY <1>1, <2>2
  <2>5. /\ Len(H(q)) = Len(u) + 1 /\ \A i \in 1 .. Len(u) : H(q)[i + 1] = u[i]
        /\ Len(H(r)) = Len(v) + 1 /\ \A i \in 1 .. Len(v) : H(r)[i + 1] = v[i]
    BY <1>2, <2>1, <2>3, <2>4
  <2>6. Len(u) = Len(v)
    BY <1>5, <2>3, <2>4, <2>5
  <2>7. \A i \in 1 .. Len(u) : u[i] = v[i]
    BY <1>5, <2>5, <2>6
  <2>8. u = v
    BY <2>3, <2>4, <2>6, <2>7, SeqEqual
  <2>9. parent[q] = parent[r]
    BY <1>5, <2>2, <2>3, <2>4, <2>8
  <2> QED
    BY <2>1, <2>2, <2>9 DEF IsTree
<1>6. Modules \subseteq S
  <2>1. \A q \in Modules \ {Top} : parent[q] \in S => q \in S
    BY <1>5
  <2> HIDE DEF S
  <2> QED
    BY <1>4, <2>1, TreeInduction
<1> QED
  BY <1>6 DEF H

(* It ends with the top, which is left out of full names.                  *)
LEMMA HierarchyEnds ==
  ASSUME PlainNames, IsTree, name \in [Modules -> Names \cup {"top"}],
         NEW m \in Modules
  PROVE  ModuleHierarchy(m)[Len(ModuleHierarchy(m))] = "top"
<1> DEFINE H(q) == ModuleHierarchy(q)
           A == Names \cup {"top"}
           S == {q \in Modules : H(q)[Len(H(q))] = "top"}
<1>1. ASSUME NEW q \in Modules
      PROVE  /\ H(q) \in Seq(A) /\ Len(H(q)) \in Nat \ {0}
             /\ H(q) = IF q = Top THEN <<"top">> ELSE <<name[q]>> \o H(parent[q])
  BY HierarchyUp
<1>2. Top \in S
  <2>1. Top \in Modules /\ H(Top) = <<"top">>
    BY <1>1, TreeAssumption
  <2>2. \A x : Len(<<x>>) = 1 /\ <<x>>[1] = x
    OBVIOUS
  <2> HIDE DEF H
  <2>3. H(Top)[Len(H(Top))] = "top"
    BY <2>1, <2>2
  <2> QED
    BY <2>1, <2>3
<1>3. ASSUME NEW q \in Modules \ {Top}, parent[q] \in S PROVE q \in S
  <2>1. parent[q] \in Modules /\ name[q] \in A
    BY DEF IsTree
  <2>2. PICK p : p = H(parent[q])
    OBVIOUS
  <2>3. p \in Seq(A) /\ Len(p) \in Nat \ {0} /\ H(q) = <<name[q]>> \o p
    BY <1>1, <2>1, <2>2
  <2>4. PICK s : s = <<name[q]>> \o p
    OBVIOUS
  <2> HIDE DEF A, H
  <2>5. Len(s) = Len(p) + 1 /\ \A i \in 1 .. Len(p) : s[i + 1] = p[i]
    BY <2>1, <2>3, <2>4, InFront
  <2>6. s[Len(s)] = p[Len(p)]
    BY <2>3, <2>5
  <2> QED
    BY <1>3, <2>2, <2>3, <2>4, <2>6
<1>4. Modules \subseteq S
  <2> HIDE DEF S
  <2> QED
    BY <1>2, <1>3, TreeInduction
<1> QED
  BY <1>4

(* What is left when the last element is turned to the front and dropped.  *)
LEMMA TailOfReverse ==
  ASSUME NEW A, NEW s \in Seq(A), Len(s) \in Nat \ {0}
  PROVE  /\ Len(Tail(Reverse(s))) = Len(s) - 1
         /\ \A i \in 1 .. Len(s) - 1 : Tail(Reverse(s))[i] = s[Len(s) - i]
<1>1. PICK n \in Nat \ {0} : n = Len(s)
  OBVIOUS
<1>2. PICK r : r = [i \in 1 .. n |-> s[(n - i) + 1]]
  OBVIOUS
<1>3. Reverse(s) = r
  BY <1>1, <1>2 DEF Reverse
<1>4. /\ r \in Seq(A) /\ Len(r) = n /\ r # <<>>
      /\ \A i \in 1 .. n : r[i] = s[(n - i) + 1]
  <2>1. \A i \in 1 .. n : s[i] \in A
    BY <1>1, ElementOfSeq
  <2>2. \A i \in 1 .. n : (n - i) + 1 \in 1 .. n
    BY <1>1
  <2>3. r \in [1 .. n -> A]
    BY <1>2, <2>1, <2>2
  <2>4. r \in Seq(A) /\ Len(r) = n
    BY <2>3, IsASeq
  <2>5. r # <<>>
    BY <2>4, <1>1, EmptySeq
  <2> QED
    BY <1>2, <2>4, <2>5
<1>5. PICK t : t = Tail(r)
  OBVIOUS
<1>6. t \in Seq(A) /\ Len(t) = n - 1 /\ \A i \in 1 .. Len(t) : t[i] = r[i + 1]
  BY <1>4, <1>5, HeadTailProperties
<1>7. ASSUME NEW i \in 1 .. n - 1 PROVE t[i] = s[n - i]
  <2>1. i \in 1 .. Len(t) /\ i + 1 \in 1 .. n /\ (n - (i + 1)) + 1 = n - i
    BY <1>6
  <2> QED
    BY <1>4, <1>6, <2>1
<1> QED
  BY <1>1, <1>3, <1>5, <1>6, <1>7

(* One full name is of one module.                                         *)
LEMMA NamesTell ==
  ASSUME PlainNames, IsTree, name \in [Modules -> Names \cup {"top"}],
         NEW m \in Modules, NEW n \in Modules,
         fully_qualified_module_name(m) = fully_qualified_module_name(n)
  PROVE  m = n
<1> DEFINE A == Names \cup {"top"}
<1>1. PICK s \in Seq(A) : s = ModuleHierarchy(m) /\ Len(s) \in Nat \ {0}
  BY HierarchyUp
<1>2. PICK r \in Seq(A) : r = ModuleHierarchy(n) /\ Len(r) \in Nat \ {0}
  BY HierarchyUp
<1> HIDE DEF A
<1>3. PICK t : t = Tail(Reverse(s)) /\ t = Tail(Reverse(r))
  BY <1>1, <1>2 DEF fully_qualified_module_name
<1>4. /\ Len(t) = Len(s) - 1 /\ \A i \in 1 .. Len(s) - 1 : t[i] = s[Len(s) - i]
      /\ Len(t) = Len(r) - 1 /\ \A i \in 1 .. Len(r) - 1 : t[i] = r[Len(r) - i]
  BY <1>1, <1>2, <1>3, TailOfReverse
<1>5. PICK k \in Nat \ {0} : k = Len(s) /\ k = Len(r)
  BY <1>1, <1>2, <1>4
<1>6. s[k] = r[k]
  <2>1. s[Len(s)] = "top"
    BY <1>1, HierarchyEnds
  <2>2. r[Len(r)] = "top"
    BY <1>2, HierarchyEnds
  <2> QED
    BY <1>5, <2>1, <2>2
<1>7. ASSUME NEW i \in 1 .. k PROVE s[i] = r[i]
  <2>1. CASE i = k
    BY <1>6, <2>1
  <2>2. CASE i # k
    <3>1. k - i \in 1 .. k - 1 /\ k - (k - i) = i
      BY <2>2
    <3>2. t[k - i] = s[k - (k - i)] /\ t[k - i] = r[k - (k - i)]
      BY <1>4, <1>5, <3>1
    <3> QED
      BY <3>1, <3>2
  <2> QED
    BY <2>1, <2>2
<1>8. s = r
  BY <1>5, <1>7, SeqEqual
<1> QED
  BY <1>1, <1>2, <1>8, HierarchyTells

-----------------------------------------------------------------------------
(* The invariant of the program. *)

NameInv == name \in [Modules -> Names \cup {"top"}]

(* The parts depend on each other: processes look up when the tree is      *)
(* built, and the tree is built when the command line is read.             *)
IInv == StartInv /\ TakenInv /\ TreeInv /\ AnswerInv /\ NameInv

(* It holds when the program starts.                                       *)
LEMMA IInvInit ==
  ASSUME Init PROVE IInv
<1>1. StartInit /\ NameInv
  BY DEF Init, NameInv
<1>2. StartInv /\ TakenInv
  BY <1>1, StartInvInit, TakenInvInit
<1>3. TreeInv /\ AnswerInv
  BY TreeInvInit
<1> QED
  BY <1>1, <1>2, <1>3 DEF IInv

(* Every step keeps it.                                                    *)
LEMMA IInvStep ==
  ASSUME IInv, [Next]_vars PROVE IInv'
<1>0. StartInv /\ TakenInv /\ TreeInv /\ AnswerInv /\ NameInv
  BY DEF IInv
<1> DEFINE Kept == TreeInv' /\ AnswerInv'
           Begun == StartInv' /\ TakenInv'
<1>1. ASSUME outcome \in {"elaborating", "running"}, outcome' # "parsing",
             UNCHANGED <<asked, optind, args, config>>
      PROVE  Begun
  <2>1. config # Null
    BY <1>0, <1>1 DEF StartInv
  <2> QED
    BY <1>0, <1>1, <2>1, TakenInvTree
<1>2. CASE StartNext /\ UNCHANGED treeVars
  <2>1. Begun
    BY <1>0, <1>2, StartInvStep, TakenInvStep
  <2>2. outcome' \in {"parsing", "usage", "user_error", "undefined", "elaborating"}
    BY <1>2, StartOutcomes
  <2>3. TreeInv'
    BY <1>0, <1>2, <2>2, TreeInvSame DEF treeVars
  <2>4. AnswerInv'
    BY <1>0, <1>2, AnswerSame
  <2>5. NameInv'
    BY <1>0, <1>2 DEF NameInv, treeVars
  <2> QED
    BY <2>1, <2>3, <2>4, <2>5 DEF IInv
<1>3. ASSUME NEW m \in Modules, NEW files \in Configurations, Construct(m, files)
      PROVE  IInv'
  <2>1. Kept
    BY <1>0, <1>3, ConstructInv
  <2>2. /\ outcome = "elaborating" /\ outcome' \in {"failure", "elaborating"}
        /\ UNCHANGED <<asked, optind, args, config, name>>
    BY <1>3 DEF Construct
  <2> QED
    BY <1>0, <1>1, <2>1, <2>2 DEF IInv, NameInv
<1>4. ASSUME NEW m \in Modules, AddChildModules(m) PROVE IInv'
  <2>1. Kept
    BY <1>0, <1>4, AddChildModulesInv
  <2>2. outcome = "elaborating" /\ UNCHANGED <<startVars, name>>
    BY <1>4 DEF AddChildModules
  <2> QED
    BY <1>0, <1>1, <2>1, <2>2 DEF IInv, NameInv, startVars
<1>5. CASE attach_observer
  <2>1. Kept
    BY <1>0, <1>5, AttachInv
  <2>2. /\ outcome = "elaborating" /\ outcome' = "running"
        /\ UNCHANGED <<asked, optind, args, config, name>>
    BY <1>5 DEF attach_observer
  <2> QED
    BY <1>0, <1>1, <2>1, <2>2 DEF IInv, NameInv
<1>6. ASSUME NEW m \in Modules, NEW process \in Modules \cup {Null},
             NEW param \in Params,
             \/ Lookup(m, process, param)
             \/ \E position \in 0 .. 2 : LookupAt(m, process, param, position)
      PROVE  IInv'
  <2>1. /\ TreeInv' /\ UNCHANGED <<asked, optind, args, config>>
        /\ outcome \in {"elaborating", "running"} /\ outcome' # "parsing"
    BY <1>0, <1>6, LookupChanges
  <2>2. AnswerInv'
    BY <1>0, <1>6, AnswerInvLookup
  <2>3. UNCHANGED name
    BY <1>6 DEF Lookup, LookupAt, Looks
  <2> QED
    BY <1>0, <1>1, <2>1, <2>2, <2>3 DEF IInv, NameInv
<1>7. CASE UNCHANGED vars
  <2>1. UNCHANGED startVars /\ UNCHANGED treeVars
    BY <1>7 DEF vars
  <2>2. UNCHANGED <<asked, optind, args, config, outcome>>
    BY <2>1 DEF startVars
  <2>3. StartInv'
    BY <1>0, <2>2 DEF StartInv
  <2>4. TakenInv'
    <3>1. WellFormed' <=> WellFormed
      BY <2>2 DEF WellFormed, Given
    <3>2. ArgumentsTaken'
      BY <1>0, <2>2 DEF TakenInv, ArgumentsTaken, WellFormed, Given, Word,
                           Key, Value
    <3>3. ASSUME WellFormed, outcome = "parsing" PROVE Progress'
      <4>1. PICK p, k : /\ Beginnings(p, asked, argv, Words) /\ k \in 0 .. Len(asked)
                        /\ optind = Len(p[k]) + 1 /\ Upto(args, k)
        BY <1>0, <3>3 DEF TakenInv, Progress
      <4>2. Beginnings(p, asked, argv, Words)'
        BY <2>2, <4>1 DEF Beginnings, argv
      <4>3. Upto(args, k)'
        BY <2>2, <4>1 DEF Upto, OptionUpto, MapUpto, OptionAt, Key, Value
      <4> QED
        BY <2>2, <4>1, <4>2, <4>3 DEF Progress
    <3> QED
      BY <2>2, <3>1, <3>2, <3>3 DEF TakenInv
  <2>5. TreeInv'
    BY <1>0, <2>1, <2>2, TreeInvSame DEF treeVars
  <2>6. AnswerInv'
    BY <1>0, <2>1, AnswerSame
  <2>7. NameInv'
    BY <1>0, <2>1 DEF NameInv, treeVars
  <2> QED
    BY <2>3, <2>4, <2>5, <2>6, <2>7 DEF IInv
<1> QED
  BY <1>2, <1>3, <1>4, <1>5, <1>6, <1>7 DEF Next

-----------------------------------------------------------------------------
(* What the invariant shows. *)

(* The types.                                                              *)
LEMMA IInvTypeOK ==
  ASSUME IInv PROVE TypeOK
<1>0. /\ StartInv /\ IsTree /\ StageInv /\ LoadInv /\ RegisterInv
      /\ ObserverInv /\ OutcomeInv
  BY DEF IInv, TreeInv
<1>1. stage \in [Modules -> {"none", "children", "done"}]
  BY <1>0 DEF StageInv
<1>2. ASSUME NEW m \in Modules
      PROVE  SimulationParameters[m].type \in {"object", "null", "exit"}
  <2>1. PICK files \in Configurations \cup {Null} : SimulationParameters[m] = Load(files)
    BY <1>0 DEF LoadInv
  <2> QED
    BY <2>1, LoadFacts
<1>3. ASSUME NEW m \in Modules
      PROVE  childModules[m] \in [DOMAIN childModules[m] -> Modules]
  <2>1. CASE stage[m] = "done"
    <3>1. PICK r : r = RegisteredChildren(m)
      OBVIOUS
    <3>2. r \in [{name[c] : c \in Children(m)} -> Children(m)]
      BY <1>0, <3>1, ChildFacts
    <3>3. childModules[m] = r
      BY <1>0, <2>1, <3>1 DEF RegisterInv
    <3>4. Children(m) \subseteq Modules
      BY DEF Children
    <3>5. r \in [DOMAIN r -> Modules]
      BY <3>2, <3>4
    <3> QED
      BY <3>3, <3>5
  <2>2. CASE stage[m] # "done"
    <3>1. childModules[m] = <<>>
      BY <1>0, <2>2 DEF RegisterInv
    <3>2. <<>> \in [DOMAIN <<>> -> Modules]
      OBVIOUS
    <3> QED
      BY <3>1, <3>2
  <2> QED
    BY <2>1, <2>2
<1>4. ASSUME NEW m \in Modules PROVE observers[m] \in Seq({Observer})
  <2>1. <<>> \in Seq({Observer}) /\ <<Observer>> \in Seq({Observer})
    OBVIOUS
  <2>2. observers[m] \in {<<>>, <<Observer>>}
    BY <1>0 DEF ObserverInv
  <2> QED
    BY <2>1, <2>2
<1>5. config = Null => outcome \notin {"elaborating", "running"}
  BY <1>0 DEF StartInv
<1>6. outcome = "running" => \A m \in Modules : stage[m] = "done"
  BY <1>0, AllDone DEF OutcomeInv
<1>7. outcome \in {"parsing", "usage", "user_error", "undefined",
                   "elaborating", "failure", "running", "exit", "unhandled"}
  BY <1>0 DEF OutcomeInv
<1> QED
  BY <1>0, <1>1, <1>2, <1>3, <1>4, <1>5, <1>6, <1>7 DEF TypeOK

(* A file fits when CompareStructure does not end the process.             *)
LEMMA IInvShape ==
  ASSUME IInv PROVE FillKeepsShape
<1>1. LoadInv
  BY DEF IInv, TreeInv
<1>2. ASSUME NEW m \in Modules, configuration[m] # Null
      PROVE  LET base == File[configuration[m][1]]
                 own == IF configuration[m][2] = Null THEN base
                        ELSE File[configuration[m][2]]
                 filled == SimulationParameters[m]
             IN  IF Fits(own, base) THEN IsFilled(filled, own, base)
                 ELSE filled.type = "exit"
  <2>1. PICK files : files = configuration[m]
    OBVIOUS
  <2>2. files \in Configurations \ {Null} /\ SimulationParameters[m] = Load(files)
    BY <1>1, <1>2, <2>1 DEF LoadInv
  <2>3. PICK base \in Values : base = File[files[1]]
    BY <2>2, TreeAssumption
  <2>4. CASE files[2] = Null
    <3>1. SimulationParameters[m] = base
      BY <2>2, <2>3, <2>4 DEF Load
    <3>2. IsFilled(base, base, base)
      BY FilledIfCompared
    <3>3. Fits(base, base)
      BY FitsItself
    <3> QED
      BY <2>1, <2>3, <2>4, <3>1, <3>2, <3>3
  <2>5. CASE files[2] # Null
    <3>1. PICK own \in Values : own = File[files[2]]
      BY <2>2, <2>5, TreeAssumption
    <3>2. PICK filled : filled = CompareStructure[<<own, base>>]
      OBVIOUS
    <3>3. SimulationParameters[m] = filled
      BY <2>2, <2>3, <2>5, <3>1, <3>2 DEF Load
    <3>4. Fits(own, base) => filled.type # "exit"
      BY <3>2, ComparedIfFits
    <3>5. filled.type # "exit" => Fits(own, base)
      BY <3>2, FitsIfCompared
    <3>6. filled.type # "exit" => IsFilled(filled, own, base)
      BY <3>2, FilledIfCompared
    <3> QED
      BY <2>1, <2>3, <2>5, <3>1, <3>3, <3>4, <3>5, <3>6
  <2> QED
    BY <2>4, <2>5
<1> QED
  BY <1>2 DEF FillKeepsShape

(* The answers.                                                            *)
LEMMA IInvNearest ==
  ASSUME PlainNames, IInv PROVE NearestWins
<1> SUFFICES ASSUME answer # Null, answer.how \in {"GetParameter", "operator[]"}
             PROVE  NearestWins
  BY DEF NearestWins
<1>1. Right(answer.how, answer.module, answer.process, answer.param, answer.value)
  BY DEF IInv, AnswerInv
<1>2. Searched = Path(answer.how, answer.module, answer.process)
  BY DEF Searched, Path
<1> QED
  BY <1>1, <1>2 DEF NearestWins, Right

(* The observers and the names.                                            *)
LEMMA IInvReports ==
  ASSUME PlainNames, IInv PROVE AllReport
<1>1. IsTree /\ ObserverInv /\ NameInv
  BY DEF IInv, TreeInv
<1>2. \A m, n \in Modules :
        fully_qualified_module_name(m) = fully_qualified_module_name(n) => m = n
  BY <1>1, NamesTell DEF NameInv
<1>3. outcome = "running" => \A m \in Modules : observers[m] = <<Observer>>
  BY <1>1 DEF ObserverInv
<1> QED
  BY <1>2, <1>3 DEF AllReport

(* The invariant holds in every reachable state.                           *)
LEMMA Invariant == Spec => []IInv
<1>1. Init => IInv
  BY IInvInit
<1>2. IInv /\ [Next]_vars => IInv'
  BY IInvStep
<1> QED
  BY <1>1, <1>2, PTL DEF Spec

(* Command line, configurations, registered children and observers keep    *)
(* their types, and the simulation runs only when PFPConfig is set and     *)
(* every constructor is done.                                              *)
THEOREM TreeTypes == Spec => []TypeOK
<1>1. IInv => TypeOK
  BY IInvTypeOK
<1> QED
  BY <1>1, Invariant, PTL

(* A well formed command line of any length is accepted by parse_args, and *)
(* PFPConfig then says what the user meant.                                *)
THEOREM ArgumentsMeant == Spec => []ArgumentsTaken
<1>1. IInv => ArgumentsTaken
  BY DEF IInv, TakenInv
<1> QED
  BY <1>1, Invariant, PTL

(* However deep the files nest, what CompareStructure makes of an          *)
(* instance's file has the shape of the base's, with the instance's values; *)
(* and it ends the process only when the file does not fit.                *)
THEOREM FillingKeepsShape == Spec => []FillKeepsShape
<1>1. IInv => FillKeepsShape
  BY IInvShape
<1> QED
  BY <1>1, Invariant, PTL

(* In every tree whose names do not contain "top", GetParameter and        *)
(* operator[] find the value of the nearest module that has one.           *)
THEOREM NearestFound == ASSUME PlainNames PROVE Spec => []NearestWins
<1>1. IInv => NearestWins
  BY IInvNearest
<1> QED
  BY <1>1, Invariant, PTL

(* In every such tree attach_observer reaches each module once, and no two *)
(* modules have one full name.                                             *)
THEOREM EveryModuleReports == ASSUME PlainNames PROVE Spec => []AllReport
<1>1. IInv => AllReport
  BY IInvReports
<1> QED
  BY <1>1, Invariant, PTL
=============================================================================
