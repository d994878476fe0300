---------------------------- MODULE MCModuleTree -----------------------------
(* Constants for model checking ProgramStart, ModuleTree and ConfigValues. *)
EXTENDS ModuleTree

CONSTANTS top, m1, m2

SomeGroups ==
  {<<"-c", "conf">>, <<"--config-root=conf/">>, <<"-v", "debug">>,
   <<"-v", "loud">>, <<"-o", "out/">>, <<"-d">>,
   <<"-X", "k", "1">>, <<"-Xk", "2">>, <<"-X", "k=1", "2">>,
   <<"--UserOpt=l", "1=2">>, <<"-X", "k">>, <<"--UserOpt", "k", "1">>,
   <<"-c">>, <<"-h">>, <<"-z">>, <<"word">>}
SomeWords == UNION {ToSet(g) : g \in SomeGroups} \cup {"conf/", "l"}
SomeForm ==
  [word \in SomeWords |->
     CASE word = "--config-root=conf/" -> <<"c", "conf/">>
       [] word = "-Xk" -> <<"X", "k">>
       [] word = "--UserOpt=l" -> <<"X", "l">>
       [] word = "--UserOpt" -> <<"UserOpt", Null>>
       [] word = "-c" -> <<"c", Null>>
       [] word = "-v" -> <<"v", Null>>
       [] word = "-o" -> <<"o", Null>>
       [] word = "-X" -> <<"X", Null>>
       [] word = "-d" -> <<"d", Null>>
       [] word = "-h" -> <<"h", Null>>
       [] word = "-z" -> <<"?", Null>>
       [] OTHER -> <<"none", Null>>]
SomePieces ==
  [word \in SomeWords |->
     CASE word = "k=1" -> <<"k", "1">>
       [] word = "1=2" -> <<"1", "2">>
       [] word = "--UserOpt=l" -> <<"--UserOpt", "l">>
       [] word = "--config-root=conf/" -> <<"--config-root", "conf/">>
       [] OTHER -> <<word>>]
SomeLevels == {"normal", "debug"}
SomeSlashed == {"./", "./Configs/", "conf/", "out/"}
NoArguments == {<<>>}

Swap == Permutations({m1, m2})
ThreeModules == {top, m1, m2}
TwoNames == {"a", "b"}
OnlyTop == {"top"}
TwoParams == {"size", "rates"}

Number(n) == Json(IF n < 0 THEN "number_integer" ELSE "number_unsigned", n)
List(a, b) == Json("array", <<Number(a), Number(b)>>)
Object(o) == Json("object", o)
Longer == Json("array", <<Number(1), Number(2), Number(3)>>)
Shorter == Json("array", <<Number(1)>>)
Hollow == Object(<<>>)

Files ==
  [size     |-> Object([size |-> Number(1)]),
   sizeNull |-> Object([size |-> NullJson]),
   full     |-> Object([size |-> Number(2), rates |-> List(1, 2)]),
   smaller  |-> Object([size |-> Number(3)]),
   rated    |-> Object([rates |-> List(4, 4)]),
   negative |-> Object([size |-> Number(-3)]),
   longer   |-> Object([rates |-> Longer]),
   shorter  |-> Object([rates |-> Shorter]),
   hollow   |-> Object([size |-> Hollow]),
   other    |-> Object([depth |-> Number(1)]),
   flat     |-> Object([rates |-> Number(1)]),
   inner    |-> Object([size |-> Object([size |-> Number(1)])])]

SomeConfigurations ==
  {Null} \cup ({"size", "sizeNull"} \X {Null})
         \cup {<<"hollow", "inner">>}
         \cup ({"full"} \X {Null, "smaller", "rated", "negative", "longer",
                            "shorter", "hollow", "other", "flat"})

SomeNesting ==
  LET primitives == {Number(n) : n \in {-3, 1, 2, 3, 4}} \cup {NullJson}
      lists == {List(1, 2), List(4, 4), Longer, Shorter, Hollow}
      objects == {Files[f] : f \in DOMAIN Files}
  IN  [j \in primitives \cup lists \cup objects |->
        IF j \in primitives THEN 0 ELSE IF j \in lists THEN 1
        ELSE IF j = Files.inner THEN 3 ELSE 2]
=============================================================================
