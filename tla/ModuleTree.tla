----------------------------- MODULE ModuleTree ------------------------------
(***************************************************************************)
(* The tree of PFPObjects: modules are constructed from the top down, each *)
(* with its configuration, and register their children from the bottom up; *)
(* then the top attaches the observer.  Afterwards processes look          *)
(* parameters up, along the tree, and modules report data and counters     *)
(* under their names.                                                      *)
(*                                                                         *)
(* Generated code constructs and registers as the sample of tests/ does.   *)
(* A lookup changes nothing, so the model looks one up and stops.          *)
(***************************************************************************)
EXTENDS ConfigValues, ProgramStart

CONSTANTS
  Modules, Top,
  Names,            \* of modules other than Top, whose name is "top"
  WithTop,          \* names that have "top" in them
  Params,           \* keys that modules look up
  Configurations,   \* a module's base and instance file, or Null for none
  File,             \* what files hold
  Observer,
  BuiltFor          \* bound: command lines for which the tree is built;
                    \* the tree reads nothing from the command line

ASSUME TreeAssumption ==
  /\ Top \in Modules /\ Null \notin Modules
  /\ "top" \in WithTop
  /\ \A c \in Configurations \ {Null} :
       c[1] \in DOMAIN File /\ c[2] \in DOMAIN File \cup {Null}
  /\ \A f \in DOMAIN File : File[f] \in Values /\ File[f].type = "object"

VARIABLES
  parent, name,     \* of each module, as the program has them
  stage,            \* of its constructor: "none", "children" or "done"
  configuration,    \* history: the files of the module
  SimulationParameters,
  childModules,     \* name to module
  observers,
  answer            \* the lookup that was made, or Null

treeVars == <<parent, name, stage, configuration, SimulationParameters,
              childModules, observers, answer>>
vars == <<startVars, treeVars>>

-----------------------------------------------------------------------------
(* Construction. *)

Children(m) == {c \in Modules : parent[c] = m}

Load(files) ==
  IF files = Null THEN NullJson
  ELSE IF files[2] = Null THEN File[files[1]]
  ELSE CompareStructure[<<File[files[2]], File[files[1]]>>]

(* The constructors of the class's base, before its members'               *)
Construct(m, files) ==
  /\ outcome = "elaborating" /\ asked \in BuiltFor /\ stage[m] = "none"
  /\ m # Top => /\ stage[parent[m]] = "children"
                /\ \A c \in Children(parent[m]) : stage[c] # "children"
  /\ configuration' = [configuration EXCEPT ![m] = files]
  /\ SimulationParameters' = [SimulationParameters EXCEPT ![m] = Load(files)]
  /\ stage' = [stage EXCEPT ![m] = "children"]
  /\ outcome' = IF Load(files).type = "exit" THEN "failure" ELSE outcome
  /\ UNCHANGED <<asked, optind, args, config, parent, name, childModules,
                 observers, answer>>

(* The constructor's body: AddChildModule of each child                    *)
AddChildModules(m) ==
  /\ outcome = "elaborating" /\ stage[m] = "children"
  /\ \A c \in Children(m) : stage[c] = "done"
  /\ stage' = [stage EXCEPT ![m] = "done"]
  /\ childModules' =
       [childModules EXCEPT
         ![m] = [n \in {name[c] : c \in Children(m)} |->
                  CHOOSE c \in Children(m) : name[c] = n]]
  /\ UNCHANGED <<startVars, parent, name, configuration, SimulationParameters,
                 observers, answer>>

(* Fault: the children's children are not told *)
Reached_Children(m) ==
  {m} \cup {childModules[m][n] : n \in DOMAIN childModules[m]}

Reached(m) ==
  LET below[q \in Modules] ==
        {q} \cup UNION {below[childModules[q][n]] : n \in DOMAIN childModules[q]}
  IN  below[m]

(* Fault: from top's constructor, before top knows its children *)
attach_observer_Early ==
  /\ outcome = "elaborating" /\ stage[Top] = "children" /\ observers[Top] = <<>>
  /\ observers' = [m \in Modules |->
       IF m \in Reached(Top) THEN Append(observers[m], Observer)
       ELSE observers[m]]
  /\ outcome' = "running"
  /\ UNCHANGED <<asked, optind, args, config, parent, name, stage,
                 configuration, SimulationParameters, childModules, answer>>

(* top::init                                                               *)
attach_observer ==
  /\ outcome = "elaborating" /\ stage[Top] = "done" /\ observers[Top] = <<>>
  /\ observers' = [m \in Modules |->
       IF m \in Reached(Top) THEN Append(observers[m], Observer)
       ELSE observers[m]]
  /\ outcome' = "running"
  /\ UNCHANGED <<asked, optind, args, config, parent, name, stage,
                 configuration, SimulationParameters, childModules, answer>>

-----------------------------------------------------------------------------
(* Names. *)

ModuleHierarchy(m) ==
  LET hierarchy[q \in Modules] ==
        IF name[q] \in WithTop THEN <<name[q]>>
        ELSE <<name[q]>> \o hierarchy[parent[q]]
  IN  hierarchy[m]

(* top is left out                                                         *)
fully_qualified_module_name(m) == Tail(Reverse(ModuleHierarchy(m)))

-----------------------------------------------------------------------------
(* Lookups: a value, the null value, or the end of the process. *)

Own(m, param) == LocalSearch(SimulationParameters[m], param)

Crash == Json("crash", "crash") \* a member of a null PFPObject

GetParameterfromParent(param, m) ==
  LET result[q \in Modules] ==
        IF ~IsNull(Own(q, param)) THEN Own(q, param)
        ELSE IF name[q] = "top" THEN Exit
        ELSE result[parent[q]]
  IN  result[m]

GetParameter(m, param) ==
  LET own == Own(m, param)
  IN  IF IsNull(own) /\ name[m] # "top"
      THEN GetParameterfromParent(param, parent[m])
      ELSE own

Searchinparent(param, m) ==
  LET result[q \in Modules] ==
        IF ~IsNull(Own(q, param)) THEN Own(q, param)
        ELSE IF name[q] \in WithTop THEN Exit
        ELSE result[parent[q]]
  IN  IF m = Null THEN Crash ELSE result[m]

(* Fault: the search begins at the top *)
HeirarchalSearch_TopFirst(m, param, process) ==
  IF ~IsNull(Own(Top, param)) THEN Own(Top, param)
  ELSE IF ~IsNull(Own(m, param)) THEN Own(m, param)
  ELSE Searchinparent(param, parent[m])

(* operator[].  Behind its own parameters it is the parents of the module  *)
(* whose process runs that are searched; no process runs in a constructor  *)
HeirarchalSearch(m, param, process) ==
  IF SimulationParameters[m].type = "object"
     /\ param \in DOMAIN SimulationParameters[m].value
  THEN Own(m, param)
  ELSE IF process = Null THEN Exit
  ELSE Searchinparent(param, parent[process])

(* An index past the end of a list is looked up in the modules, where it   *)
(* is none: at() throws for an object, which has that many keys or not     *)
SearchinparentAt(position, m) ==
  LET result[q \in Modules] ==
        IF position < Cardinality(Keys(SimulationParameters[q]))
        THEN Json("throw", "throw")
        ELSE IF name[q] \in WithTop THEN Exit
        ELSE result[parent[q]]
  IN  result[m]

HeirarchalSearchAt(list, position, process) ==
  IF position < Len(list.value) THEN list.value[position + 1]
  ELSE IF process = Null THEN Exit
  ELSE SearchinparentAt(position, process)

Looks(how, m, process, param, value) ==
  /\ answer = Null /\ stage[m] # "none"
  /\ \/ outcome = "elaborating" /\ process = Null /\ stage[m] = "children"
     \/ outcome = "running" /\ process # Null
  /\ answer' = [how |-> how, module |-> m, process |-> process,
                param |-> param, value |-> value]
  /\ outcome' = CASE value.type = "exit" -> "exit"
                  [] value.type = "crash" -> "undefined"
                  [] value.type = "throw" -> "unhandled"
                  [] OTHER -> outcome
  /\ UNCHANGED <<asked, optind, args, config, parent, name, stage,
                 configuration, SimulationParameters, childModules, observers>>

Lookup(m, process, param) ==
  \/ Looks("GetParameter", m, process, param, GetParameter(m, param))
  \/ Looks("operator[]", m, process, param, HeirarchalSearch(m, param, process))

LookupAt(m, process, param, position) ==
  /\ Own(m, param).type = "array"
  /\ Looks("operator[][]", m, process, param,
           HeirarchalSearchAt(Own(m, param), position, process))

-----------------------------------------------------------------------------
IsTree ==
  /\ parent[Top] = Null /\ name[Top] = "top"
  /\ \A m \in Modules \ {Top} :
       parent[m] \in Modules /\ name[m] \in Names
  /\ \A S \in SUBSET (Modules \ {Top}) :
       S # {} => \E m \in S : parent[m] \notin S
  /\ \A m, n \in Modules : m # n /\ parent[m] = parent[n] => name[m] # name[n]

Init ==
  /\ StartInit
  /\ parent \in [Modules -> Modules \cup {Null}]
  /\ name \in [Modules -> Names \cup {"top"}] /\ IsTree
  /\ stage = [m \in Modules |-> "none"]
  /\ configuration = [m \in Modules |-> Null]
  /\ SimulationParameters = [m \in Modules |-> NullJson]
  /\ childModules = [m \in Modules |-> <<>>]
  /\ observers = [m \in Modules |-> <<>>] /\ answer = Null

Next ==
  \/ StartNext /\ UNCHANGED treeVars
  \/ \E m \in Modules, files \in Configurations : Construct(m, files)
  \/ \E m \in Modules : AddChildModules(m)
  \/ attach_observer
  \/ \E m \in Modules, process \in Modules \cup {Null}, param \in Params :
       \/ Lookup(m, process, param)
       \/ \E position \in 0 .. 2 : LookupAt(m, process, param, position)

Spec == Init /\ [][Next]_vars
-----------------------------------------------------------------------------
(* Type invariant.                                                         *)
TypeOK ==
  /\ IsTree
  /\ stage \in [Modules -> {"none", "children", "done"}]
  /\ \A m \in Modules :
       /\ SimulationParameters[m].type \in {"object", "null", "exit"}
       /\ childModules[m] \in [DOMAIN childModules[m] -> Modules]
       /\ observers[m] \in Seq({Observer})
  /\ config = Null => outcome \notin {"elaborating", "running"}
  /\ outcome = "running" => \A m \in Modules : stage[m] = "done"
  /\ outcome \in {"parsing", "usage", "user_error", "undefined",
                  "elaborating", "failure", "running", "exit", "unhandled"}

Ancestors(m) ==
  LET up[n \in Modules] == IF n = Top THEN <<n>> ELSE <<n>> \o up[parent[n]]
  IN  up[m]

(* A module's parameters have the shape of its base file, whatever its     *)
(* instance's file says: the instance's values where it gives any, the     *)
(* base's elsewhere.  Only a file that does not fit ends the process.      *)
FillKeepsShape ==
  \A m \in Modules :
    configuration[m] # Null =>
      LET base == File[configuration[m][1]]
          own == IF configuration[m][2] = Null THEN base
                 ELSE File[configuration[m][2]]
          filled == SimulationParameters[m]
      IN  IF Fits(own, base) THEN IsFilled(filled, own, base)
          ELSE filled.type = "exit"

(* where a lookup is to look, one module after the other                   *)
Searched ==
  IF answer.how = "GetParameter" THEN Ancestors(answer.module)
  ELSE IF answer.process = Null THEN <<answer.module>>
  ELSE <<answer.module>> \o Tail(Ancestors(answer.process))

(* Both ways to look a parameter up find the value of the nearest module   *)
(* that has one, also in a constructor, where the parents are configured   *)
(* already; the process ends only where none of those searched has one.    *)
(* operator[] searches the module and the parents of the one whose process *)
(* runs: a module called from another one's process takes what it lacks    *)
(* from there, and outside of any process it has nowhere else to look.  It *)
(* takes a null of the module's own for an answer.                         *)
NearestWins ==
  (answer # Null /\ answer.how \in {"GetParameter", "operator[]"}) =>
    LET param == answer.param
        path == Searched
        having == {i \in DOMAIN path : ~IsNull(Own(path[i], param))}
    IN  CASE answer.value.type = "exit" -> having = {}
          [] answer.value.type = "crash" ->
               having = {} /\ answer.process = Top
          [] answer.value.type = "null" ->
               \/ having = {} /\ answer.module = Top
               \/ answer.how = "operator[]" /\ 1 \notin having
          [] OTHER -> \E i \in having : /\ \A j \in having : i <= j
                                        /\ answer.value = Own(path[i], param)

(* Once the simulation runs each module reports to the observer, once, so  *)
(* that no event is counted twice.  Data is reported under the full name,  *)
(* which no other module has, although modules of different parents may    *)
(* share their own name, the one that counters are reported under.         *)
AllReport ==
  outcome = "running" =>
    /\ \A m \in Modules : observers[m] = <<Observer>>
    /\ \A m, n \in Modules :
         fully_qualified_module_name(m) = fully_qualified_module_name(n) => m = n
=============================================================================
