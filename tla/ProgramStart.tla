---------------------------- MODULE ProgramStart -----------------------------
(***************************************************************************)
(* The command line of a simulation (pfp_main.cpp): parse_args reads the   *)
(* options, pfp_elab_and_sim hands them to PFPConfig and then has the      *)
(* modules built.  A command line is kept as the groups of words that the  *)
(* user meant, and read as the words that getopt_long sees.  A word is     *)
(* known by what getopt_long takes it for and by where its '=' are.        *)
(***************************************************************************)
EXTENDS Integers, Sequences, SequencesExt, FiniteSets

CONSTANTS
  Groups,           \* what the user may write: an option and its words
  Words,            \* of the command line, and arguments that are in one
  Form,             \* what getopt_long takes a word for: an option, and the
                    \* argument that is in the same word, or Null
  Pieces,           \* a word, cut at each =
  Levels,           \* verbosity levels
  Slashed,          \* paths that end in /
  Null,             \* of a char pointer or a PFPObject pointer
  MaxGroups         \* bound: groups of a command line

(* Short or long; --UserOpt without an argument is "UserOpt".              *)
Options == {"c", "v", "o", "X", "UserOpt", "d", "h", "?", "none"}
OptionOf(word) == Form[word][1]
Within(word) == Form[word][2]

ArgKeys == {Head(Pieces[word]) : word \in Words}

WithSlash(path) == IF path \in Slashed THEN path ELSE path \o "/"

PFPConfigs ==
  [verbo : Levels,
   ConfigFilePath : {WithSlash(path) : path \in Words \cup {"./Configs/"}},
   OutputDirPath : Words \cup {"./"},
   argMap : [ArgKeys -> Seq(STRING)],  \* cut at each =; <<>> for no entry
   debugger_flag : BOOLEAN]

ASSUME StartAssumption ==
  /\ Words \subseteq STRING
  /\ \A g \in Groups : g \in Seq(Words) /\ Len(g) \in 1 .. 3
  /\ Form \in [Words -> Options \X (Words \cup {Null})]
  /\ \A word \in Words : Pieces[word] \in Seq(STRING) \ {<<>>}
  /\ "normal" \in Levels /\ {"./", "./Configs/"} \subseteq Slashed
  /\ Null \notin STRING \cup PFPConfigs /\ MaxGroups \in Nat

VARIABLES
  asked,            \* history: the groups of the command line
  optind,           \* next of argv; the first argument is 1
  args,             \* parse_args' variables
  config,           \* the PFPConfig singleton
  outcome           \* "parsing", then "elaborating", or how the process ended

startVars == <<asked, optind, args, config, outcome>>

argv == FlattenSeq(asked)

-----------------------------------------------------------------------------
Reads(option) ==
  /\ outcome = "parsing" /\ optind <= Len(argv)
  /\ OptionOf(argv[optind]) = option

(* An option with its argument takes one word or two                       *)
Size(word) == IF Within(word) = Null THEN 2 ELSE 1

(* optind and optarg when getopt_long has read such an option              *)
Behind == optind + Size(argv[optind])

optarg ==
  IF Within(argv[optind]) = Null THEN argv[optind + 1] ELSE Within(argv[optind])

HasArgument == Behind - 1 <= Len(argv)

Ends(how) == outcome' = how /\ UNCHANGED <<asked, optind, args, config>>

Goes(to) == optind' = to /\ UNCHANGED <<asked, config, outcome>>

OnceOption(option, field) ==
  /\ Reads(option)
  /\ IF HasArgument /\ args[field] = Null
     THEN args' = [args EXCEPT ![field] = optarg] /\ Goes(Behind)
     ELSE Ends("usage")

(* The value is the word after getopt's argument, an option or not; past   *)
(* the last word it is a null pointer.  Key and value are joined by an =   *)
UserOption ==
  /\ Reads("X")
  /\ \/ ~HasArgument /\ Ends("usage")
     \/ HasArgument /\ Behind > Len(argv) /\ Ends("undefined")
     \/ /\ Behind <= Len(argv)
        /\ args' = [args EXCEPT !.user_args =
                      Append(@, Pieces[optarg] \o Pieces[argv[Behind]])]
        /\ Goes(Behind + 1)

(* --UserOpt has an optional argument, which is in its word or nowhere:    *)
(* optarg is a null pointer                                                *)
UserOptionAlone == Reads("UserOpt") /\ Ends("undefined")

DebuggerOption ==
  /\ Reads("d")
  /\ args' = [args EXCEPT !.debugger_enabled = TRUE] /\ Goes(optind + 1)

HelpOrBad == (Reads("h") \/ Reads("?")) /\ Ends("usage")

(* getopt moves what is no option behind the options                       *)
Unexpected ==
  /\ Reads("none")
  /\ args' = [args EXCEPT !.unexpected = TRUE] /\ Goes(optind + 1)

OrDefault(word, default) == IF word = Null THEN default ELSE word

(* Fault: a key that is there keeps its value, as with insert *)
ArgMap_First(texts) ==
  LET map[n \in 0 .. Len(texts)] ==
        IF n = 0 THEN [key \in ArgKeys |-> <<>>]
        ELSE IF map[n - 1][Head(texts[n])] # <<>> THEN map[n - 1]
        ELSE [map[n - 1] EXCEPT ![Head(texts[n])] = Tail(texts[n])]
  IN  map[Len(texts)]

(* set_command_line_arg_vector: a text is a key up to its first =, and a   *)
(* value; later ones replace earlier ones of the same key                  *)
ArgMap(texts) ==
  LET map[n \in 0 .. Len(texts)] ==
        IF n = 0 THEN [key \in ArgKeys |-> <<>>]
        ELSE [map[n - 1] EXCEPT ![Head(texts[n])] = Tail(texts[n])]
  IN  map[Len(texts)]

Configure ==
  /\ outcome = "parsing" /\ optind > Len(argv)
  /\ LET level == OrDefault(args.verbosity, "normal")
     IN  \/ args.unexpected /\ Ends("usage")
         \/ ~args.unexpected /\ level \notin Levels /\ Ends("user_error")
         \/ /\ ~args.unexpected /\ level \in Levels
            /\ config' =
                 [verbo |-> level,
                  ConfigFilePath |->
                    WithSlash(OrDefault(args.config_root, "./Configs/")),
                  OutputDirPath |-> OrDefault(args.output, "./"),
                  argMap |-> ArgMap(args.user_args),
                  debugger_flag |-> args.debugger_enabled]
            /\ outcome' = "elaborating"
            /\ UNCHANGED <<asked, optind, args>>

-----------------------------------------------------------------------------
StartInit ==
  /\ asked \in UNION {[1 .. n -> Groups] : n \in 0 .. MaxGroups}
  /\ optind = 1 /\ config = Null /\ outcome = "parsing"
  /\ args = [config_root |-> Null, verbosity |-> Null, output |-> Null,
             user_args |-> <<>>, debugger_enabled |-> FALSE,
             unexpected |-> FALSE]

StartNext ==
  \/ OnceOption("c", "config_root") \/ OnceOption("v", "verbosity")
  \/ OnceOption("o", "output") \/ UserOption \/ UserOptionAlone
  \/ DebuggerOption \/ HelpOrBad \/ Unexpected \/ Configure

-----------------------------------------------------------------------------
Given(option) == {i \in DOMAIN asked : OptionOf(asked[i][1]) = option}

(* what a group has for its option: the argument, and the words joined     *)
Argument(g) == IF Within(g[1]) = Null THEN g[2] ELSE Within(g[1])
Text(g) == Pieces[Argument(g)] \o Pieces[Last(g)]
Key(i) == Head(Text(asked[i]))
Value(i) == Tail(Text(asked[i]))

Once == {"c", "v", "o"}

WellFormed ==
  /\ \A i \in DOMAIN asked :
       LET g == asked[i]
       IN  \/ OptionOf(g[1]) = "d" /\ Len(g) = 1
           \/ OptionOf(g[1]) \in Once /\ Len(g) = Size(g[1])
           \/ OptionOf(g[1]) = "X" /\ Len(g) = Size(g[1]) + 1
  /\ \A option \in Once : \A i, j \in Given(option) : i = j
  /\ \A i \in Given("v") : Argument(asked[i]) \in Levels

(* the argument of an option, if it is given                               *)
Word(option, default) ==
  IF Given(option) = {} THEN default
  ELSE Argument(asked[CHOOSE i \in Given(option) : TRUE])

(* A command line of complete options, none of them twice but -X and -d,   *)
(* is never refused, in whatever order the options are, short or long,     *)
(* with their arguments in the same word or in the next; and what a module *)
(* then reads from PFPConfig is what the user meant.  The two words of a   *)
(* -X are one text: it gives a value, all behind its first =, to a key,    *)
(* unless a later one has the same key.                                    *)
ArgumentsTaken ==
  WellFormed =>
    /\ config = Null => outcome = "parsing"
    /\ config # Null =>
         /\ config.verbo = Word("v", "normal")
         /\ config.ConfigFilePath = WithSlash(Word("c", "./Configs/"))
         /\ config.OutputDirPath = Word("o", "./")
         /\ config.debugger_flag = (Given("d") # {})
         /\ \A key \in ArgKeys :
              config.argMap[key] = <<>>
                <=> key \notin {Key(i) : i \in Given("X")}
         /\ \A i \in Given("X") :
              (\A j \in Given("X") : Key(j) = Key(i) => j <= i)
                => config.argMap[Key(i)] = Value(i)
=============================================================================
