---------------------------- MODULE ControlPlane -----------------------------
(***************************************************************************)
(* The control plane as pfpdb sees it.  Commands (cp/) insert, modify and  *)
(* delete entries of the device's tables and are answered by results.      *)
(* CPDebuggerInterface keeps a list of the entries for pfpdb, which the    *)
(* control plane is to tell of each command and each result.               *)
(*                                                                         *)
(* The control plane and the device are models of their own, outside of    *)
(* this repository: the control plane calls the interface as its comments  *)
(* ask, commands are executed and answered in order.  pfpdb's commands are *)
(* requests and the rest runs in the simulation, which take turns          *)
(* (DebuggerHandshake), so each command, execution and result is one step. *)
(***************************************************************************)
EXTENDS Integers, Sequences, SequencesExt, FiniteSets

CONSTANTS
  Tables, Actions, Data,
  Literals,         \* match keys as typed: a number and a width, 12'3
  Base,             \* values of a byte
  DecimalWidth,     \* bytes of an unsigned long long
  Handles,          \* handles the device gives out; bound: entries of a table
  NoHandle,         \* the uint64_t -1
  Liberties,        \* what user and device do, of AllLiberties
  MaxInFlight       \* bound: commands, and results, on their way

AllLiberties ==
  {"duplicate key",   \* insert a key that an entry of the action has
   "new action",      \* modify the action of an entry
   "two at once",     \* modify or delete an entry that is being changed
   "no handle",       \* modify or delete the handle -1
   "narrow growth"}   \* extend a key to less than its double and one more

ASSUME ControlPlaneAssumption ==
  /\ Base \in Nat \ {0} /\ DecimalWidth \in Nat
  /\ Literals \subseteq Nat \X Nat
  /\ Handles \subseteq Nat /\ NoHandle \notin Handles
  /\ Liberties \subseteq AllLiberties /\ MaxInFlight \in Nat

VARIABLES
  table_entries,    \* of each table: action to sequence of entries
  commands,         \* commands on their way to the device
  results,          \* results on their way back
  device,           \* what the tables hold: handle to entry
  refused,          \* history: table and key of commands the device refused
  status            \* of the process: "running" or "undefined"

vars == <<table_entries, commands, results, device, refused, status>>

Allowed(liberty) == liberty \in Liberties

-----------------------------------------------------------------------------
(* Byte strings of the command language, first byte first. *)

(* n, and bytes behind it                                                  *)
Extended(n, bytes) ==
  LET value[i \in 0 .. Len(bytes)] ==
        IF i = 0 THEN n ELSE value[i - 1] * Base + bytes[i]
  IN  value[Len(bytes)]

Number(bytes) == Extended(0, bytes)

(* what k bytes tell apart: 1, and k zeros behind it                       *)
Power(k) == Extended(1, [i \in 1 .. k |-> 0])

(* the number of a literal is an unsigned long long                        *)
ASSUME LiteralAssumption ==
  \A text \in Literals : text[1] < Power(DecimalWidth)

(* a DECIMAL literal: the number's bytes, most significant first           *)
Decimal(n) ==
  [i \in 1 .. DecimalWidth |-> (n \div Power(DecimalWidth - i)) % Base]

(* Fault: shrinking keeps the front, as Bytes::resize does *)
Resized_Front(bytes, new) ==
  [i \in 1 .. new |-> IF i <= Len(bytes) THEN bytes[i] ELSE 0]

(* Shrinking keeps the end.  Growing moves the bytes to the end, and then  *)
(* clears one byte more than there were, not the room in front of them;    *)
(* the move, too, is of one byte more, and ends one past the end           *)
Resized(bytes, new) ==
  LET old == Len(bytes)
  IN  IF new <= old THEN SubSeq(bytes, old - new + 1, old)
      ELSE [i \in 1 .. new |->
             IF i <= old + 1 \/ i <= new - old THEN 0 ELSE bytes[i - (new - old)]]

Narrow(w) == DecimalWidth < w /\ w <= 2 * DecimalWidth

-----------------------------------------------------------------------------
(* CPDebuggerInterface. *)

Entries(t, a) ==
  IF a \in DOMAIN table_entries[t] THEN table_entries[t][a] ELSE <<>>

TableEntry(k, a, d, h, s) ==
  [match_key |-> k, action_name |-> a, action_data |-> d, handle |-> h,
   status |-> s]

(* map f with a value for x, be it new or not                              *)
With(f, x, value) ==
  [y \in DOMAIN f \cup {x} |-> IF y = x THEN value ELSE f[y]]

SetEntries(t, a, entries) ==
  table_entries' = [table_entries EXCEPT ![t] = With(@, a, entries)]

(* Fault: the entry gets no status *)
addTableEntry_NoStatus(t, k, a, d) ==
  SetEntries(t, a, Append(Entries(t, a), TableEntry(k, a, d, NoHandle, "NONE")))

addTableEntry(t, k, a, d) ==
  SetEntries(t, a, Append(Entries(t, a),
                          TableEntry(k, a, d, NoHandle, "INSERTING")))

(* the first entry with the key                                            *)
updateHandle(t, k, a, h) ==
  LET i == SelectInSeq(Entries(t, a), LAMBDA e : e.match_key = k)
  IN  IF i = 0 THEN UNCHANGED table_entries
      ELSE SetEntries(t, a, [Entries(t, a) EXCEPT ![i].handle = h,
                                                  ![i].status = "OK"])

(* the entry is looked for under the action it is to get; an action that   *)
(* the table did not have is added                                         *)
updateTableEntry(t, h, a, d) ==
  LET i == SelectInSeq(Entries(t, a), LAMBDA e : e.handle = h)
  IN  SetEntries(t, a,
                 IF i = 0 THEN Entries(t, a)
                 ELSE [Entries(t, a) EXCEPT ![i].action_data = d,
                                            ![i].status = "MODIFYING"])

Marked(entries, h, s) ==
  LET i == SelectInSeq(entries, LAMBDA e : e.handle = h)
  IN  IF i = 0 THEN entries ELSE [entries EXCEPT ![i].status = s]

(* the first entry with the handle, under each action                      *)
MarkAll(t, h, s) ==
  table_entries' =
    [table_entries EXCEPT
      ![t] = [a \in DOMAIN @ |-> Marked(@[a], h, s)]]

Without(entries, h) == RemoveFirstMatch(entries, LAMBDA e : e.handle = h)

(* Fault: the entry goes before the device has deleted it *)
deleteTableEntry_AtOnce(t, h) ==
  table_entries' =
    [table_entries EXCEPT ![t] = [a \in DOMAIN @ |-> Without(@[a], h)]]

deleteTableEntry(t, h) == MarkAll(t, h, "DELETING")

(* Fault: what is confirmed is the deletion *)
confirmUpdateEntry_Mixed(t, h) == MarkAll(t, h, "DELETING")

confirmUpdateEntry(t, h) == MarkAll(t, h, "OK")

(* Fault: an action that has more entries keeps this one *)
confirmDeleteEntry_OnlyLast(t, h) ==
  /\ table_entries' =
       [table_entries EXCEPT
         ![t] = Restrict(@, {a \in DOMAIN @ : Without(@[a], h) # <<>>})]
  /\ UNCHANGED status

(* An action without entries goes too.  The loop then advances the         *)
(* iterator to the erased node, which is undefined                         *)
confirmDeleteEntry(t, h) ==
  LET left == [a \in DOMAIN table_entries[t] |->
                Without(table_entries[t][a], h)]
      empty == {a \in DOMAIN left : left[a] = <<>> /\ Entries(t, a) # <<>>}
  IN  /\ table_entries' =
           [table_entries EXCEPT ![t] = Restrict(left, DOMAIN left \ empty)]
      /\ status' \in IF empty = {} THEN {status} ELSE {status, "undefined"}

getAllTableEntries(t) ==
  UNION {ToSet(table_entries[t][a]) : a \in DOMAIN table_entries[t]}

Listed(t) ==
  UNION {{a} \X DOMAIN table_entries[t][a] : a \in DOMAIN table_entries[t]}

-----------------------------------------------------------------------------
(* Commands, as the control plane's do_command issues them. *)

Command(kind, t, k, a, d, h, text) ==
  [kind |-> kind, table |-> t, match_key |-> k, action |-> a, data |-> d,
   handle |-> h, literal |-> text]
NoKey == <<>>
NoText == <<0, 0>>

Issue(command) ==
  /\ status = "running" /\ Len(commands) < MaxInFlight
  /\ commands' = Append(commands, command)
  /\ UNCHANGED <<results, device, refused>>

InsertCommand(t, text, a, d) ==
  LET k == Resized(Decimal(text[1]), text[2])
  IN  /\ Narrow(text[2]) => Allowed("narrow growth")
      /\ Cardinality(Listed(t)) < Cardinality(Handles)
      /\ \/ \A e \in getAllTableEntries(t) :
              e.match_key = k => e.status = "DELETING"
         \/ Allowed("duplicate key")
      /\ Issue(Command("insert", t, k, a, d, NoHandle, text))
      /\ addTableEntry(t, k, a, d)
      /\ status' \in IF text[2] > DecimalWidth THEN {status, "undefined"}
                     ELSE {status}

(* the user takes the handle from the list                                 *)
Changeable(t, e) ==
  /\ e \in getAllTableEntries(t)
  /\ e.status = "OK" \/ Allowed("two at once")
  /\ e.handle # NoHandle \/ Allowed("no handle")

ModifyCommand(t, e, a, d) ==
  /\ Changeable(t, e)
  /\ a = e.action_name \/ Allowed("new action")
  /\ Issue(Command("modify", t, NoKey, a, d, e.handle, NoText))
  /\ updateTableEntry(t, e.handle, a, d)
  /\ UNCHANGED status

DeleteCommand(t, e) ==
  /\ Changeable(t, e)
  /\ Issue(Command("delete", t, NoKey, e.action_name, e.action_data, e.handle,
                   NoText))
  /\ deleteTableEntry(t, e.handle)
  /\ UNCHANGED status

-----------------------------------------------------------------------------
(* The device executes a command.  A free handle may be one used before.   *)
(* It may refuse to insert or modify, not to delete what it has.           *)

Answer(result) ==
  /\ status = "running" /\ commands # <<>> /\ Len(results) < MaxInFlight
  /\ commands' = Tail(commands)
  /\ results' = Append(results, result)
  /\ UNCHANGED <<table_entries, status>>

Row(c, k) == [match_key |-> k, action_name |-> c.action, action_data |-> c.data]

Execute ==
  /\ commands # <<>>
  /\ LET c == Head(commands)
         rows == device[c.table]
         known == c.handle \in DOMAIN rows
     IN  \/ /\ c.kind = "insert"
            /\ \E h \in Handles \ DOMAIN rows :
                 /\ device' = [device EXCEPT
                                ![c.table] = With(@, h, Row(c, c.match_key))]
                 /\ Answer([c EXCEPT !.handle = h])
            /\ UNCHANGED refused
         \/ /\ c.kind = "modify" /\ known
            /\ device' = [device EXCEPT ![c.table][c.handle] =
                            Row(c, rows[c.handle].match_key)]
            /\ Answer(c) /\ UNCHANGED refused
         \/ /\ c.kind = "delete" /\ known
            /\ device' = [device EXCEPT
                           ![c.table] = Restrict(@, DOMAIN @ \ {c.handle})]
            /\ Answer(c) /\ UNCHANGED refused
         \/ /\ c.kind = "delete" => ~known
            /\ Answer([c EXCEPT !.kind = "failed"])
            /\ refused' = refused \cup
                 {<<c.table, IF known THEN rows[c.handle].match_key
                             ELSE c.match_key>>}
            /\ UNCHANGED device

(* The control plane processes a result; a MultiResult is its results one  *)
(* after the other.  There is nothing to call for a failure                *)
AcceptResult ==
  /\ status = "running" /\ results # <<>>
  /\ results' = Tail(results)
  /\ UNCHANGED <<commands, device, refused>>
  /\ LET r == Head(results)
     IN  \/ /\ r.kind = "insert"
            /\ updateHandle(r.table, r.match_key, r.action, r.handle)
            /\ UNCHANGED status
         \/ /\ r.kind = "modify"
            /\ confirmUpdateEntry(r.table, r.handle) /\ UNCHANGED status
         \/ r.kind = "delete" /\ confirmDeleteEntry(r.table, r.handle)
         \/ r.kind = "failed" /\ UNCHANGED <<table_entries, status>>

-----------------------------------------------------------------------------
Init ==
  /\ table_entries = [t \in Tables |-> <<>>]
  /\ commands = <<>> /\ results = <<>>
  /\ device = [t \in Tables |-> <<>>]
  /\ refused = {} /\ status = "running"

Next ==
  \/ \E t \in Tables, text \in Literals, a \in Actions, d \in Data :
       InsertCommand(t, text, a, d)
  \/ \E t \in Tables, a \in Actions, d \in Data :
       \E e \in getAllTableEntries(t) : ModifyCommand(t, e, a, d)
  \/ \E t \in Tables : \E e \in getAllTableEntries(t) : DeleteCommand(t, e)
  \/ Execute \/ AcceptResult

Spec == Init /\ [][Next]_vars
-----------------------------------------------------------------------------
(* Type invariant.                                                         *)
TypeOK ==
  /\ \A t \in Tables :
       /\ DOMAIN table_entries[t] \subseteq Actions
       /\ \A a \in DOMAIN table_entries[t] :
            \A i \in DOMAIN table_entries[t][a] :
              LET e == table_entries[t][a][i]
              IN  /\ e.action_name = a /\ e.action_data \in Data
                  /\ e.handle \in Handles \cup {NoHandle}
                  /\ e.status \in {"OK", "INSERTING", "DELETING", "MODIFYING"}
       /\ DOMAIN device[t] \subseteq Handles
  /\ Len(commands) <= MaxInFlight /\ Len(results) <= MaxInFlight
  /\ \A x \in refused : x[1] \in Tables
  /\ status \in {"running", "undefined"}

Content(e) == [match_key |-> e.match_key, action_name |-> e.action_name,
               action_data |-> e.action_data]

(* a command or result that concerns entry e of table t is on its way      *)
InFlight(t, e) ==
  \E c \in ToSet(commands) \cup ToSet(results) :
    /\ c.table = t
    /\ IF e.handle = NoHandle THEN c.kind = "insert" /\ c.match_key = e.match_key
       ELSE c.kind # "insert" /\ c.handle = e.handle

(* Once nothing is on its way for a listed entry it is shown as OK, and    *)
(* the device has it, with that handle, key, action and data; unless the   *)
(* device refused a command for it, and then it is never shown as OK:      *)
(* however commands and results of other entries, of entries deleted       *)
(* before and of handles used again come in between.                       *)
EntriesSettle ==
  \A t \in Tables : \A e \in getAllTableEntries(t) :
    ~InFlight(t, e) =>
      IF <<t, e.match_key>> \in refused THEN e.status # "OK"
      ELSE /\ e.status = "OK" /\ e.handle \in DOMAIN device[t]
           /\ device[t][e.handle] = Content(e)

(* pfpdb never hides an entry that the device has: it is listed before the *)
(* device gets it, and until the device has deleted it.                    *)
NoneHidden ==
  \A t \in Tables : \A h \in DOMAIN device[t] :
    \E e \in getAllTableEntries(t) :
      /\ e.handle \in {h, NoHandle} /\ e.match_key = device[t][h].match_key

(* A handle names one listed entry, although the device gives handles out  *)
(* again: the next modify or delete from pfpdb is for the entry it shows.  *)
HandlesUnique ==
  \A t \in Tables : \A a, b \in DOMAIN table_entries[t] :
    \A i \in DOMAIN table_entries[t][a], j \in DOMAIN table_entries[t][b] :
      LET h == table_entries[t][a][i].handle
      IN  h = table_entries[t][b][j].handle /\ h # NoHandle => a = b /\ i = j

(* A key resized to the width of its field keeps its number, as far as     *)
(* that fits, whether it is cut or grows, unless the user takes the        *)
(* liberty "narrow growth", which loses it.                                *)
NumberKept ==
  \A c \in ToSet(commands) : c.kind = "insert" =>
    Number(c.match_key) = c.literal[1] % Power(c.literal[2])
=============================================================================
