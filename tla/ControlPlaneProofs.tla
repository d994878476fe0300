------------------------- MODULE ControlPlaneProofs --------------------------
(***************************************************************************)
(* Proofs about ControlPlane, for every set of tables, actions, data, keys *)
(* and handles and every bound: the list that pfpdb shows has the right    *)
(* types whatever user and device do, and follows the device when the user *)
(* takes none of the liberties that lead it astray; and that the keys of   *)
(* commands are the numbers typed.                                         *)
(***************************************************************************)
EXTENDS ControlPlane, ListLemmas

(* How keys are extended makes no difference here.                         *)
Orderly == Liberties \subseteq {"narrow growth"}

Keys == {NoKey} \cup {Resized(Decimal(text[1]), text[2]) : text \in Literals}
Stati == {"OK", "INSERTING", "DELETING", "MODIFYING"}
EntryType ==
  [match_key : Keys, action_name : Actions, action_data : Data,
   handle : Handles \cup {NoHandle}, status : Stati]
RowType == [match_key : Keys, action_name : Actions, action_data : Data]
CommandType ==
  [kind : {"insert", "modify", "delete", "failed"}, table : Tables,
   match_key : Keys, action : Actions, data : Data,
   handle : Handles \cup {NoHandle}, literal : Literals \cup {NoText}]

Under(a) == {e \in EntryType : e.action_name = a}

(* the lists of one table                                                  *)
Lists(T) ==
  /\ DOMAIN T \subseteq Actions /\ T = [a \in DOMAIN T |-> T[a]]
  /\ \A a \in DOMAIN T : T[a] \in Seq(Under(a))

TablesTyped ==
  /\ table_entries = [t \in Tables |-> table_entries[t]]
  /\ \A t \in Tables : Lists(table_entries[t])

DeviceTyped ==
  /\ device = [t \in Tables |-> device[t]]
  /\ \A t \in Tables : /\ DOMAIN device[t] \subseteq Handles
                       /\ device[t] \in [DOMAIN device[t] -> RowType]
  /\ refused \subseteq Tables \X Keys

RestTyped ==
  /\ commands \in Seq(CommandType) /\ Len(commands) <= MaxInFlight
  /\ results \in Seq(CommandType) /\ Len(results) <= MaxInFlight
  /\ DeviceTyped /\ status \in {"running", "undefined"}

Types == TablesTyped /\ RestTyped
-----------------------------------------------------------------------------
(* The inductive invariant.  It speaks of the sets E[t] of the entries of  *)
(* the tables, of the line Q of what is on its way, oldest first, of which *)
(* the first N are results, of what the device holds, D, and of what it    *)
(* refused, R.                                                             *)

(* c is for the entry with handle h                                        *)
For(c, t, h) == c.table = t /\ c.kind # "insert" /\ c.handle = h
Inserts(c, t, k) == c.table = t /\ c.kind = "insert" /\ c.match_key = k
Deletes(c, t, h) == For(c, t, h) /\ c.kind = "delete"
Modifies(c, t, h) == For(c, t, h) /\ c.kind = "modify"

Line(Q) == 1 .. Len(Q)

(* a handle names one entry, a key one that stays                          *)
Named(E) ==
  \A t \in Tables : \A e, f \in E[t] :
    /\ e.handle = f.handle /\ e.handle # NoHandle => e = f
    /\ /\ e.match_key = f.match_key
       /\ e.status # "DELETING" /\ f.status # "DELETING"
       => e = f

(* what the status of entry e of table t stands for                        *)
EntryStands(e, t, Q, D, R) ==
  /\ e.status = "INSERTING" <=> e.handle = NoHandle
  /\ e.status = "INSERTING" /\ <<t, e.match_key>> \notin R =>
       \E n \in Line(Q) : Inserts(Q[n], t, e.match_key)
  /\ e.status = "OK" =>
       /\ e.handle \in DOMAIN D[t] /\ D[t][e.handle] = Content(e)
       /\ <<t, e.match_key>> \notin R
       /\ \A n \in Line(Q) : ~For(Q[n], t, e.handle)
  /\ e.status = "MODIFYING" =>
       /\ e.handle \in DOMAIN D[t]
       /\ D[t][e.handle].match_key = e.match_key
       /\ <<t, e.match_key>> \notin R =>
            \E n \in Line(Q) : Modifies(Q[n], t, e.handle)
  /\ e.status = "DELETING" => \E n \in Line(Q) : Deletes(Q[n], t, e.handle)

Stands(E, Q, D, R) ==
  \A t \in Tables : \A e \in E[t] : EntryStands(e, t, Q, D, R)

(* e is the entry that insert c asks for                                   *)
Asked(e, c) ==
  /\ e.match_key = c.match_key /\ e.action_name = c.action
  /\ e.action_data = c.data /\ e.handle = NoHandle /\ e.status = "INSERTING"

(* An insert in the line has its entry.  Other entries with its key, or    *)
(* with the handle that the device gave it, are deleted ahead of it.       *)
InsertStands(n, t, E, Q, N, D, R) ==
  /\ \E e \in E[t] : Asked(e, Q[n])
  /\ <<t, Q[n].match_key>> \notin R
  /\ n <= N => /\ Q[n].handle \in DOMAIN D[t]
               /\ D[t][Q[n].handle] = Row(Q[n], Q[n].match_key)
  /\ ~(n <= N) => Q[n].handle = NoHandle
  /\ \A e \in E[t] :
       \/ e.match_key = Q[n].match_key /\ e.status # "INSERTING"
       \/ n <= N /\ e.handle = Q[n].handle
       => \E m \in 1 .. n - 1 : Deletes(Q[m], t, e.handle)

InsertsStand(E, Q, N, D, R) ==
  \A n \in Line(Q) : Q[n].kind = "insert" =>
    InsertStands(n, Q[n].table, E, Q, N, D, R)

ModifyStands(n, t, E, Q, N, D, R) ==
  \E e \in E[t] :
    /\ e.handle = Q[n].handle /\ e.status = "MODIFYING"
    /\ e.action_name = Q[n].action /\ e.action_data = Q[n].data
    /\ <<t, e.match_key>> \notin R
    /\ n <= N => D[t][e.handle] = Content(e)

ModifiesStand(E, Q, N, D, R) ==
  \A n \in Line(Q) : Q[n].kind = "modify" =>
    ModifyStands(n, Q[n].table, E, Q, N, D, R)

DeletesStand(E, Q, N, D) ==
  \A n \in Line(Q) : Q[n].kind = "delete" =>
    \E e \in E[Q[n].table] :
      /\ e.handle = Q[n].handle /\ e.status = "DELETING"
      /\ n > N => /\ e.handle \in DOMAIN D[Q[n].table]
                  /\ D[Q[n].table][e.handle].match_key = e.match_key

FailuresStand(E, Q, N) ==
  \A n \in Line(Q) : Q[n].kind = "failed" =>
    /\ n <= N
    /\ \/ Q[n].handle = NoHandle
       \/ \E e \in E[Q[n].table] :
            e.handle = Q[n].handle /\ e.status = "MODIFYING"

(* one command at a time for an entry, one insert for a key or a handle    *)
OneEach(Q, N) ==
  \A n, m \in Line(Q) :
    /\ Q[n].table = Q[m].table
    /\ \/ /\ Q[n].kind # "insert" /\ Q[m].kind # "insert"
          /\ Q[n].handle = Q[m].handle /\ Q[n].handle # NoHandle
       \/ /\ Q[n].kind = "insert" /\ Q[m].kind = "insert"
          /\ \/ Q[n].match_key = Q[m].match_key
             \/ n <= N /\ m <= N /\ Q[n].handle = Q[m].handle
    => n = m

(* what the device holds is listed, or about to get its handle             *)
IsHeld(h, t, E, Q, N, D) ==
  \/ /\ \E e \in E[t] : e.handle = h /\ e.match_key = D[t][h].match_key
     /\ \A n \in 1 .. N : ~Deletes(Q[n], t, h)
  \/ \E n \in 1 .. N : Inserts(Q[n], t, D[t][h].match_key) /\ Q[n].handle = h

Held(E, Q, N, D) ==
  \A t \in Tables : \A h \in DOMAIN D[t] : IsHeld(h, t, E, Q, N, D)

(* a key that was refused is not free again                                *)
Refusals(E, R) ==
  \A t \in Tables, k \in Keys : <<t, k>> \in R =>
    \E e \in E[t] : e.match_key = k /\ e.status \in {"INSERTING", "MODIFYING"}

Ledger(E, Q, N, D, R) ==
  /\ Named(E) /\ Stands(E, Q, D, R)
  /\ InsertsStand(E, Q, N, D, R) /\ ModifiesStand(E, Q, N, D, R)
  /\ DeletesStand(E, Q, N, D) /\ FailuresStand(E, Q, N)
  /\ OneEach(Q, N) /\ Held(E, Q, N, D) /\ Refusals(E, R)

(* no entry is listed twice                                                *)
Once(T) ==
  \A a, b \in DOMAIN T : \A i \in DOMAIN T[a], j \in DOMAIN T[b] :
    T[a][i] = T[b][j] => a = b /\ i = j

Entered == [t \in Tables |-> getAllTableEntries(t)]
OnTheWay == results \o commands

(* The inductive invariant behind EntriesSettle, NoneHidden, HandlesUnique.*)
ControlInv ==
  /\ Types /\ \A t \in Tables : Once(table_entries[t])
  /\ Ledger(Entered, OnTheWay, Len(results), device, refused)
-----------------------------------------------------------------------------
(* Lemmas about one list. *)

(* The first entry of a list that is looked for.                           *)
LEMMA FirstOfHandle ==
  ASSUME NEW S, NEW list \in Seq(S), NEW h
  PROVE  LET i == SelectInSeq(list, LAMBDA e : e.handle = h) IN
         \/ i = 0 /\ \A j \in 1 .. Len(list) : list[j].handle # h
         \/ i \in 1 .. Len(list) /\ list[i].handle = h
<1> DEFINE I == {j \in 1 .. Len(list) : list[j].handle = h}
           i == SelectInSeq(list, LAMBDA e : e.handle = h)
<1>1. i = IF I # {} THEN Min(I) ELSE 0
  BY DEF SelectInSeq
<1>2. I # {} => Min(I) \in I
  <2>1. I \subseteq Nat
    BY LenProperties
  <2> QED
    BY <2>1, MinIsFirst
<1> QED
  BY <1>1, <1>2

(* The same for the first entry with a key.                                *)
LEMMA FirstOfKey ==
  ASSUME NEW S, NEW list \in Seq(S), NEW k
  PROVE  LET i == SelectInSeq(list, LAMBDA e : e.match_key = k) IN
         \/ i = 0 /\ \A j \in 1 .. Len(list) : list[j].match_key # k
         \/ i \in 1 .. Len(list) /\ list[i].match_key = k
<1> DEFINE I == {j \in 1 .. Len(list) : list[j].match_key = k}
           i == SelectInSeq(list, LAMBDA e : e.match_key = k)
<1>1. i = IF I # {} THEN Min(I) ELSE 0
  BY DEF SelectInSeq
<1>2. I # {} => Min(I) \in I
  <2>1. I \subseteq Nat
    BY LenProperties
  <2> QED
    BY <2>1, MinIsFirst
<1> QED
  BY <1>1, <1>2

(* What EXCEPT does to one place of a list.                                *)
LEMMA Replaced ==
  ASSUME NEW S, NEW list \in Seq(S), NEW i \in 1 .. Len(list), NEW e \in S
  PROVE  /\ [list EXCEPT ![i] = e] \in Seq(S)
         /\ Len([list EXCEPT ![i] = e]) = Len(list)
         /\ \A j \in 1 .. Len(list) :
              [list EXCEPT ![i] = e][j] = IF j = i THEN e ELSE list[j]
BY ExceptSeq, LenProperties

(* Marking an entry changes its status only.                               *)
LEMMA MarkedList ==
  ASSUME NEW a, NEW list \in Seq(Under(a)), NEW h, NEW s \in Stati
  PROVE  /\ Marked(list, h, s) \in Seq(Under(a))
         /\ \/ /\ Marked(list, h, s) = list
               /\ \A j \in 1 .. Len(list) : list[j].handle # h
            \/ \E i \in 1 .. Len(list) :
                 /\ list[i].handle = h
                 /\ Len(Marked(list, h, s)) = Len(list)
                 /\ \A j \in 1 .. Len(list) :
                      Marked(list, h, s)[j] =
                        IF j = i THEN [list[i] EXCEPT !.status = s]
                        ELSE list[j]
<1> DEFINE i == SelectInSeq(list, LAMBDA e : e.handle = h)
<1>1. \/ i = 0 /\ \A j \in 1 .. Len(list) : list[j].handle # h
      \/ i \in 1 .. Len(list) /\ list[i].handle = h
  BY FirstOfHandle
<1>2. Marked(list, h, s) =
        IF i = 0 THEN list ELSE [list EXCEPT ![i].status = s]
  BY DEF Marked
<1> HIDE DEF i
<1>3. CASE i = 0 /\ \A j \in 1 .. Len(list) : list[j].handle # h
  BY <1>2, <1>3
<1>4. CASE i \in 1 .. Len(list) /\ list[i].handle = h
  <2>1. i # 0 /\ Len(list) \in Nat
    BY <1>4, LenProperties
  <2>2. list[i] \in Under(a)
    BY <1>4, ElementOfSeq
  <2> DEFINE e == [list[i] EXCEPT !.status = s]
  <2>3. e \in Under(a)
    BY <2>2 DEF Under, EntryType
  <2>4. Marked(list, h, s) = [list EXCEPT ![i] = e]
    BY <1>2, <2>1
  <2> HIDE DEF e
  <2>5. /\ [list EXCEPT ![i] = e] \in Seq(Under(a))
        /\ Len([list EXCEPT ![i] = e]) = Len(list)
        /\ \A j \in 1 .. Len(list) :
             [list EXCEPT ![i] = e][j] = IF j = i THEN e ELSE list[j]
    BY <1>4, <2>3, Replaced
  <2> QED
    BY <1>4, <2>4, <2>5 DEF e
<1> QED
  BY <1>1, <1>3, <1>4

(* What is left without the first entry of a handle.                       *)
LEMMA WithoutList ==
  ASSUME NEW a, NEW list \in Seq(Under(a)), NEW h
  PROVE  /\ Without(list, h) \in Seq(Under(a))
         /\ \/ /\ Without(list, h) = list
               /\ \A j \in 1 .. Len(list) : list[j].handle # h
            \/ \E i \in 1 .. Len(list) :
                 /\ list[i].handle = h
                 /\ Len(Without(list, h)) = Len(list) - 1
                 /\ \A j \in 1 .. Len(list) - 1 :
                      Without(list, h)[j] =
                        IF j < i THEN list[j] ELSE list[j + 1]
<1> DEFINE i == SelectInSeq(list, LAMBDA e : e.handle = h)
<1>1. \/ i = 0 /\ \A j \in 1 .. Len(list) : list[j].handle # h
      \/ i \in 1 .. Len(list) /\ list[i].handle = h
  BY FirstOfHandle
<1>2. Without(list, h) =
        IF \E j \in 1 .. Len(list) : list[j].handle = h
        THEN RemoveAt(list, i) ELSE list
  BY DEF Without, RemoveFirstMatch
<1> HIDE DEF i
<1>3. CASE i = 0 /\ \A j \in 1 .. Len(list) : list[j].handle # h
  BY <1>2, <1>3
<1>4. CASE i \in 1 .. Len(list) /\ list[i].handle = h
  <2>1. Without(list, h) = RemoveAt(list, i)
    BY <1>2, <1>4
  <2> QED
    BY <1>4, <2>1, RemovedAt, ZenonT(30)
<1> QED
  BY <1>1, <1>3, <1>4
-----------------------------------------------------------------------------
(* Types, whatever user and device do. *)

(* A table stays a table when the list of one action is set.               *)
LEMMA WithList ==
  ASSUME NEW T, Lists(T), NEW a \in Actions, NEW list \in Seq(Under(a))
  PROVE  Lists(With(T, a, list))
BY DEF Lists, With

(* The list of an action, empty when the action has none, is a list.       *)
LEMMA EntriesList ==
  ASSUME Types, NEW t \in Tables, NEW a \in Actions
  PROVE  Entries(t, a) \in Seq(Under(a))
BY EmptySeq DEF Types, TablesTyped, Lists, Entries

(* Setting the list of an action keeps the lists typed.                    *)
LEMMA SetEntriesTypes ==
  ASSUME Types, NEW t \in Tables, NEW a \in Actions,
         NEW list \in Seq(Under(a)), SetEntries(t, a, list)
  PROVE  TablesTyped'
<1>1. Lists(With(table_entries[t], a, list))
  BY WithList DEF Types, TablesTyped
<1> QED
  BY <1>1 DEF Types, TablesTyped, SetEntries

(* So does marking an entry of each list.                                  *)
LEMMA MarkAllTypes ==
  ASSUME Types, NEW t \in Tables, NEW h, NEW s \in Stati, MarkAll(t, h, s)
  PROVE  TablesTyped'
<1> DEFINE T == table_entries[t]
           T2 == [a \in DOMAIN T |-> Marked(T[a], h, s)]
<1>1. table_entries' = [table_entries EXCEPT ![t] = T2]
  BY DEF MarkAll
<1>2. Lists(T)
  BY DEF Types, TablesTyped
<1>3. Lists(T2)
  BY <1>2, MarkedList DEF Lists
<1> HIDE DEF T2
<1> QED
  BY <1>1, <1>3 DEF Types, TablesTyped

(* So does dropping the deleted entry.                                     *)
LEMMA ConfirmDeleteTypes ==
  ASSUME Types, NEW t \in Tables, NEW h, confirmDeleteEntry(t, h)
  PROVE  TablesTyped' /\ status' \in {"running", "undefined"}
<1> DEFINE T == table_entries[t]
           left == [a \in DOMAIN T |-> Without(T[a], h)]
           empty == {a \in DOMAIN left :
                       left[a] = <<>> /\ Entries(t, a) # <<>>}
           T2 == Restrict(left, DOMAIN left \ empty)
<1>1. /\ table_entries' = [table_entries EXCEPT ![t] = T2]
      /\ status' \in IF empty = {} THEN {status} ELSE {status, "undefined"}
  BY DEF confirmDeleteEntry
<1>2. Lists(T)
  BY DEF Types, TablesTyped
<1>3. Lists(left)
  BY <1>2, WithoutList DEF Lists
<1>4. Lists(T2)
  <2> HIDE DEF left
  <2> QED
    BY <1>3 DEF Lists, Restrict
<1> HIDE DEF T2
<1> QED
  BY <1>1, <1>4 DEF Types, RestTyped, TablesTyped

(* an entry with its handle, and one with new data                         *)
Handled(e, h) == [e EXCEPT !.handle = h, !.status = "OK"]
Renewed(e, d) == [e EXCEPT !.action_data = d, !.status = "MODIFYING"]

(* updateHandle changes the first entry with the key, if there is one.     *)
LEMMA HandleFinds ==
  ASSUME Types, NEW t \in Tables, NEW k, NEW a \in Actions,
         NEW h \in Handles \cup {NoHandle}, updateHandle(t, k, a, h)
  PROVE  \/ /\ \A j \in 1 .. Len(Entries(t, a)) :
                 Entries(t, a)[j].match_key # k
            /\ UNCHANGED table_entries
         \/ \E new \in Seq(Under(a)) : \E i \in 1 .. Len(Entries(t, a)) :
              /\ SetEntries(t, a, new) /\ Entries(t, a)[i].match_key = k
              /\ Len(new) = Len(Entries(t, a))
              /\ \A j \in 1 .. Len(Entries(t, a)) :
                   new[j] = IF j = i THEN Handled(Entries(t, a)[i], h)
                            ELSE Entries(t, a)[j]
<1> DEFINE list == Entries(t, a)
           i == SelectInSeq(list, LAMBDA e : e.match_key = k)
<1>1. list \in Seq(Under(a))
  BY EntriesList
<1>2. IF i = 0 THEN UNCHANGED table_entries
      ELSE SetEntries(t, a, [list EXCEPT ![i].handle = h, ![i].status = "OK"])
  BY DEF updateHandle
<1> HIDE DEF list
<1>3. \/ i = 0 /\ \A j \in 1 .. Len(list) : list[j].match_key # k
      \/ i \in 1 .. Len(list) /\ list[i].match_key = k
  BY <1>1, FirstOfKey
<1> HIDE DEF i
<1>4. CASE i = 0
  BY <1>1, <1>2, <1>3, <1>4, LenProperties DEF list
<1>5. CASE i # 0
  <2>1. i \in 1 .. Len(list) /\ list[i] \in Under(a) /\ list[i].match_key = k
    BY <1>1, <1>3, <1>5, ElementOfSeq
  <2> DEFINE e == [list[i] EXCEPT !.handle = h, !.status = "OK"]
             new == [list EXCEPT ![i] = e]
  <2>2. e \in Under(a) /\ e = Handled(list[i], h)
    BY <2>1 DEF Under, EntryType, Stati, Handled
  <2>3. [list EXCEPT ![i].handle = h, ![i].status = "OK"] = new
    BY <1>1, <2>1
  <2> HIDE DEF e
  <2>4. /\ new \in Seq(Under(a)) /\ Len(new) = Len(list)
        /\ \A j \in 1 .. Len(list) : new[j] = IF j = i THEN e ELSE list[j]
    BY <1>1, <2>1, <2>2, Replaced
  <2>5. SetEntries(t, a, new)
    BY <1>2, <1>5, <2>3
  <2> HIDE DEF new
  <2> QED
    BY <2>1, <2>2, <2>4, <2>5 DEF list
<1> QED
  BY <1>4, <1>5

(* So does giving an inserted entry its handle.                            *)
LEMMA UpdateHandleTypes ==
  ASSUME Types, NEW t \in Tables, NEW k, NEW a \in Actions,
         NEW h \in Handles \cup {NoHandle}, updateHandle(t, k, a, h)
  PROVE  TablesTyped'
<1>1. \/ UNCHANGED table_entries
      \/ \E new \in Seq(Under(a)) : SetEntries(t, a, new)
  BY HandleFinds
<1> QED
  BY <1>1, SetEntriesTypes DEF Types, TablesTyped

(* updateTableEntry changes the first entry with the handle, likewise.     *)
LEMMA UpdateFinds ==
  ASSUME Types, NEW t \in Tables, NEW h, NEW a \in Actions, NEW d \in Data,
         updateTableEntry(t, h, a, d)
  PROVE  \E new \in Seq(Under(a)) :
           /\ SetEntries(t, a, new)
           /\ \/ \A j \in 1 .. Len(Entries(t, a)) : Entries(t, a)[j].handle # h
              \/ \E i \in 1 .. Len(Entries(t, a)) :
                   /\ Entries(t, a)[i].handle = h
                   /\ Len(new) = Len(Entries(t, a))
                   /\ \A j \in 1 .. Len(Entries(t, a)) :
                        new[j] = IF j = i THEN Renewed(Entries(t, a)[i], d)
                                 ELSE Entries(t, a)[j]
<1> DEFINE list == Entries(t, a)
           i == SelectInSeq(list, LAMBDA e : e.handle = h)
<1>1. list \in Seq(Under(a))
  BY EntriesList
<1>2. SetEntries(t, a, IF i = 0 THEN list
                       ELSE [list EXCEPT ![i].action_data = d,
                                         ![i].status = "MODIFYING"])
  BY DEF updateTableEntry
<1> HIDE DEF list
<1>3. \/ i = 0 /\ \A j \in 1 .. Len(list) : list[j].handle # h
      \/ i \in 1 .. Len(list) /\ list[i].handle = h
  BY <1>1, FirstOfHandle
<1> HIDE DEF i
<1>4. CASE i = 0
  <2>1. SetEntries(t, a, list) /\ \A j \in 1 .. Len(list) : list[j].handle # h
    BY <1>1, <1>2, <1>3, <1>4, LenProperties
  <2> QED
    BY <1>1, <2>1 DEF list
<1>5. CASE i # 0
  <2>1. i \in 1 .. Len(list) /\ list[i] \in Under(a) /\ list[i].handle = h
    BY <1>1, <1>3, <1>5, ElementOfSeq
  <2> DEFINE e == [list[i] EXCEPT !.action_data = d, !.status = "MODIFYING"]
             new == [list EXCEPT ![i] = e]
  <2>2. e \in Under(a) /\ e = Renewed(list[i], d)
    BY <2>1 DEF Under, EntryType, Stati, Renewed
  <2>3. [list EXCEPT ![i].action_data = d, ![i].status = "MODIFYING"] = new
    BY <1>1, <2>1
  <2> HIDE DEF e
  <2>4. /\ new \in Seq(Under(a)) /\ Len(new) = Len(list)
        /\ \A j \in 1 .. Len(list) : new[j] = IF j = i THEN e ELSE list[j]
    BY <1>1, <2>1, <2>2, Replaced
  <2>5. SetEntries(t, a, new)
    BY <1>2, <1>5, <2>3
  <2> HIDE DEF new
  <2> QED
    BY <2>1, <2>2, <2>4, <2>5 DEF list
<1> QED
  BY <1>4, <1>5

(* So does giving an entry new data.                                       *)
LEMMA UpdateTableEntryTypes ==
  ASSUME Types, NEW t \in Tables, NEW h, NEW a \in Actions, NEW d \in Data,
         updateTableEntry(t, h, a, d)
  PROVE  TablesTyped'
BY UpdateFinds, SetEntriesTypes

(* an entry of the list, as the user picks it                              *)
LEMMA EntryTyped ==
  ASSUME Types, NEW t \in Tables, NEW e \in getAllTableEntries(t)
  PROVE  e \in EntryType
<1>1. PICK a \in DOMAIN table_entries[t] : e \in ToSet(table_entries[t][a])
  BY DEF getAllTableEntries
<1>2. table_entries[t][a] \in Seq(Under(a))
  BY DEF Types, TablesTyped, Lists
<1>3. PICK i \in DOMAIN table_entries[t][a] : e = table_entries[t][a][i]
  BY <1>1 DEF ToSet
<1> QED
  BY <1>2, <1>3, ElementOfSeq, LenProperties DEF Under

(* A command that is issued leaves the rest of the state typed.            *)
LEMMA IssueTypes ==
  ASSUME Types, NEW c \in CommandType, Issue(c)
  PROVE  /\ commands' \in Seq(CommandType) /\ Len(commands') <= MaxInFlight
         /\ Len(commands') = Len(commands) + 1
         /\ commands'[Len(commands) + 1] = c
         /\ \A i \in 1 .. Len(commands) : commands'[i] = commands[i]
<1>1. /\ commands' = Append(commands, c) /\ Len(commands) < MaxInFlight
      /\ commands \in Seq(CommandType)
  BY DEF Issue, Types, RestTyped
<1>2. MaxInFlight \in Nat /\ Len(commands) \in Nat
  BY <1>1, LenProperties, ControlPlaneAssumption
<1> QED
  BY <1>1, <1>2, AppendProperties

(* So does the answer of the device to a command.                          *)
LEMMA AnswerTypes ==
  ASSUME Types, NEW c \in CommandType, Answer(c)
  PROVE  /\ commands' \in Seq(CommandType) /\ Len(commands') <= MaxInFlight
         /\ results' \in Seq(CommandType) /\ Len(results') <= MaxInFlight
<1>1. /\ results' = Append(results, c) /\ Len(results) < MaxInFlight
      /\ commands' = Tail(commands) /\ commands # <<>>
      /\ commands \in Seq(CommandType) /\ Len(commands) <= MaxInFlight
      /\ results \in Seq(CommandType)
  BY DEF Answer, Types, RestTyped
<1>2. MaxInFlight \in Nat /\ Len(commands) \in Nat /\ Len(results) \in Nat
  BY <1>1, LenProperties, ControlPlaneAssumption
<1>3. results' \in Seq(CommandType) /\ Len(results') <= MaxInFlight
  BY <1>1, <1>2, AppendProperties
<1>4. commands' \in Seq(CommandType) /\ Len(commands') = Len(commands) - 1
  BY <1>1, HeadTailProperties
<1> QED
  BY <1>1, <1>2, <1>3, <1>4

(* The insert command of pfpdb keeps the types.                            *)
LEMMA InsertTypes ==
  ASSUME Types, NEW t \in Tables, NEW text \in Literals, NEW a \in Actions,
         NEW d \in Data, InsertCommand(t, text, a, d)
  PROVE  Types'
<1> DEFINE k == Resized(Decimal(text[1]), text[2])
           c == Command("insert", t, k, a, d, NoHandle, text)
           e == TableEntry(k, a, d, NoHandle, "INSERTING")
<1>1. /\ Issue(c) /\ addTableEntry(t, k, a, d)
      /\ status' \in {status, "undefined"}
  BY DEF InsertCommand
<1>2. k \in Keys
  BY DEF Keys
<1> HIDE DEF k
<1>3. c \in CommandType
  BY <1>2 DEF CommandType, Command
<1>4. e \in Under(a)
  BY <1>2 DEF Under, EntryType, TableEntry, Stati
<1>5. TablesTyped'
  <2>1. SetEntries(t, a, Append(Entries(t, a), e))
    BY <1>1 DEF addTableEntry
  <2> HIDE DEF e
  <2>2. Append(Entries(t, a), e) \in Seq(Under(a))
    BY <1>4, EntriesList, AppendProperties
  <2> QED
    BY <2>1, <2>2, SetEntriesTypes
<1> HIDE DEF c
<1>6. RestTyped'
  BY <1>1, <1>3, IssueTypes DEF Issue, Types, DeviceTyped, RestTyped
<1> QED
  BY <1>5, <1>6 DEF Types

(* The modify command keeps the types.                                     *)
LEMMA ModifyTypes ==
  ASSUME Types, NEW t \in Tables, NEW a \in Actions, NEW d \in Data,
         NEW e \in getAllTableEntries(t), ModifyCommand(t, e, a, d)
  PROVE  Types'
<1> DEFINE c == Command("modify", t, NoKey, a, d, e.handle, NoText)
<1>1. Issue(c) /\ updateTableEntry(t, e.handle, a, d) /\ UNCHANGED status
  BY DEF ModifyCommand
<1>2. c \in CommandType
  BY EntryTyped DEF CommandType, Command, Keys, EntryType
<1>3. TablesTyped'
  BY <1>1, UpdateTableEntryTypes
<1> HIDE DEF c
<1>4. RestTyped'
  BY <1>1, <1>2, IssueTypes DEF Issue, Types, DeviceTyped, RestTyped
<1> QED
  BY <1>3, <1>4 DEF Types

(* The delete command keeps the types.                                     *)
LEMMA DeleteTypes ==
  ASSUME Types, NEW t \in Tables, NEW e \in getAllTableEntries(t),
         DeleteCommand(t, e)
  PROVE  Types'
<1> DEFINE c == Command("delete", t, NoKey, e.action_name, e.action_data,
                        e.handle, NoText)
<1>1. Issue(c) /\ MarkAll(t, e.handle, "DELETING") /\ UNCHANGED status
  BY DEF DeleteCommand, deleteTableEntry
<1>2. c \in CommandType
  BY EntryTyped DEF CommandType, Command, Keys, EntryType
<1>3. TablesTyped'
  BY <1>1, MarkAllTypes DEF Stati
<1> HIDE DEF c
<1>4. RestTyped'
  BY <1>1, <1>2, IssueTypes DEF Issue, Types, DeviceTyped, RestTyped
<1> QED
  BY <1>3, <1>4 DEF Types

(* The device keeps the types, whichever command it executes and whether   *)
(* it accepts or refuses it.                                               *)
LEMMA ExecuteTypes ==
  ASSUME Types, Execute PROVE Types'
<1> DEFINE c == Head(commands)
           rows == device[c.table]
           known == c.handle \in DOMAIN rows
<1>1. c \in CommandType
  BY HeadTailProperties, Zenon DEF Types, RestTyped, Execute
<1>2. /\ c.table \in Tables /\ DOMAIN rows \subseteq Handles
      /\ rows \in [DOMAIN rows -> RowType]
      /\ \A h \in DOMAIN rows : rows[h] \in RowType
  BY <1>1 DEF Types, RestTyped, DeviceTyped, CommandType
<1>3. \A k \in Keys : Row(c, k) \in RowType
  BY <1>1, SMTT(30) DEF Row, RowType, CommandType
<1>4. \E r \in CommandType : Answer(r) /\ DeviceTyped'
  <2>1. ASSUME NEW h \in Handles,
               device' = [device EXCEPT
                            ![c.table] = With(@, h, Row(c, c.match_key))],
               Answer([c EXCEPT !.handle = h]), UNCHANGED refused
        PROVE  \E r \in CommandType : Answer(r) /\ DeviceTyped'
    <3>1. [c EXCEPT !.handle = h] \in CommandType
      BY <1>1 DEF CommandType
    <3>2. c.match_key \in Keys
      BY <1>1 DEF CommandType
    <3> DEFINE new == With(rows, h, Row(c, c.match_key))
    <3>3. DOMAIN new \subseteq Handles /\ new \in [DOMAIN new -> RowType]
      BY <1>2, <1>3, <3>2 DEF With
    <3>4. device' = [device EXCEPT ![c.table] = new]
      BY <2>1
    <3> HIDE DEF new
    <3>5. DeviceTyped'
      BY <2>1, <1>2, <3>3, <3>4 DEF DeviceTyped, Types, RestTyped
    <3> QED
      BY <2>1, <3>1, <3>5
  <2>2. ASSUME known, Answer(c), UNCHANGED refused,
               device' = [device EXCEPT ![c.table][c.handle] =
                            Row(c, rows[c.handle].match_key)]
        PROVE  \E r \in CommandType : Answer(r) /\ DeviceTyped'
    <3>1. rows[c.handle].match_key \in Keys
      BY <1>2, <2>2 DEF RowType
    <3> DEFINE row == Row(c, rows[c.handle].match_key)
               new == [rows EXCEPT ![c.handle] = row]
    <3>2. row \in RowType
      BY <1>3, <3>1
    <3>3. device' = [device EXCEPT ![c.table] = new]
      BY <2>2
    <3> HIDE DEF row
    <3>4. DOMAIN new \subseteq Handles /\ new \in [DOMAIN new -> RowType]
      BY <1>2, <3>2, Zenon
    <3> HIDE DEF new
    <3>5. DeviceTyped'
      BY <2>2, <1>2, <3>3, <3>4, Zenon DEF DeviceTyped, Types, RestTyped
    <3> QED
      BY <2>2, <1>1, <3>5
  <2>3. ASSUME Answer(c), UNCHANGED refused,
               device' = [device EXCEPT
                           ![c.table] = Restrict(@, DOMAIN @ \ {c.handle})]
        PROVE  \E r \in CommandType : Answer(r) /\ DeviceTyped'
    <3> DEFINE new == Restrict(rows, DOMAIN rows \ {c.handle})
    <3>1. DOMAIN new \subseteq Handles /\ new \in [DOMAIN new -> RowType]
      BY <1>2 DEF Restrict
    <3>2. device' = [device EXCEPT ![c.table] = new]
      BY <2>3
    <3> HIDE DEF new
    <3>3. DeviceTyped'
      BY <2>3, <1>2, <3>1, <3>2 DEF DeviceTyped, Types, RestTyped
    <3> QED
      BY <2>3, <1>1, <3>3
  <2>4. ASSUME Answer([c EXCEPT !.kind = "failed"]), UNCHANGED device,
               refused' = refused \cup
                 {<<c.table, IF known THEN rows[c.handle].match_key
                             ELSE c.match_key>>}
        PROVE  \E r \in CommandType : Answer(r) /\ DeviceTyped'
    <3>1. [c EXCEPT !.kind = "failed"] \in CommandType
      BY <1>1 DEF CommandType
    <3>2. (IF known THEN rows[c.handle].match_key ELSE c.match_key) \in Keys
      BY <1>1, <1>2 DEF CommandType, RowType
    <3>3. refused' \subseteq Tables \X Keys
      BY <2>4, <1>2, <3>2 DEF Types, RestTyped, DeviceTyped
    <3>4. DeviceTyped'
      BY <2>4, <3>3 DEF DeviceTyped, Types, RestTyped
    <3> QED
      BY <2>4, <3>1, <3>4
  <2> QED
    BY <2>1, <2>2, <2>3, <2>4, Zenon DEF Execute
<1>5. PICK r \in CommandType : Answer(r) /\ DeviceTyped'
  BY <1>4
<1>6. UNCHANGED <<table_entries, status>>
  BY <1>5 DEF Answer
<1>7. TablesTyped'
  BY <1>6 DEF TablesTyped, Types
<1>8. RestTyped'
  BY <1>5, <1>6, AnswerTypes DEF RestTyped, Types
<1> QED
  BY <1>7, <1>8, SMTT(30) DEF Types

(* pfpdb keeps the types when it takes a result.                           *)
LEMMA AcceptTypes ==
  ASSUME Types, AcceptResult PROVE Types'
<1> DEFINE r == Head(results)
<1>1. /\ results # <<>> /\ results' = Tail(results)
      /\ UNCHANGED <<commands, device, refused>>
  BY DEF AcceptResult
<1>2. /\ r \in CommandType /\ results' \in Seq(CommandType)
      /\ Len(results') = Len(results) - 1
  BY <1>1, HeadTailProperties DEF Types, RestTyped
<1>3. Len(results') <= MaxInFlight
  BY <1>2, LenProperties, ControlPlaneAssumption DEF Types, RestTyped
<1>4. /\ r.table \in Tables /\ r.action \in Actions
      /\ r.handle \in Handles \cup {NoHandle}
  BY <1>2 DEF CommandType
<1>5. TablesTyped' /\ status' \in {"running", "undefined"}
  <2>0. status \in {"running", "undefined"} /\ TablesTyped
    BY DEF Types, RestTyped
  <2>1. ASSUME updateHandle(r.table, r.match_key, r.action, r.handle),
               UNCHANGED status
        PROVE  TablesTyped' /\ status' \in {"running", "undefined"}
    BY <2>0, <2>1, <1>4, UpdateHandleTypes
  <2>2. ASSUME confirmUpdateEntry(r.table, r.handle), UNCHANGED status
        PROVE  TablesTyped' /\ status' \in {"running", "undefined"}
    BY <2>0, <2>2, <1>4, MarkAllTypes DEF confirmUpdateEntry, Stati
  <2>3. ASSUME confirmDeleteEntry(r.table, r.handle)
        PROVE  TablesTyped' /\ status' \in {"running", "undefined"}
    BY <2>3, <1>4, ConfirmDeleteTypes
  <2>4. ASSUME UNCHANGED <<table_entries, status>>
        PROVE  TablesTyped' /\ status' \in {"running", "undefined"}
    BY <2>0, <2>4 DEF TablesTyped
  <2> QED
    BY <2>1, <2>2, <2>3, <2>4 DEF AcceptResult
<1>6. RestTyped'
  BY <1>1, <1>2, <1>3, <1>5 DEF RestTyped, Types, DeviceTyped
<1> QED
  BY <1>5, <1>6 DEF Types

(* Types holds of the initial states, and every step keeps it.             *)
LEMMA TypesInductive ==
  /\ Init => Types
  /\ Types /\ [Next]_vars => Types'
<1>1. Init => Types
  <2> SUFFICES ASSUME Init PROVE Types
    OBVIOUS
  <2>1. <<>> \in Seq(CommandType) /\ Len(<<>>) = 0 /\ DOMAIN <<>> = {}
    BY EmptySeq
  <2>2. MaxInFlight \in Nat
    BY ControlPlaneAssumption
  <2>3. TablesTyped
    BY <2>1 DEF Init, TablesTyped, Lists
  <2>4. RestTyped
    BY <2>1, <2>2 DEF Init, RestTyped, DeviceTyped
  <2> QED
    BY <2>3, <2>4 DEF Types
<1>2. Types /\ [Next]_vars => Types'
  <2> SUFFICES ASSUME Types, [Next]_vars PROVE Types'
    OBVIOUS
  <2>1. CASE UNCHANGED vars
    BY <2>1 DEF Types, TablesTyped, RestTyped, DeviceTyped, vars
  <2>2. CASE Next
    BY <2>2, InsertTypes, ModifyTypes, DeleteTypes, ExecuteTypes, AcceptTypes
       DEF Next
  <2> QED
    BY <2>1, <2>2
<1> QED
  BY <1>1, <1>2

(* The list of entries, the commands and results on their way and what the *)
(* device holds keep their types, whatever liberties user and device take. *)
THEOREM ControlTypes == Spec => []TypeOK
<1>1. Types => TypeOK
  <2> SUFFICES ASSUME Types PROVE TypeOK
    OBVIOUS
  <2>1. ASSUME NEW t \in Tables, NEW a \in DOMAIN table_entries[t],
               NEW i \in DOMAIN table_entries[t][a]
        PROVE  table_entries[t][a][i] \in Under(a)
    <3>1. table_entries[t][a] \in Seq(Under(a))
      BY DEF Types, TablesTyped, Lists
    <3> QED
      BY <3>1, ElementOfSeq, LenProperties
  <2> QED
    BY <2>1 DEF Types, TablesTyped, RestTyped, DeviceTyped, TypeOK, Lists,
                Under, EntryType, Stati
<1> QED
  BY <1>1, TypesInductive, PTL DEF Spec
-----------------------------------------------------------------------------
(* Lemmas about the lists of one table: the entries of a table as a set,   *)
(* when none is listed twice.                                              *)

EntriesOf(T) == UNION {ToSet(T[a]) : a \in DOMAIN T}

(* Every entry of a table is at a place of the list of its action, and     *)
(* only entries of the table are.                                          *)
LEMMA InLists ==
  ASSUME NEW T, Lists(T)
  PROVE  /\ \A a \in DOMAIN T :
              /\ DOMAIN T[a] = 1 .. Len(T[a]) /\ Len(T[a]) \in Nat
              /\ \A i \in 1 .. Len(T[a]) :
                   /\ T[a][i] \in EntriesOf(T) /\ T[a][i] \in EntryType
                   /\ T[a][i].action_name = a
         /\ \A e \in EntriesOf(T) :
              /\ e \in EntryType /\ e.action_name \in DOMAIN T
              /\ \E i \in 1 .. Len(T[e.action_name]) :
                   T[e.action_name][i] = e
<1>1. ASSUME NEW a \in DOMAIN T
      PROVE  /\ DOMAIN T[a] = 1 .. Len(T[a]) /\ Len(T[a]) \in Nat
             /\ \A i \in 1 .. Len(T[a]) :
                  T[a][i] \in EntryType /\ T[a][i].action_name = a
  <2>1. T[a] \in Seq(Under(a))
    BY DEF Lists
  <2> QED
    BY <2>1, LenProperties, ElementOfSeq DEF Under
<1>2. ASSUME NEW a \in DOMAIN T, NEW i \in 1 .. Len(T[a])
      PROVE  T[a][i] \in EntriesOf(T)
  BY <1>1 DEF EntriesOf, ToSet
<1>3. ASSUME NEW e \in EntriesOf(T)
      PROVE  /\ e \in EntryType /\ e.action_name \in DOMAIN T
             /\ \E i \in 1 .. Len(T[e.action_name]) : T[e.action_name][i] = e
  <2>1. PICK a \in DOMAIN T : e \in ToSet(T[a])
    BY DEF EntriesOf
  <2>2. PICK i \in 1 .. Len(T[a]) : e = T[a][i]
    BY <2>1, <1>1 DEF ToSet
  <2> QED
    BY <2>2, <1>1
<1> QED
  BY <1>1, <1>2, <1>3

(* An entry is added at the end of the list of its action.                 *)
LEMMA AddedEntry ==
  ASSUME NEW T, Lists(T), NEW a \in Actions, NEW e \in Under(a),
         NEW list, list = IF a \in DOMAIN T THEN T[a] ELSE <<>>
  PROVE  LET T2 == With(T, a, Append(list, e)) IN
         /\ Lists(T2) /\ EntriesOf(T2) = EntriesOf(T) \cup {e}
         /\ Once(T) /\ e \notin EntriesOf(T) => Once(T2)
<1> DEFINE T2 == With(T, a, Append(list, e))
<1>1. list \in Seq(Under(a))
  BY EmptySeq DEF Lists
<1>2. /\ Append(list, e) \in Seq(Under(a))
      /\ Len(Append(list, e)) = Len(list) + 1 /\ Len(list) \in Nat
      /\ Append(list, e)[Len(list) + 1] = e
      /\ \A i \in 1 .. Len(list) : Append(list, e)[i] = list[i]
  BY <1>1, AppendProperties, LenProperties
<1>3. Lists(T2)
  BY <1>2, WithList
<1>4. /\ DOMAIN T2 = DOMAIN T \cup {a} /\ T2[a] = Append(list, e)
      /\ \A b \in DOMAIN T : b # a => T2[b] = T[b]
  BY DEF With
<1> HIDE DEF T2
<1>5. a \notin DOMAIN T => Len(list) = 0
  BY EmptySeq
<1>6. ASSUME NEW x \in EntriesOf(T2) PROVE x \in EntriesOf(T) \cup {e}
  <2>1. x.action_name \in DOMAIN T2
    BY <1>3, InLists
  <2>2. PICK i \in 1 .. Len(T2[x.action_name]) : T2[x.action_name][i] = x
    BY <1>3, InLists
  <2>3. CASE x.action_name = a
    <3>1. CASE i = Len(list) + 1
      BY <2>2, <2>3, <3>1, <1>2, <1>4
    <3>2. CASE i # Len(list) + 1
      <4>1. i \in 1 .. Len(list) /\ x = list[i]
        BY <2>2, <2>3, <3>2, <1>2, <1>4
      <4>2. a \in DOMAIN T /\ T[a] = list
        BY <4>1, <1>5
      <4> QED
        BY <4>1, <4>2, InLists
    <3> QED
      BY <3>1, <3>2
  <2>4. CASE x.action_name # a
    <3>1. x.action_name \in DOMAIN T /\ T2[x.action_name] = T[x.action_name]
      BY <2>1, <2>4, <1>4
    <3> QED
      BY <2>2, <3>1, InLists
  <2> QED
    BY <2>3, <2>4
<1>7. e \in EntriesOf(T2)
  <2>1. Len(list) + 1 \in 1 .. Len(T2[a]) /\ T2[a][Len(list) + 1] = e
    BY <1>2, <1>4
  <2> QED
    BY <2>1, <1>3, <1>4, InLists
<1>8. ASSUME NEW x \in EntriesOf(T) PROVE x \in EntriesOf(T2)
  <2>1. x.action_name \in DOMAIN T
    BY InLists
  <2>2. PICK i \in 1 .. Len(T[x.action_name]) : T[x.action_name][i] = x
    BY InLists
  <2>3. CASE x.action_name = a
    <3>1. i \in 1 .. Len(T2[a]) /\ T2[a][i] = x
      BY <2>1, <2>2, <2>3, <1>2, <1>4
    <3> QED
      BY <3>1, <1>3, <1>4, InLists
  <2>4. CASE x.action_name # a
    <3>1. x.action_name \in DOMAIN T2 /\ T2[x.action_name] = T[x.action_name]
      BY <2>1, <2>4, <1>4
    <3> QED
      BY <2>2, <3>1, <1>3, InLists
  <2> QED
    BY <2>3, <2>4
<1>9. ASSUME Once(T), e \notin EntriesOf(T) PROVE Once(T2)
  <2> SUFFICES ASSUME NEW b \in DOMAIN T2, NEW c \in DOMAIN T2,
                      NEW i \in DOMAIN T2[b], NEW j \in DOMAIN T2[c],
                      T2[b][i] = T2[c][j]
               PROVE  b = c /\ i = j
    BY DEF Once
  <2>1. /\ i \in 1 .. Len(T2[b]) /\ j \in 1 .. Len(T2[c])
        /\ T2[b][i].action_name = b /\ T2[c][j].action_name = c
    BY <1>3, InLists
  <2>2. b = c
    BY <2>1
  <2>3. CASE b # a
    <3>1. b \in DOMAIN T /\ T2[b] = T[b]
      BY <2>3, <1>4
    <3> QED
      BY <2>2, <3>1, <1>9 DEF Once
  <2>4. CASE b = a
    <3>1. \A n \in 1 .. Len(list) : a \in DOMAIN T /\ list[n] = T[a][n]
                                    /\ n \in DOMAIN T[a] /\ list[n] # e
      <4>1. ASSUME NEW n \in 1 .. Len(list)
            PROVE  a \in DOMAIN T /\ list = T[a]
        BY <1>5
      <4> QED
        BY <4>1, <1>9, InLists
    <3>2. i \in 1 .. Len(list) + 1 /\ j \in 1 .. Len(list) + 1
      BY <2>1, <2>2, <2>4, <1>2, <1>4
    <3>3. CASE i \in 1 .. Len(list) /\ j \in 1 .. Len(list)
      BY <3>1, <3>3, <2>2, <2>4, <1>2, <1>4, <1>9 DEF Once
    <3>4. CASE i = Len(list) + 1 \/ j = Len(list) + 1
      BY <3>1, <3>2, <3>4, <2>2, <2>4, <1>2, <1>4
    <3> QED
      BY <3>2, <3>3, <3>4, <1>2
  <2> QED
    BY <2>2, <2>3, <2>4
<1> QED
  BY <1>3, <1>6, <1>7, <1>8, <1>9 DEF T2

(* T2 is T with the entry e changed to e2, in its place.                   *)
Changed(T, T2, e, e2) ==
  /\ DOMAIN T2 = DOMAIN T
  /\ \A a \in DOMAIN T :
       /\ Len(T2[a]) = Len(T[a])
       /\ \A i \in 1 .. Len(T[a]) :
            T2[a][i] = IF T[a][i] = e THEN e2 ELSE T[a][i]

(* Changing an entry in its place changes nothing else of the table, as a  *)
(* set, and still lists nothing twice.                                     *)
LEMMA ChangedEntry ==
  ASSUME NEW T, NEW T2, Lists(T), Lists(T2), Once(T),
         NEW e \in EntriesOf(T), NEW e2, e2 \notin EntriesOf(T),
         e2.action_name = e.action_name, Changed(T, T2, e, e2)
  PROVE  Once(T2) /\ EntriesOf(T2) = (EntriesOf(T) \ {e}) \cup {e2}
<1>1. ASSUME NEW x \in EntriesOf(T2)
      PROVE  x \in (EntriesOf(T) \ {e}) \cup {e2}
  <2>1. x.action_name \in DOMAIN T
    BY InLists DEF Changed
  <2>2. PICK i \in 1 .. Len(T2[x.action_name]) : T2[x.action_name][i] = x
    BY InLists
  <2>3. i \in 1 .. Len(T[x.action_name])
    BY <2>1, <2>2 DEF Changed
  <2> QED
    BY <2>1, <2>2, <2>3, InLists DEF Changed
<1>2. ASSUME NEW x \in EntriesOf(T)
      PROVE  (IF x = e THEN e2 ELSE x) \in EntriesOf(T2)
  <2>1. x.action_name \in DOMAIN T
    BY InLists
  <2>2. PICK i \in 1 .. Len(T[x.action_name]) : T[x.action_name][i] = x
    BY InLists
  <2>3. /\ x.action_name \in DOMAIN T2 /\ i \in 1 .. Len(T2[x.action_name])
        /\ T2[x.action_name][i] = IF x = e THEN e2 ELSE x
    BY <2>1, <2>2 DEF Changed
  <2> QED
    BY <2>3, InLists
<1>3. Once(T2)
  <2> SUFFICES ASSUME NEW b \in DOMAIN T2, NEW c \in DOMAIN T2,
                      NEW i \in DOMAIN T2[b], NEW j \in DOMAIN T2[c],
                      T2[b][i] = T2[c][j]
               PROVE  b = c /\ i = j
    BY DEF Once
  <2>1. /\ b \in DOMAIN T /\ i \in 1 .. Len(T[b]) /\ i \in DOMAIN T[b]
        /\ c \in DOMAIN T /\ j \in 1 .. Len(T[c]) /\ j \in DOMAIN T[c]
    BY InLists DEF Changed
  <2>2. /\ T2[b][i] = IF T[b][i] = e THEN e2 ELSE T[b][i]
        /\ T2[c][j] = IF T[c][j] = e THEN e2 ELSE T[c][j]
        /\ T[b][i] # e2 /\ T[c][j] # e2
    BY <2>1, InLists DEF Changed
  <2>3. T[b][i] = T[c][j]
    BY <2>2
  <2> QED
    BY <2>1, <2>3 DEF Once
<1> QED
  BY <1>1, <1>2, <1>3

(* T2 is T without the entry that is at i under a; an action whose list    *)
(* was or gets empty may be gone.                                          *)
Dropped(T, T2, a, i) ==
  /\ DOMAIN T2 \subseteq DOMAIN T
  /\ \A b \in DOMAIN T : b # a => IF b \in DOMAIN T2 THEN T2[b] = T[b]
                                  ELSE Len(T[b]) = 0
  /\ IF a \in DOMAIN T2
     THEN /\ Len(T2[a]) = Len(T[a]) - 1
          /\ \A j \in 1 .. Len(T[a]) - 1 :
               T2[a][j] = IF j < i THEN T[a][j] ELSE T[a][j + 1]
     ELSE Len(T[a]) = 1

(* Dropping the entry at a place takes it from the table and leaves the    *)
(* rest as it was.                                                         *)
LEMMA DroppedEntry ==
  ASSUME NEW T, NEW T2, Lists(T), Lists(T2), Once(T),
         NEW a \in DOMAIN T, NEW i \in 1 .. Len(T[a]), Dropped(T, T2, a, i)
  PROVE  Once(T2) /\ EntriesOf(T2) = EntriesOf(T) \ {T[a][i]}
<1>0. Len(T[a]) \in Nat /\ T[a][i].action_name = a /\ i \in DOMAIN T[a]
  BY InLists
(* where the entry at j under b was before                                 *)
<1> DEFINE Was(b, j) == IF b = a /\ ~(j < i) THEN j + 1 ELSE j
<1>1. ASSUME NEW b \in DOMAIN T2, NEW j \in 1 .. Len(T2[b])
      PROVE  /\ b \in DOMAIN T /\ Was(b, j) \in 1 .. Len(T[b])
             /\ Was(b, j) \in DOMAIN T[b]
             /\ T2[b][j] = T[b][Was(b, j)] /\ (b = a => Was(b, j) # i)
  <2>1. b \in DOMAIN T
    BY DEF Dropped
  <2>2. CASE b # a
    BY <2>1, <2>2, InLists DEF Dropped
  <2>3. CASE b = a
    <3>1. /\ Len(T2[a]) = Len(T[a]) - 1 /\ j \in 1 .. Len(T[a]) - 1
          /\ T2[a][j] = IF j < i THEN T[a][j] ELSE T[a][j + 1]
      BY <2>3 DEF Dropped
    <3>2. Was(a, j) \in 1 .. Len(T[a]) /\ Was(a, j) # i
      BY <3>1, <1>0
    <3> QED
      BY <2>1, <2>3, <3>1, <3>2, InLists
  <2> QED
    BY <2>2, <2>3
<1>2. ASSUME NEW x \in EntriesOf(T2)
      PROVE  x \in EntriesOf(T) \ {T[a][i]}
  <2>1. x.action_name \in DOMAIN T2
    BY InLists
  <2>2. PICK j \in 1 .. Len(T2[x.action_name]) : T2[x.action_name][j] = x
    BY InLists
  <2> DEFINE b == x.action_name
             k == Was(b, j)
  <2>3. /\ b \in DOMAIN T /\ k \in 1 .. Len(T[b]) /\ k \in DOMAIN T[b]
        /\ x = T[b][k] /\ (b = a => k # i)
    BY <2>1, <2>2, <1>1
  <2> HIDE DEF Was, b, k
  <2>4. x \in EntriesOf(T)
    BY <2>3, InLists
  <2>5. x # T[a][i]
    BY <2>3, <1>0 DEF Once
  <2> QED
    BY <2>4, <2>5
<1>3. ASSUME NEW x \in EntriesOf(T), x # T[a][i]
      PROVE  x \in EntriesOf(T2)
  <2> DEFINE b == x.action_name
  <2>1. b \in DOMAIN T
    BY InLists
  <2>2. PICK j \in 1 .. Len(T[b]) : T[b][j] = x
    BY InLists
  <2> HIDE DEF b
  <2>3. CASE b # a
    <3>1. b \in DOMAIN T2 /\ T2[b] = T[b]
      BY <2>1, <2>2, <2>3 DEF Dropped
    <3> QED
      BY <2>2, <3>1, InLists
  <2>4. CASE b = a
    <3>1. j # i /\ a \in DOMAIN T2
      BY <1>0, <1>3, <2>2, <2>4 DEF Dropped
    <3>2. /\ Len(T2[a]) = Len(T[a]) - 1
          /\ \A m \in 1 .. Len(T[a]) - 1 :
               T2[a][m] = IF m < i THEN T[a][m] ELSE T[a][m + 1]
      BY <3>1 DEF Dropped
    <3> DEFINE m == IF j < i THEN j ELSE j - 1
    <3>3. /\ m \in 1 .. Len(T[a]) - 1
          /\ IF m < i THEN m = j ELSE m + 1 = j
      BY <1>0, <2>2, <2>4, <3>1
    <3> HIDE DEF m
    <3>4. m \in 1 .. Len(T2[a]) /\ T2[a][m] = x
      BY <2>2, <2>4, <3>2, <3>3
    <3> QED
      BY <3>1, <3>4, InLists
  <2> QED
    BY <2>3, <2>4
<1>4. Once(T2)
  <2> SUFFICES ASSUME NEW b \in DOMAIN T2, NEW c \in DOMAIN T2,
                      NEW j \in DOMAIN T2[b], NEW m \in DOMAIN T2[c],
                      T2[b][j] = T2[c][m]
               PROVE  b = c /\ j = m
    BY DEF Once
  <2>1. j \in 1 .. Len(T2[b]) /\ m \in 1 .. Len(T2[c])
    BY InLists
  <2> DEFINE p == Was(b, j)
             q == Was(c, m)
  <2>2. b \in DOMAIN T /\ p \in DOMAIN T[b] /\ T2[b][j] = T[b][p]
    BY <2>1, <1>1
  <2>3. c \in DOMAIN T /\ q \in DOMAIN T[c] /\ T2[c][m] = T[c][q]
    BY <2>1, <1>1
  <2>4. T[b][p] = T[c][q]
    BY <2>2, <2>3
  <2>5. b = c /\ p = q
    <3> HIDE DEF Was, p, q
    <3> QED
      BY <2>2, <2>3, <2>4 DEF Once
  <2>6. j \in Int /\ m \in Int /\ i \in Int
    BY <2>1
  <2> QED
    BY <2>5, <2>6
<1> QED
  BY <1>2, <1>3, <1>4

(* Marking the entries with a handle changes the one entry that has it.    *)
LEMMA MarkedEntry ==
  ASSUME NEW T, Lists(T), Once(T), NEW e \in EntriesOf(T), NEW s \in Stati,
         s # e.status,
         \A f \in EntriesOf(T) : f.handle = e.handle => f = e
  PROVE  LET T2 == [a \in DOMAIN T |-> Marked(T[a], e.handle, s)] IN
         /\ Lists(T2) /\ Once(T2)
         /\ EntriesOf(T2) = (EntriesOf(T) \ {e}) \cup {[e EXCEPT !.status = s]}
<1> DEFINE h == e.handle
           e2 == [e EXCEPT !.status = s]
           T2 == [a \in DOMAIN T |-> Marked(T[a], h, s)]
<1>1. e \in EntryType
  BY InLists
<1>2. /\ e2.handle = e.handle /\ e2.action_name = e.action_name
      /\ e2.status = s
  BY <1>1 DEF EntryType
<1>3. Lists(T2)
  BY MarkedList DEF Lists
<1>4. DOMAIN T2 = DOMAIN T
  OBVIOUS
<1>5. ASSUME NEW a \in DOMAIN T
      PROVE  /\ Len(T2[a]) = Len(T[a])
             /\ \A j \in 1 .. Len(T[a]) :
                  T2[a][j] = IF T[a][j] = e THEN e2 ELSE T[a][j]
  <2>1. T2[a] = Marked(T[a], h, s) /\ T[a] \in Seq(Under(a))
    BY DEF Lists
  <2>2. CASE Marked(T[a], h, s) = T[a]
             /\ \A j \in 1 .. Len(T[a]) : T[a][j].handle # h
    BY <2>1, <2>2
  <2>3. ASSUME NEW i \in 1 .. Len(T[a]), T[a][i].handle = h,
               Len(Marked(T[a], h, s)) = Len(T[a]),
               \A j \in 1 .. Len(T[a]) :
                 Marked(T[a], h, s)[j] =
                   IF j = i THEN [T[a][i] EXCEPT !.status = s] ELSE T[a][j]
        PROVE  /\ Len(T2[a]) = Len(T[a])
               /\ \A j \in 1 .. Len(T[a]) :
                    T2[a][j] = IF T[a][j] = e THEN e2 ELSE T[a][j]
    <3>1. T[a][i] = e
      BY <2>3, InLists
    <3>2. \A j \in 1 .. Len(T[a]) : T[a][j] = e => j = i
      BY <3>1, InLists DEF Once
    <3> QED
      BY <2>1, <2>3, <3>1, <3>2
  <2>4. \/ /\ Marked(T[a], h, s) = T[a]
           /\ \A j \in 1 .. Len(T[a]) : T[a][j].handle # h
        \/ \E i \in 1 .. Len(T[a]) :
             /\ T[a][i].handle = h
             /\ Len(Marked(T[a], h, s)) = Len(T[a])
             /\ \A j \in 1 .. Len(T[a]) :
                  Marked(T[a], h, s)[j] =
                    IF j = i THEN [T[a][i] EXCEPT !.status = s] ELSE T[a][j]
    <3> HIDE DEF h
    <3> QED
      BY <2>1, MarkedList
  <2> QED
    BY <2>2, <2>3, <2>4
<1> HIDE DEF T2, e2
<1>6. Changed(T, T2, e, e2)
  BY <1>4, <1>5 DEF Changed
<1>7. e2 \notin EntriesOf(T)
  BY <1>2
<1>8. Once(T2) /\ EntriesOf(T2) = (EntriesOf(T) \ {e}) \cup {e2}
  BY <1>2, <1>3, <1>6, <1>7, ChangedEntry
<1> QED
  BY <1>3, <1>8 DEF T2, e2

(* Setting one entry of the list of an action.                             *)
LEMMA SetEntry ==
  ASSUME NEW T, Lists(T), Once(T), NEW a \in DOMAIN T,
         NEW i \in 1 .. Len(T[a]), NEW e2 \in Under(a),
         e2 \notin EntriesOf(T),
         NEW list \in Seq(Under(a)), Len(list) = Len(T[a]),
         \A j \in 1 .. Len(T[a]) : list[j] = IF j = i THEN e2 ELSE T[a][j]
  PROVE  /\ Lists(With(T, a, list)) /\ Once(With(T, a, list))
         /\ EntriesOf(With(T, a, list)) =
              (EntriesOf(T) \ {T[a][i]}) \cup {e2}
<1> DEFINE e == T[a][i]
           T2 == With(T, a, list)
<1>1. e \in EntriesOf(T) /\ e.action_name = a /\ e2.action_name = a
  BY InLists DEF Under
<1>2. Lists(T2)
  BY WithList DEF Lists
<1>3. /\ DOMAIN T2 = DOMAIN T /\ T2[a] = list
      /\ \A b \in DOMAIN T : b # a => T2[b] = T[b]
  BY DEF With
<1> HIDE DEF T2
<1>4. \A j \in 1 .. Len(T[a]) : T[a][j] = e => j = i
  BY InLists DEF Once
<1>5. \A b \in DOMAIN T : b # a =>
        \A j \in 1 .. Len(T[b]) : T[b][j] # e
  BY <1>1, InLists
<1>6. Changed(T, T2, e, e2)
  BY <1>3, <1>4, <1>5 DEF Changed
<1> HIDE DEF e
<1>7. Once(T2) /\ EntriesOf(T2) = (EntriesOf(T) \ {e}) \cup {e2}
  BY <1>1, <1>2, <1>6, ChangedEntry
<1> QED
  BY <1>2, <1>7 DEF T2, e

(* A deleted entry goes, and no other.                                     *)
LEMMA DeletedEntry ==
  ASSUME NEW T, Lists(T), Once(T), NEW e \in EntriesOf(T),
         \A f \in EntriesOf(T) : f.handle = e.handle => f = e,
         NEW gone, \A a \in gone : a \in DOMAIN T =>
                     T[a] # <<>> /\ Without(T[a], e.handle) = <<>>
  PROVE  LET T2 == [a \in DOMAIN T \ gone |-> Without(T[a], e.handle)] IN
         Lists(T2) /\ Once(T2) /\ EntriesOf(T2) = EntriesOf(T) \ {e}
<1> DEFINE h == e.handle
           T2 == [a \in DOMAIN T \ gone |-> Without(T[a], h)]
           b == e.action_name
<1>1. b \in DOMAIN T
  BY InLists
<1>2. \A a \in DOMAIN T : T[a] \in Seq(Under(a))
  BY DEF Lists
<1>3. Lists(T2)
  BY <1>2, WithoutList DEF Lists
<1>4. ASSUME NEW a \in DOMAIN T, a # b
      PROVE  Without(T[a], h) = T[a] /\ a \notin gone
  <2>1. \A j \in 1 .. Len(T[a]) : T[a][j].handle # h
    BY <1>4, InLists
  <2>2. T[a] \in Seq(Under(a))
    BY <1>2, <1>4
  <2>3. Without(T[a], h) = T[a]
    <3> HIDE DEF h, T2
    <3> QED
      BY <2>1, <2>2, WithoutList
  <2> QED
    BY <2>3, <1>4
<1>5. PICK i \in 1 .. Len(T[b]) :
        /\ T[b][i].handle = h
        /\ Len(Without(T[b], h)) = Len(T[b]) - 1
        /\ \A j \in 1 .. Len(T[b]) - 1 :
             Without(T[b], h)[j] = IF j < i THEN T[b][j] ELSE T[b][j + 1]
  <2>1. \E j \in 1 .. Len(T[b]) : T[b][j].handle = h
    BY InLists
  <2> HIDE DEF b
  <2> QED
    BY <2>1, <1>1, <1>2, WithoutList, SMTT(30)
<1>6. T[b][i] = e
  BY <1>1, <1>5, InLists
<1>7. b \in gone => Len(T[b]) = 1
  <2>1. b \in gone => Len(Without(T[b], h)) = 0
    BY <1>1, EmptySeq
  <2> QED
    BY <2>1, <1>1, <1>5, InLists
<1>8. Dropped(T, T2, b, i)
  <2> HIDE DEF b
  <2> QED
    BY <1>1, <1>4, <1>5, <1>7 DEF Dropped
<1> HIDE DEF T2
<1>9. Once(T2) /\ EntriesOf(T2) = EntriesOf(T) \ {T[b][i]}
  <2> HIDE DEF b
  <2> QED
    BY <1>1, <1>3, <1>8, DroppedEntry
<1> QED
  BY <1>3, <1>6, <1>9 DEF T2
-----------------------------------------------------------------------------
(* The ledger, step by step. *)

LedgerTypes(E, Q, N, D, R) ==
  /\ \A t \in Tables : E[t] \subseteq EntryType
  /\ Len(Q) \in Nat /\ N \in 0 .. Len(Q)
  /\ \A n \in Line(Q) : Q[n] \in CommandType
  /\ \A t \in Tables : /\ DOMAIN D[t] \subseteq Handles
                       /\ \A h \in DOMAIN D[t] : D[t][h] \in RowType
  /\ R \subseteq Tables \X Keys

(* how the line changes: a command is added at its end, one is answered,   *)
(* the first result is taken                                               *)
Issued(Q, Q2, c) ==
  /\ Len(Q2) = Len(Q) + 1 /\ Q2[Len(Q) + 1] = c
  /\ \A n \in Line(Q) : Q2[n] = Q[n]

Answered(Q, Q2, n, r) ==
  /\ Len(Q2) = Len(Q) /\ n \in Line(Q)
  /\ \A m \in Line(Q) : Q2[m] = IF m = n THEN r ELSE Q[m]

Taken(Q, Q2) ==
  /\ Len(Q) # 0 /\ Len(Q2) = Len(Q) - 1
  /\ \A n \in Line(Q2) : Q2[n] = Q[n + 1]

(* in table t, entry e2 takes the place of e                               *)
Swapped(E, E2, t, e, e2) ==
  /\ e \in E[t] /\ e2 \in E2[t]
  /\ \A u \in Tables : \A x \in E2[u] :
       (x \in E[u] /\ (u = t => x # e)) \/ (u = t /\ x = e2)
  /\ \A u \in Tables : \A x \in E[u] : (u = t /\ x = e) \/ x \in E2[u]

(* An insert is issued and its entry is added, the entries with its key    *)
(* being on their way out.                                                 *)
LEMMA LedgerInsert ==
  ASSUME NEW E, NEW Q, NEW N, NEW D, NEW R,
         LedgerTypes(E, Q, N, D, R), Ledger(E, Q, N, D, R),
         NEW c \in CommandType, c.kind = "insert", c.handle = NoHandle,
         NEW t, t = c.table,
         NEW e, Asked(e, c),
         \A f \in E[t] : f.match_key = c.match_key => f.status = "DELETING",
         NEW E2, e \in E2[t],
         \A u \in Tables : \A x \in E2[u] : x \in E[u] \/ (u = t /\ x = e),
         \A u \in Tables : \A x \in E[u] : x \in E2[u],
         NEW Q2, Issued(Q, Q2, c)
  PROVE  Ledger(E2, Q2, N, D, R)
<1>0. t \in Tables /\ c.match_key \in Keys /\ NoHandle \notin Handles
  BY ControlPlaneAssumption DEF CommandType
<1>1. /\ e.match_key = c.match_key /\ e.action_name = c.action
      /\ e.action_data = c.data /\ e.handle = NoHandle
      /\ e.status = "INSERTING"
  BY DEF Asked
<1>2. /\ Len(Q) \in Nat /\ N \in 0 .. Len(Q)
      /\ Line(Q2) = Line(Q) \cup {Len(Q) + 1} /\ Len(Q) + 1 \notin Line(Q)
      /\ Line(Q) \subseteq Nat
      /\ Q2[Len(Q) + 1] = c /\ \A n \in Line(Q) : Q2[n] = Q[n]
      /\ \A n \in Line(Q) : Q[n].table \in Tables
      /\ \A u \in Tables : \A h \in DOMAIN D[u] : h # NoHandle
  BY <1>0 DEF LedgerTypes, Issued, Line, CommandType
<1>3. <<t, c.match_key>> \notin R
  BY <1>0 DEF Ledger, Refusals
<1>4. Named(E2)
  BY <1>0, <1>1 DEF Ledger, Named
<1>5. Stands(E2, Q2, D, R)
  <2>1. ASSUME NEW u \in Tables, NEW x \in E[u]
        PROVE  EntryStands(x, u, Q2, D, R)
    <3>1. EntryStands(x, u, Q, D, R)
      BY DEF Ledger, Stands
    <3> QED
      BY <3>1, <1>2 DEF EntryStands, For, Inserts, Modifies, Deletes
  <2>2. EntryStands(e, t, Q2, D, R)
    BY <1>1, <1>2 DEF EntryStands, Inserts
  <2> QED
    BY <2>1, <2>2 DEF Stands
<1>6. InsertsStand(E2, Q2, N, D, R)
  <2>1. ASSUME NEW n \in Line(Q), Q[n].kind = "insert"
        PROVE  InsertStands(n, Q[n].table, E2, Q2, N, D, R)
    <3>1. InsertStands(n, Q[n].table, E, Q, N, D, R)
      BY <2>1 DEF Ledger, InsertsStand
    <3>2. Q2[n] = Q[n] /\ n \in Nat /\ \A m \in 1 .. n - 1 : Q2[m] = Q[m]
      BY <1>2 DEF Line
    <3> QED
      BY <3>1, <3>2, <1>1, <1>2 DEF InsertStands, Deletes, For
  <2>2. InsertStands(Len(Q) + 1, t, E2, Q2, N, D, R)
    <3>1. ASSUME NEW x \in E2[t], x.match_key = c.match_key,
                 x.status # "INSERTING"
          PROVE  \E m \in 1 .. Len(Q) + 1 - 1 : Deletes(Q2[m], t, x.handle)
      <4>1. x \in E[t] /\ x.status = "DELETING"
        BY <1>0, <1>1, <3>1
      <4>2. EntryStands(x, t, Q, D, R)
        BY <4>1, <1>0 DEF Ledger, Stands
      <4> QED
        BY <4>1, <4>2, <1>2 DEF EntryStands, Line
    <3>2. ~(Len(Q) + 1 <= N)
      BY <1>2
    <3> QED
      BY <3>1, <3>2, <1>2, <1>3 DEF InsertStands
  <2> QED
    BY <2>1, <2>2, <1>2 DEF InsertsStand
<1>7. ModifiesStand(E2, Q2, N, D, R)
  <2>1. ASSUME NEW n \in Line(Q), Q[n].kind = "modify"
        PROVE  ModifyStands(n, Q[n].table, E2, Q2, N, D, R)
    <3>1. ModifyStands(n, Q[n].table, E, Q, N, D, R)
      BY <2>1 DEF Ledger, ModifiesStand
    <3> QED
      BY <3>1, <1>2 DEF ModifyStands
  <2> QED
    BY <2>1, <1>2 DEF ModifiesStand
<1>8. DeletesStand(E2, Q2, N, D)
  BY <1>0, <1>1, <1>2 DEF Ledger, DeletesStand
<1>9. FailuresStand(E2, Q2, N)
  BY <1>0, <1>1, <1>2 DEF Ledger, FailuresStand
<1>10. OneEach(Q2, N)
  <2>1. ASSUME NEW n \in Line(Q), Q[n].kind = "insert", Q[n].table = t
        PROVE  Q[n].match_key # c.match_key
    <3>1. InsertStands(n, t, E, Q, N, D, R)
      BY <2>1 DEF Ledger, InsertsStand
    <3> QED
      BY <3>1 DEF InsertStands, Asked
  <2> QED
    BY <2>1, <1>2, SMTT(30) DEF Ledger, OneEach
<1>11. Held(E2, Q2, N, D)
  <2>1. ASSUME NEW u \in Tables, NEW h \in DOMAIN D[u]
        PROVE  IsHeld(h, u, E2, Q2, N, D)
    <3>1. IsHeld(h, u, E, Q, N, D)
      BY DEF Ledger, Held
    <3>2. \A n \in 1 .. N : Q2[n] = Q[n]
      BY <1>2 DEF Line
    <3> QED
      BY <3>1, <3>2 DEF IsHeld
  <2> QED
    BY <2>1 DEF Held
<1>12. Refusals(E2, R)
  BY <1>0 DEF Ledger, Refusals
<1> QED
  BY <1>4, <1>5, <1>6, <1>7, <1>8, <1>9, <1>10, <1>11, <1>12 DEF Ledger

(* A modify or a delete is issued for an entry that is OK, and the entry   *)
(* is marked.                                                              *)
LEMMA LedgerChange ==
  ASSUME NEW E, NEW Q, NEW N, NEW D, NEW R,
         LedgerTypes(E, Q, N, D, R), Ledger(E, Q, N, D, R),
         NEW c \in CommandType, NEW t, t = c.table,
         NEW e \in E[t], e.status = "OK", c.handle = e.handle,
         NEW e2, e2.match_key = e.match_key, e2.handle = e.handle,
         \/ /\ c.kind = "modify" /\ e2.status = "MODIFYING"
            /\ e2.action_name = c.action /\ e2.action_data = c.data
         \/ c.kind = "delete" /\ e2.status = "DELETING",
         NEW E2, Swapped(E, E2, t, e, e2),
         NEW Q2, Issued(Q, Q2, c)
  PROVE  Ledger(E2, Q2, N, D, R)
<1>0. t \in Tables /\ e \in EntryType /\ NoHandle \notin Handles
  BY ControlPlaneAssumption DEF CommandType, LedgerTypes
<1>1. /\ e \in E[t] /\ e2 \in E2[t]
      /\ \A u \in Tables : \A x \in E2[u] :
           (x \in E[u] /\ (u = t => x # e)) \/ (u = t /\ x = e2)
      /\ \A u \in Tables : \A x \in E[u] : (u = t /\ x = e) \/ x \in E2[u]
  BY DEF Swapped
<1>2. /\ Len(Q) \in Nat /\ N \in 0 .. Len(Q)
      /\ Line(Q2) = Line(Q) \cup {Len(Q) + 1} /\ Len(Q) + 1 \notin Line(Q)
      /\ Line(Q) \subseteq Nat
      /\ Q2[Len(Q) + 1] = c /\ \A n \in Line(Q) : Q2[n] = Q[n]
      /\ \A n \in Line(Q) : Q[n].table \in Tables
      /\ ~(Len(Q) + 1 <= N) /\ \A n \in 1 .. N : n \in Line(Q)
  BY <1>0 DEF LedgerTypes, Issued, Line, CommandType
<1>3. /\ e.handle # NoHandle /\ e.handle \in DOMAIN D[t]
      /\ D[t][e.handle] = Content(e) /\ <<t, e.match_key>> \notin R
      /\ \A n \in Line(Q) : ~For(Q[n], t, e.handle)
      /\ D[t][e.handle].match_key = e.match_key
  <2>1. EntryStands(e, t, Q, D, R)
    BY <1>0 DEF Ledger, Stands
  <2> QED
    BY <2>1 DEF EntryStands, Content
<1>4. Named(E2)
  BY <1>0, <1>1 DEF Ledger, Named
<1>5. Stands(E2, Q2, D, R)
  <2>1. ASSUME NEW u \in Tables, NEW x \in E[u], u = t => x # e
        PROVE  EntryStands(x, u, Q2, D, R)
    <3>1. EntryStands(x, u, Q, D, R)
      BY DEF Ledger, Stands
    <3>2. ~For(c, u, x.handle)
      BY <1>0, <1>3, <2>1 DEF Ledger, Named, For
    <3>3. c.kind # "insert"
      OBVIOUS
    <3> QED
      BY <3>1, <3>2, <3>3, <1>2 DEF EntryStands, Inserts, Modifies, Deletes
  <2>2. EntryStands(e2, t, Q2, D, R)
    BY <1>2, <1>3 DEF EntryStands, For, Modifies, Deletes
  <2> QED
    BY <1>1, <2>1, <2>2 DEF Stands
<1>6. InsertsStand(E2, Q2, N, D, R)
  <2>1. ASSUME NEW n \in Line(Q), Q[n].kind = "insert"
        PROVE  InsertStands(n, Q[n].table, E2, Q2, N, D, R)
    <3> DEFINE u == Q[n].table
    <3>1. InsertStands(n, u, E, Q, N, D, R)
      BY <2>1 DEF Ledger, InsertsStand
    <3>2. /\ Q2[n] = Q[n] /\ n \in Nat /\ u \in Tables
          /\ \A m \in 1 .. n - 1 : m \in Line(Q) /\ Q2[m] = Q[m]
      BY <1>2 DEF Line
    <3> HIDE DEF u
    <3>3. \E x \in E2[u] : Asked(x, Q[n])
      <4>1. PICK x \in E[u] : Asked(x, Q[n])
        BY <3>1 DEF InsertStands
      <4>2. x # e
        BY <4>1 DEF Asked
      <4> QED
        BY <1>1, <3>2, <4>1, <4>2
    <3>4. ASSUME NEW x \in E2[u],
                 \/ x.match_key = Q[n].match_key /\ x.status # "INSERTING"
                 \/ n <= N /\ x.handle = Q[n].handle
          PROVE  \E m \in 1 .. n - 1 : Deletes(Q[m], u, x.handle)
      <4>1. CASE x \in E[u]
        BY <3>1, <3>4, <4>1 DEF InsertStands
      <4>2. CASE u = t /\ x = e2
        <5>1. \E m \in 1 .. n - 1 : Deletes(Q[m], t, e.handle)
          BY <3>1, <3>4, <4>2 DEF InsertStands
        <5> QED
          BY <5>1, <1>3, <3>2 DEF Deletes
      <4> QED
        BY <1>1, <3>2, <4>1, <4>2
    <3>5. InsertStands(n, u, E2, Q2, N, D, R)
      BY <3>1, <3>2, <3>3, <3>4 DEF InsertStands
    <3> QED
      BY <3>5 DEF u
  <2> QED
    BY <2>1, <1>2 DEF InsertsStand
<1>7. ModifiesStand(E2, Q2, N, D, R)
  <2>1. ASSUME NEW n \in Line(Q), Q[n].kind = "modify"
        PROVE  ModifyStands(n, Q[n].table, E2, Q2, N, D, R)
    <3>1. ModifyStands(n, Q[n].table, E, Q, N, D, R)
      BY <2>1 DEF Ledger, ModifiesStand
    <3>2. \A x \in E[Q[n].table] : x.status = "MODIFYING" =>
            x \in E2[Q[n].table]
      BY <1>1, <1>2
    <3> QED
      BY <3>1, <3>2, <1>2 DEF ModifyStands
  <2>2. c.kind = "modify" => ModifyStands(Len(Q) + 1, t, E2, Q2, N, D, R)
    BY <1>1, <1>2, <1>3 DEF ModifyStands
  <2> QED
    BY <2>1, <2>2, <1>2 DEF ModifiesStand
<1>8. DeletesStand(E2, Q2, N, D)
  BY <1>0, <1>1, <1>2, <1>3 DEF Ledger, DeletesStand
<1>9. FailuresStand(E2, Q2, N)
  BY <1>0, <1>1, <1>2 DEF Ledger, FailuresStand
<1>10. OneEach(Q2, N)
  BY <1>2, <1>3, SMTT(30) DEF Ledger, OneEach, For
<1>11. Held(E2, Q2, N, D)
  <2>1. ASSUME NEW u \in Tables, NEW h \in DOMAIN D[u]
        PROVE  IsHeld(h, u, E2, Q2, N, D)
    <3>1. IsHeld(h, u, E, Q, N, D)
      BY DEF Ledger, Held
    <3>2. \A n \in 1 .. N : Q2[n] = Q[n]
      BY <1>2
    <3>3. (\E x \in E[u] : x.handle = h /\ x.match_key = D[u][h].match_key)
          => \E x \in E2[u] : x.handle = h /\ x.match_key = D[u][h].match_key
      BY <1>1
    <3> QED
      BY <3>1, <3>2, <3>3 DEF IsHeld
  <2> QED
    BY <2>1 DEF Held
<1>12. Refusals(E2, R)
  BY <1>0, <1>1 DEF Ledger, Refusals
<1> QED
  BY <1>4, <1>5, <1>6, <1>7, <1>8, <1>9, <1>10, <1>11, <1>12 DEF Ledger

(* Tables D and D2 hold the same but for handle h of table t.              *)
SameRows(D, D2, t, h) ==
  \A u \in Tables : \A x \in Handles : u # t \/ x # h =>
    /\ x \in DOMAIN D2[u] <=> x \in DOMAIN D[u]
    /\ x \in DOMAIN D[u] => D2[u][x] = D[u][x]

(* The device executes an insert and gives it a handle that is free on the *)
(* device.                                                                 *)
LEMMA LedgerExecuteInsert ==
  ASSUME NEW E, NEW Q, NEW N, NEW D, NEW R,
         LedgerTypes(E, Q, N, D, R), Ledger(E, Q, N, D, R),
         NEW c, c = Q[N + 1], c.kind = "insert", NEW t, t = c.table,
         NEW h \in Handles, h \notin DOMAIN D[t],
         NEW D2, SameRows(D, D2, t, h),
         \A u \in Tables : DOMAIN D2[u] \subseteq Handles,
         h \in DOMAIN D2[t], D2[t][h] = Row(c, c.match_key),
         NEW r, r.kind = c.kind, r.table = t, r.match_key = c.match_key,
         r.action = c.action, r.data = c.data, r.handle = h,
         NEW Q2, Answered(Q, Q2, N + 1, r)
  PROVE  Ledger(E, Q2, N + 1, D2, R)
<1>0. /\ Len(Q) \in Nat /\ N \in Nat /\ N + 1 \in Line(Q)
      /\ Line(Q2) = Line(Q) /\ Line(Q) \subseteq Nat /\ Q2[N + 1] = r
      /\ \A n \in Line(Q) :
           n # N + 1 => Q2[n] = Q[n] /\ (n <= N + 1 <=> n <= N)
      /\ \A n \in Line(Q) : Q[n].table \in Tables
      /\ \A n \in 1 .. N + 1 : n \in Line(Q) /\ (n = N + 1 \/ n \in 1 .. N)
      /\ \A n \in 1 .. N : n \in Line(Q) /\ n # N + 1
      /\ \A n \in Line(Q) : \A m \in 1 .. n - 1 : m \in Line(Q)
      /\ ~(N + 1 <= N) /\ N + 1 <= N + 1
  BY DEF LedgerTypes, Answered, Line, CommandType
<1>1. /\ t \in Tables /\ NoHandle \notin Handles
      /\ \A u \in Tables : DOMAIN D[u] \subseteq Handles
  BY <1>0, ControlPlaneAssumption DEF LedgerTypes
<1>2. /\ r.kind = "insert" /\ Row(r, r.match_key) = Row(c, c.match_key)
      /\ Row(c, c.match_key).match_key = c.match_key
  BY DEF Row
<1>3. \A u \in Tables : \A x \in DOMAIN D[u] :
        x \in DOMAIN D2[u] /\ D2[u][x] = D[u][x]
  BY <1>1 DEF SameRows
<1>4. Named(E) /\ Refusals(E, R)
  BY DEF Ledger
<1>5. Stands(E, Q2, D2, R)
  <2>1. ASSUME NEW u \in Tables, NEW x \in E[u]
        PROVE  EntryStands(x, u, Q2, D2, R)
    <3>1. EntryStands(x, u, Q, D, R)
      BY DEF Ledger, Stands
    <3>2. \A n \in Line(Q) :
            /\ For(Q2[n], u, x.handle) <=> For(Q[n], u, x.handle)
            /\ Inserts(Q2[n], u, x.match_key) <=> Inserts(Q[n], u, x.match_key)
            /\ Deletes(Q2[n], u, x.handle) <=> Deletes(Q[n], u, x.handle)
            /\ Modifies(Q2[n], u, x.handle) <=> Modifies(Q[n], u, x.handle)
      BY <1>0, <1>2 DEF For, Inserts, Deletes, Modifies
    <3> QED
      BY <3>1, <3>2, <1>0, <1>3 DEF EntryStands
  <2> QED
    BY <2>1 DEF Stands
<1>6. InsertsStand(E, Q2, N + 1, D2, R)
  <2>0. \A n \in Line(Q) : \A u, x :
          Deletes(Q2[n], u, x) <=> Deletes(Q[n], u, x)
    BY <1>0, <1>2 DEF For, Deletes
  <2>1. ASSUME NEW n \in Line(Q), Q[n].kind = "insert", n # N + 1
        PROVE  InsertStands(n, Q[n].table, E, Q2, N + 1, D2, R)
    <3> DEFINE u == Q[n].table
    <3>1. InsertStands(n, u, E, Q, N, D, R)
      BY <2>1 DEF Ledger, InsertsStand
    <3>2. /\ Q2[n] = Q[n] /\ (n <= N + 1 <=> n <= N) /\ u \in Tables
          /\ \A m \in 1 .. n - 1 : m \in Line(Q)
      BY <2>1, <1>0
    <3> HIDE DEF u
    <3>3. \A x : (\E m \in 1 .. n - 1 : Deletes(Q[m], u, x))
                  => \E m \in 1 .. n - 1 : Deletes(Q2[m], u, x)
      BY <2>0, <3>2
    <3>4. InsertStands(n, u, E, Q2, N + 1, D2, R)
      BY <3>1, <3>2, <3>3, <1>3 DEF InsertStands
    <3> QED
      BY <3>4 DEF u
  <2>2. InsertStands(N + 1, t, E, Q2, N + 1, D2, R)
    <3>1. InsertStands(N + 1, t, E, Q, N, D, R)
      BY <1>0 DEF Ledger, InsertsStand
    <3>2. ASSUME NEW x \in E[t], x.handle = h
          PROVE  \E m \in 1 .. (N + 1) - 1 : Deletes(Q2[m], t, x.handle)
      <4>1. EntryStands(x, t, Q, D, R) /\ x.status \in Stati
        BY <1>1 DEF Ledger, Stands, LedgerTypes, EntryType
      <4>2. PICK m \in Line(Q) : Deletes(Q[m], t, h)
        BY <4>1, <3>2, <1>1 DEF EntryStands, Stati
      <4>3. m <= N
        BY <4>2, <1>0 DEF Ledger, DeletesStand, Deletes, For
      <4> QED
        BY <4>2, <4>3, <3>2, <2>0, <1>0 DEF Line
    <3>3. \E x \in E[t] : Asked(x, r)
      BY <3>1 DEF InsertStands, Asked
    <3> QED
      BY <3>1, <3>2, <3>3, <2>0, <1>0, <1>2 DEF InsertStands
  <2> QED
    BY <2>1, <2>2, <1>0 DEF InsertsStand
<1>7. ModifiesStand(E, Q2, N + 1, D2, R)
  <2>1. ASSUME NEW n \in Line(Q), Q[n].kind = "modify"
        PROVE  ModifyStands(n, Q[n].table, E, Q2, N + 1, D2, R)
    <3> DEFINE u == Q[n].table
    <3>1. PICK x \in E[u] :
            /\ x.handle = Q[n].handle /\ x.status = "MODIFYING"
            /\ x.action_name = Q[n].action /\ x.action_data = Q[n].data
            /\ <<u, x.match_key>> \notin R
            /\ n <= N => D[u][x.handle] = Content(x)
      BY <2>1 DEF Ledger, ModifiesStand, ModifyStands
    <3>2. x.handle \in DOMAIN D[u]
      BY <3>1, <1>0 DEF Ledger, Stands, EntryStands
    <3>3. n # N + 1
      BY <2>1
    <3> QED
      BY <3>1, <3>2, <3>3, <1>0, <1>3, Zenon DEF ModifyStands
  <2> QED
    BY <2>1, <1>0 DEF ModifiesStand
<1>8. DeletesStand(E, Q2, N + 1, D2)
  <2>1. ASSUME NEW n \in Line(Q), Q2[n].kind = "delete"
        PROVE  \E x \in E[Q2[n].table] :
                 /\ x.handle = Q2[n].handle /\ x.status = "DELETING"
                 /\ n > N + 1 =>
                      /\ x.handle \in DOMAIN D2[Q2[n].table]
                      /\ D2[Q2[n].table][x.handle].match_key = x.match_key
    <3>1. n # N + 1 /\ Q2[n] = Q[n] /\ n \in Nat
      BY <2>1, <1>0, <1>2
    <3>2. n > N + 1 => n > N
      BY <3>1, <1>0
    <3> QED
      BY <3>1, <3>2, <2>1, <1>0, <1>3 DEF Ledger, DeletesStand
  <2> QED
    BY <2>1, <1>0 DEF DeletesStand
<1>9. FailuresStand(E, Q2, N + 1)
  BY <1>0, <1>2 DEF Ledger, FailuresStand
<1>10. OneEach(Q2, N + 1)
  <2>1. ASSUME NEW n \in 1 .. N, Q[n].kind = "insert", Q[n].table = t
        PROVE  Q[n].handle # h
    <3>1. InsertStands(n, t, E, Q, N, D, R) /\ n <= N
      BY <2>1, <1>0 DEF Ledger, InsertsStand
    <3> QED
      BY <3>1 DEF InsertStands
  <2> QED
    BY <2>1, <1>0, <1>2 DEF Ledger, OneEach, Line
<1>11. Held(E, Q2, N + 1, D2)
  <2>1. ASSUME NEW u \in Tables, NEW x \in DOMAIN D2[u], u # t \/ x # h
        PROVE  IsHeld(x, u, E, Q2, N + 1, D2)
    <3>1. x \in DOMAIN D[u] /\ D2[u][x] = D[u][x]
      BY <2>1, <1>1 DEF SameRows
    <3>2. IsHeld(x, u, E, Q, N, D)
      BY <3>1 DEF Ledger, Held
    <3>3. ~Deletes(Q2[N + 1], u, x)
      BY <1>0, <1>2 DEF Deletes
    <3> QED
      BY <3>1, <3>2, <3>3, <1>0, SMTT(30) DEF IsHeld
  <2>2. IsHeld(h, t, E, Q2, N + 1, D2)
    BY <1>0, <1>2 DEF IsHeld, Inserts
  <2> QED
    BY <2>1, <2>2 DEF Held
<1> QED
  BY <1>4, <1>5, <1>6, <1>7, <1>8, <1>9, <1>10, <1>11 DEF Ledger

(* The device changes the row of a modify.                                 *)
LEMMA LedgerExecuteModify ==
  ASSUME NEW E, NEW Q, NEW N, NEW D, NEW R,
         LedgerTypes(E, Q, N, D, R), Ledger(E, Q, N, D, R),
         NEW c, c = Q[N + 1], c.kind = "modify", NEW t, t = c.table,
         NEW h, h = c.handle,
         NEW D2, SameRows(D, D2, t, h),
         \A u \in Tables : DOMAIN D2[u] \subseteq Handles,
         h \in DOMAIN D2[t], D2[t][h] = Row(c, D[t][h].match_key),
         NEW Q2, Answered(Q, Q2, N + 1, c)
  PROVE  Ledger(E, Q2, N + 1, D2, R)
<1>0. /\ Len(Q) \in Nat /\ N \in Nat /\ N + 1 \in Line(Q)
      /\ Line(Q2) = Line(Q) /\ Line(Q) \subseteq Nat
      /\ \A n \in Line(Q) : Q2[n] = Q[n]
      /\ \A n \in Line(Q) : n # N + 1 => (n <= N + 1 <=> n <= N)
      /\ \A n \in Line(Q) : Q[n].table \in Tables
      /\ \A n \in 1 .. N + 1 : n \in Line(Q) /\ (n = N + 1 \/ n \in 1 .. N)
      /\ \A n \in 1 .. N : n \in Line(Q) /\ n # N + 1
      /\ \A n \in Line(Q) : \A m \in 1 .. n - 1 : m \in Line(Q)
      /\ ~(N + 1 <= N) /\ N + 1 <= N + 1
  BY DEF LedgerTypes, Answered, Line, CommandType
<1>1. /\ t \in Tables /\ NoHandle \notin Handles
      /\ \A u \in Tables : DOMAIN D[u] \subseteq Handles
  BY <1>0, ControlPlaneAssumption DEF LedgerTypes
<1>2. PICK e \in E[t] :
        /\ e.handle = h /\ e.status = "MODIFYING"
        /\ e.action_name = c.action /\ e.action_data = c.data
        /\ <<t, e.match_key>> \notin R
  BY <1>0 DEF Ledger, ModifiesStand, ModifyStands
<1>3. /\ h \in DOMAIN D[t] /\ D[t][h].match_key = e.match_key
      /\ h \in Handles /\ h # NoHandle
  <2>1. EntryStands(e, t, Q, D, R)
    BY <1>1 DEF Ledger, Stands
  <2> QED
    BY <2>1, <1>1, <1>2 DEF EntryStands
<1>4. /\ D2[t][h] = Content(e) /\ D2[t][h].match_key = e.match_key
      /\ \A u \in Tables : \A x \in DOMAIN D[u] :
           /\ x \in DOMAIN D2[u] /\ D2[u][x].match_key = D[u][x].match_key
           /\ u # t \/ x # h => D2[u][x] = D[u][x]
      /\ \A u \in Tables : DOMAIN D2[u] = DOMAIN D[u]
  <2>1. /\ Row(c, e.match_key) = Content(e)
        /\ Content(e).match_key = e.match_key
    BY <1>2 DEF Row, Content
  <2>2. D2[t][h] = Content(e)
    BY <2>1, <1>3
  <2>3. \A u \in Tables : \A x \in Handles : u # t \/ x # h =>
          /\ x \in DOMAIN D2[u] <=> x \in DOMAIN D[u]
          /\ x \in DOMAIN D[u] => D2[u][x] = D[u][x]
    BY DEF SameRows
  <2>4. ASSUME NEW u \in Tables PROVE DOMAIN D2[u] = DOMAIN D[u]
    <3>1. \A x \in Handles : x \in DOMAIN D2[u] <=> x \in DOMAIN D[u]
      BY <2>3, <1>3
    <3>2. DOMAIN D2[u] \subseteq Handles /\ DOMAIN D[u] \subseteq Handles
      BY <1>1
    <3> QED
      BY <3>1, <3>2
  <2>5. ASSUME NEW u \in Tables, NEW x \in DOMAIN D[u]
        PROVE  /\ x \in DOMAIN D2[u] /\ D2[u][x].match_key = D[u][x].match_key
               /\ u # t \/ x # h => D2[u][x] = D[u][x]
    BY <2>1, <2>2, <2>3, <2>4, <1>1, <1>3
  <2> QED
    BY <2>1, <2>2, <2>4, <2>5
<1>5. \A n \in Line(Q) : For(Q[n], t, h) => n = N + 1
  BY <1>0, <1>3 DEF Ledger, OneEach, For
<1>6. Named(E) /\ Refusals(E, R)
  BY DEF Ledger
<1>7. Stands(E, Q2, D2, R)
  <2>1. ASSUME NEW u \in Tables, NEW x \in E[u]
        PROVE  EntryStands(x, u, Q2, D2, R)
    <3>1. EntryStands(x, u, Q, D, R)
      BY DEF Ledger, Stands
    <3>2. x.status = "OK" => u # t \/ x.handle # h
      BY <1>2, <1>3, <1>6 DEF Named
    <3> QED
      BY <3>1, <3>2, <1>0, <1>4 DEF EntryStands
  <2> QED
    BY <2>1 DEF Stands
<1>8. InsertsStand(E, Q2, N + 1, D2, R)
  <2>1. ASSUME NEW n \in Line(Q), Q[n].kind = "insert"
        PROVE  InsertStands(n, Q[n].table, E, Q2, N + 1, D2, R)
    <3> DEFINE u == Q[n].table
    <3>1. InsertStands(n, u, E, Q, N, D, R)
      BY <2>1 DEF Ledger, InsertsStand
    <3>2. /\ Q2[n] = Q[n] /\ (n <= N + 1 <=> n <= N) /\ u \in Tables
          /\ \A m \in 1 .. n - 1 : m \in Line(Q) /\ Q2[m] = Q[m]
      BY <2>1, <1>0
    <3> HIDE DEF u
    <3>3. ASSUME n <= N, u = t, Q[n].handle = h PROVE FALSE
      <4>1. PICK m \in 1 .. n - 1 : Deletes(Q[m], t, h)
        BY <3>1, <3>3, <1>2 DEF InsertStands
      <4>2. m = N + 1
        BY <4>1, <3>2, <1>5 DEF Deletes
      <4> QED
        BY <4>1, <4>2 DEF Deletes
    <3>4. InsertStands(n, u, E, Q2, N + 1, D2, R)
      BY <3>1, <3>2, <3>3, <1>4 DEF InsertStands
    <3> QED
      BY <3>4 DEF u
  <2> QED
    BY <2>1, <1>0 DEF InsertsStand
<1>9. ModifiesStand(E, Q2, N + 1, D2, R)
  <2>1. ASSUME NEW n \in Line(Q), Q[n].kind = "modify", n # N + 1
        PROVE  ModifyStands(n, Q[n].table, E, Q2, N + 1, D2, R)
    <3> DEFINE u == Q[n].table
    <3>1. PICK x \in E[u] :
            /\ x.handle = Q[n].handle /\ x.status = "MODIFYING"
            /\ x.action_name = Q[n].action /\ x.action_data = Q[n].data
            /\ <<u, x.match_key>> \notin R
            /\ n <= N => D[u][x.handle] = Content(x)
      BY <2>1 DEF Ledger, ModifiesStand, ModifyStands
    <3>2. x.handle \in DOMAIN D[u]
      BY <3>1, <1>0 DEF Ledger, Stands, EntryStands
    <3>3. u # t \/ x.handle # h
      BY <3>1, <2>1, <1>5 DEF For
    <3> QED
      BY <3>1, <3>2, <3>3, <2>1, <1>0, <1>4 DEF ModifyStands
  <2>2. ModifyStands(N + 1, t, E, Q2, N + 1, D2, R)
    BY <1>0, <1>2, <1>4 DEF ModifyStands
  <2> QED
    BY <2>1, <2>2, <1>0 DEF ModifiesStand
<1>10. DeletesStand(E, Q2, N + 1, D2)
  <2>1. \A n \in Line(Q) : n > N + 1 => n > N
    BY <1>0
  <2> QED
    BY <2>1, <1>0, <1>4, SMTT(30) DEF Ledger, DeletesStand
<1>11. FailuresStand(E, Q2, N + 1)
  BY <1>0 DEF Ledger, FailuresStand
<1>12. OneEach(Q2, N + 1)
  <2>1. \A n \in Line(Q) : Q[n].kind = "insert" => (n <= N + 1 <=> n <= N)
    BY <1>0
  <2> QED
    BY <2>1, <1>0 DEF Ledger, OneEach
<1>13. Held(E, Q2, N + 1, D2)
  <2>1. ASSUME NEW u \in Tables, NEW x \in DOMAIN D2[u]
        PROVE  IsHeld(x, u, E, Q2, N + 1, D2)
    <3>1. x \in DOMAIN D[u] /\ D2[u][x].match_key = D[u][x].match_key
      BY <1>4
    <3>2. IsHeld(x, u, E, Q, N, D)
      BY <3>1 DEF Ledger, Held
    <3>3. ~Deletes(Q2[N + 1], u, x)
      BY <1>0 DEF Deletes
    <3> QED
      BY <3>1, <3>2, <3>3, <1>0 DEF IsHeld
  <2> QED
    BY <2>1 DEF Held
<1> QED
  BY <1>6, <1>7, <1>8, <1>9, <1>10, <1>11, <1>12, <1>13 DEF Ledger

(* The device drops the row of a delete.                                   *)
LEMMA LedgerExecuteDelete ==
  ASSUME NEW E, NEW Q, NEW N, NEW D, NEW R,
         LedgerTypes(E, Q, N, D, R), Ledger(E, Q, N, D, R),
         NEW c, c = Q[N + 1], c.kind = "delete", NEW t, t = c.table,
         NEW h, h = c.handle,
         NEW D2, SameRows(D, D2, t, h),
         \A u \in Tables : DOMAIN D2[u] \subseteq Handles,
         h \notin DOMAIN D2[t],
         NEW Q2, Answered(Q, Q2, N + 1, c)
  PROVE  Ledger(E, Q2, N + 1, D2, R)
<1>0. /\ Len(Q) \in Nat /\ N \in Nat /\ N + 1 \in Line(Q)
      /\ Line(Q2) = Line(Q) /\ Line(Q) \subseteq Nat
      /\ \A n \in Line(Q) : Q2[n] = Q[n]
      /\ \A n \in Line(Q) : n # N + 1 => (n <= N + 1 <=> n <= N)
      /\ \A n \in Line(Q) : Q[n].table \in Tables
      /\ \A n \in 1 .. N + 1 : n \in Line(Q) /\ (n = N + 1 \/ n \in 1 .. N)
      /\ \A n \in 1 .. N : n \in Line(Q) /\ n # N + 1
      /\ \A n \in Line(Q) : \A m \in 1 .. n - 1 : m \in Line(Q)
      /\ ~(N + 1 <= N) /\ N + 1 <= N + 1
  BY DEF LedgerTypes, Answered, Line, CommandType
<1>1. /\ t \in Tables /\ NoHandle \notin Handles
      /\ \A u \in Tables : DOMAIN D[u] \subseteq Handles
  BY <1>0, ControlPlaneAssumption DEF LedgerTypes
<1>2. PICK e \in E[t] : e.handle = h /\ e.status = "DELETING"
  BY <1>0 DEF Ledger, DeletesStand
<1>3. h # NoHandle
  BY <1>1, <1>2 DEF Ledger, Stands, EntryStands
<1>4. \A u \in Tables : \A x \in DOMAIN D[u] : u # t \/ x # h =>
        x \in DOMAIN D2[u] /\ D2[u][x] = D[u][x]
  BY <1>1 DEF SameRows
<1>5. \A n \in Line(Q) : For(Q[n], t, h) => n = N + 1
  BY <1>0, <1>3 DEF Ledger, OneEach, For
<1>6. Named(E) /\ Refusals(E, R)
  BY DEF Ledger
<1>7. Stands(E, Q2, D2, R)
  <2>1. ASSUME NEW u \in Tables, NEW x \in E[u]
        PROVE  EntryStands(x, u, Q2, D2, R)
    <3>1. EntryStands(x, u, Q, D, R)
      BY DEF Ledger, Stands
    <3>2. x.status \in {"OK", "MODIFYING"} => u # t \/ x.handle # h
      BY <1>2, <1>3, <1>6 DEF Named
    <3> QED
      BY <3>1, <3>2, <1>0, <1>4 DEF EntryStands
  <2> QED
    BY <2>1 DEF Stands
<1>8. InsertsStand(E, Q2, N + 1, D2, R)
  <2>1. ASSUME NEW n \in Line(Q), Q[n].kind = "insert"
        PROVE  InsertStands(n, Q[n].table, E, Q2, N + 1, D2, R)
    <3> DEFINE u == Q[n].table
    <3>1. InsertStands(n, u, E, Q, N, D, R)
      BY <2>1 DEF Ledger, InsertsStand
    <3>2. /\ Q2[n] = Q[n] /\ (n <= N + 1 <=> n <= N) /\ u \in Tables
          /\ \A m \in 1 .. n - 1 : m \in Line(Q) /\ Q2[m] = Q[m] /\ m < n
          /\ n \in Nat
      BY <2>1, <1>0 DEF Line
    <3> HIDE DEF u
    <3>3. ASSUME n <= N, u = t, Q[n].handle = h PROVE FALSE
      <4>1. PICK m \in 1 .. n - 1 : Deletes(Q[m], t, h)
        BY <3>1, <3>3, <1>2 DEF InsertStands
      <4>2. m = N + 1 /\ m < n
        BY <4>1, <3>2, <1>5 DEF Deletes
      <4> QED
        BY <4>2, <3>2, <3>3, <1>0
    <3>4. InsertStands(n, u, E, Q2, N + 1, D2, R)
      BY <3>1, <3>2, <3>3, <1>4 DEF InsertStands
    <3> QED
      BY <3>4 DEF u
  <2> QED
    BY <2>1, <1>0 DEF InsertsStand
<1>9. ModifiesStand(E, Q2, N + 1, D2, R)
  <2>1. ASSUME NEW n \in Line(Q), Q[n].kind = "modify"
        PROVE  ModifyStands(n, Q[n].table, E, Q2, N + 1, D2, R)
    <3> DEFINE u == Q[n].table
    <3>1. PICK x \in E[u] :
            /\ x.handle = Q[n].handle /\ x.status = "MODIFYING"
            /\ x.action_name = Q[n].action /\ x.action_data = Q[n].data
            /\ <<u, x.match_key>> \notin R
            /\ n <= N => D[u][x.handle] = Content(x)
      BY <2>1 DEF Ledger, ModifiesStand, ModifyStands
    <3>2. x.handle \in DOMAIN D[u]
      BY <3>1, <1>0 DEF Ledger, Stands, EntryStands
    <3>3. n # N + 1 /\ (u # t \/ x.handle # h)
      BY <3>1, <2>1, <1>5 DEF For
    <3>4. n <= N + 1 => D2[u][x.handle] = Content(x)
      BY <3>1, <3>2, <3>3, <1>0, <1>4
    <3> QED
      BY <3>1, <3>4, <1>0 DEF ModifyStands
  <2> QED
    BY <2>1, <1>0 DEF ModifiesStand
<1>10. DeletesStand(E, Q2, N + 1, D2)
  <2>1. ASSUME NEW n \in Line(Q), Q[n].kind = "delete"
        PROVE  \E x \in E[Q[n].table] :
                 /\ x.handle = Q[n].handle /\ x.status = "DELETING"
                 /\ n > N + 1 =>
                      /\ x.handle \in DOMAIN D2[Q[n].table]
                      /\ D2[Q[n].table][x.handle].match_key = x.match_key
    <3>1. n > N + 1 => n > N /\ n # N + 1
      BY <1>0
    <3>2. n > N + 1 => Q[n].table # t \/ Q[n].handle # h
      BY <3>1, <2>1, <1>5 DEF For
    <3> QED
      BY <3>1, <3>2, <2>1, <1>0, <1>4 DEF Ledger, DeletesStand
  <2> QED
    BY <2>1, <1>0 DEF DeletesStand
<1>11. FailuresStand(E, Q2, N + 1)
  BY <1>0 DEF Ledger, FailuresStand
<1>12. OneEach(Q2, N + 1)
  <2>1. \A n \in Line(Q) : Q[n].kind = "insert" => (n <= N + 1 <=> n <= N)
    BY <1>0
  <2> QED
    BY <2>1, <1>0 DEF Ledger, OneEach
<1>13. Held(E, Q2, N + 1, D2)
  <2>1. ASSUME NEW u \in Tables, NEW x \in DOMAIN D2[u]
        PROVE  IsHeld(x, u, E, Q2, N + 1, D2)
    <3>1. /\ x \in DOMAIN D[u] /\ D2[u][x] = D[u][x]
          /\ u # t \/ x # h
      BY <1>1 DEF SameRows
    <3>2. IsHeld(x, u, E, Q, N, D)
      BY <3>1 DEF Ledger, Held
    <3>3. ~Deletes(Q2[N + 1], u, x)
      BY <3>1, <1>0 DEF Deletes, For
    <3> QED
      BY <3>1, <3>2, <3>3, <1>0 DEF IsHeld
  <2> QED
    BY <2>1 DEF Held
<1> QED
  BY <1>6, <1>7, <1>8, <1>9, <1>10, <1>11, <1>12, <1>13 DEF Ledger

(* The device refuses an insert or a modify; its entry stays as it is, for *)
(* good.                                                                   *)
LEMMA LedgerFail ==
  ASSUME NEW E, NEW Q, NEW N, NEW D, NEW R,
         LedgerTypes(E, Q, N, D, R), Ledger(E, Q, N, D, R),
         NEW c, c = Q[N + 1], NEW t, t = c.table,
         NEW e \in E[t], e.status \in {"INSERTING", "MODIFYING"},
         \/ c.kind = "insert" /\ e.match_key = c.match_key
         \/ c.kind = "modify" /\ e.handle = c.handle /\ e.status = "MODIFYING",
         NEW R2, R2 = R \cup {<<t, e.match_key>>},
         NEW r, r.kind = "failed", r.table = t, r.handle = c.handle,
         NEW Q2, Answered(Q, Q2, N + 1, r)
  PROVE  Ledger(E, Q2, N + 1, D, R2)
<1>0. /\ Len(Q) \in Nat /\ N \in Nat /\ N + 1 \in Line(Q)
      /\ Line(Q2) = Line(Q) /\ Line(Q) \subseteq Nat /\ Q2[N + 1] = r
      /\ \A n \in Line(Q) :
           n # N + 1 => Q2[n] = Q[n] /\ (n <= N + 1 <=> n <= N)
      /\ \A n \in Line(Q) : Q[n].table \in Tables
      /\ \A n \in 1 .. N + 1 : n \in Line(Q) /\ (n = N + 1 \/ n \in 1 .. N)
      /\ \A n \in 1 .. N : n \in Line(Q) /\ n # N + 1
      /\ \A n \in Line(Q) : \A m \in 1 .. n - 1 : m \in Line(Q)
      /\ ~(N + 1 <= N) /\ N + 1 <= N + 1
  BY DEF LedgerTypes, Answered, Line, CommandType
<1>1. /\ t \in Tables /\ NoHandle \notin Handles
      /\ \A u \in Tables : E[u] \subseteq EntryType
      /\ c.kind \in {"insert", "modify"}
  BY <1>0, ControlPlaneAssumption DEF LedgerTypes
<1>2. c.kind = "insert" => c.handle = NoHandle
  BY <1>0 DEF Ledger, InsertsStand, InsertStands
<1>3. e.handle = NoHandle <=> e.status = "INSERTING"
  BY <1>1 DEF Ledger, Stands, EntryStands
<1>4. Named(E)
  BY DEF Ledger
<1>5. \A n \in Line(Q) : \A u, x :
        /\ Deletes(Q2[n], u, x) <=> Deletes(Q[n], u, x)
        /\ n # N + 1 => (For(Q2[n], u, x) <=> For(Q[n], u, x))
        /\ For(Q2[n], u, x) /\ x # NoHandle => For(Q[n], u, x)
  BY <1>0, <1>1, <1>2 DEF Deletes, For
(* the entry is the only one with its key that is not deleted              *)
<1>6. \A x \in E[t] :
        x.match_key = e.match_key /\ x.status # "DELETING" => x = e
  BY <1>1, <1>4 DEF Named
<1>7. \A n \in Line(Q) : n # N + 1 /\ Q[n].table = t =>
        /\ Q[n].kind = "insert" => Q[n].match_key # e.match_key
        /\ Q[n].kind = "modify" => Q[n].handle # e.handle
  <2>1. ASSUME NEW n \in Line(Q), n # N + 1, Q[n].table = t,
               Q[n].kind = "insert", Q[n].match_key = e.match_key
        PROVE  FALSE
    <3>1. PICK x \in E[t] : Asked(x, Q[n])
      BY <2>1 DEF Ledger, InsertsStand, InsertStands
    <3>2. x = e /\ e.status = "INSERTING"
      BY <3>1, <2>1, <1>6 DEF Asked
    <3>3. c.kind = "insert"
      BY <3>2
    <3> QED
      BY <3>3, <2>1, <1>0 DEF Ledger, OneEach
  <2>2. ASSUME NEW n \in Line(Q), n # N + 1, Q[n].table = t,
               Q[n].kind = "modify", Q[n].handle = e.handle
        PROVE  FALSE
    <3>1. PICK x \in E[t] : x.handle = Q[n].handle /\ x.status = "MODIFYING"
      BY <2>2 DEF Ledger, ModifiesStand, ModifyStands
    <3>2. x.handle # NoHandle
      BY <3>1, <1>1 DEF Ledger, Stands, EntryStands
    <3>3. x = e
      BY <3>1, <3>2, <2>2, <1>1, <1>4 DEF Named
    <3>4. CASE c.kind = "modify"
      BY <3>1, <3>2, <3>4, <2>2, <1>0 DEF Ledger, OneEach
    <3>5. CASE c.kind = "insert"
      <4>1. PICK y \in E[t] : Asked(y, c)
        BY <3>5, <1>0 DEF Ledger, InsertsStand, InsertStands
      <4>2. y = e
        BY <4>1, <3>5, <1>6 DEF Asked
      <4> QED
        BY <4>1, <4>2, <3>1, <3>3 DEF Asked
    <3> QED
      BY <3>4, <3>5, <1>1
  <2> QED
    BY <2>1, <2>2
<1>8. Stands(E, Q2, D, R2)
  <2>1. ASSUME NEW u \in Tables, NEW x \in E[u]
        PROVE  EntryStands(x, u, Q2, D, R2)
    <3>1. EntryStands(x, u, Q, D, R)
      BY DEF Ledger, Stands
    <3>2. ASSUME x.status = "INSERTING", <<u, x.match_key>> \notin R2
          PROVE  \E n \in Line(Q2) : Inserts(Q2[n], u, x.match_key)
      <4>1. PICK n \in Line(Q) : Inserts(Q[n], u, x.match_key)
        BY <3>1, <3>2 DEF EntryStands
      <4>2. n # N + 1
        BY <4>1, <3>2 DEF Inserts
      <4> QED
        BY <4>1, <4>2, <1>0
    <3>3. ASSUME x.status = "MODIFYING", <<u, x.match_key>> \notin R2
          PROVE  \E n \in Line(Q2) : Modifies(Q2[n], u, x.handle)
      <4>1. PICK n \in Line(Q) : Modifies(Q[n], u, x.handle)
        BY <3>1, <3>3 DEF EntryStands
      <4>2. x.handle # NoHandle
        BY <3>1, <3>3 DEF EntryStands
      <4>3. n # N + 1
        BY <4>1, <4>2, <3>3, <1>1, <1>4 DEF Modifies, For, Named
      <4> QED
        BY <4>1, <4>3, <1>0
    <3>4. ASSUME x.status = "OK"
          PROVE  <<u, x.match_key>> \notin R2
      BY <3>1, <3>4, <1>6 DEF EntryStands
    <3> QED
      BY <3>1, <3>2, <3>3, <3>4, <1>0, <1>5 DEF EntryStands
  <2> QED
    BY <2>1 DEF Stands
<1>9. InsertsStand(E, Q2, N + 1, D, R2)
  <2>1. ASSUME NEW n \in Line(Q), Q[n].kind = "insert", n # N + 1
        PROVE  InsertStands(n, Q[n].table, E, Q2, N + 1, D, R2)
    <3> DEFINE u == Q[n].table
    <3>1. InsertStands(n, u, E, Q, N, D, R)
      BY <2>1 DEF Ledger, InsertsStand
    <3>2. /\ Q2[n] = Q[n] /\ (n <= N + 1 <=> n <= N) /\ u \in Tables
          /\ \A m \in 1 .. n - 1 : m \in Line(Q)
      BY <2>1, <1>0
    <3>3. <<u, Q[n].match_key>> \notin R2
      BY <3>1, <2>1, <1>7 DEF InsertStands
    <3> HIDE DEF u
    <3>4. \A x : (\E m \in 1 .. n - 1 : Deletes(Q[m], u, x))
                  => \E m \in 1 .. n - 1 : Deletes(Q2[m], u, x)
      BY <1>5, <3>2
    <3>5. InsertStands(n, u, E, Q2, N + 1, D, R2)
      BY <3>1, <3>2, <3>3, <3>4 DEF InsertStands
    <3> QED
      BY <3>5 DEF u
  <2>2. ASSUME NEW n \in Line(Q2), Q2[n].kind = "insert"
        PROVE  InsertStands(n, Q2[n].table, E, Q2, N + 1, D, R2)
    <3>1. n \in Line(Q) /\ n # N + 1
      BY <2>2, <1>0
    <3>2. Q2[n] = Q[n]
      BY <3>1, <1>0
    <3>3. InsertStands(n, Q[n].table, E, Q2, N + 1, D, R2)
      BY <2>1, <2>2, <3>1, <3>2
    <3> QED
      BY <3>2, <3>3
  <2> QED
    BY <2>2 DEF InsertsStand
<1>10. ModifiesStand(E, Q2, N + 1, D, R2)
  <2>1. ASSUME NEW n \in Line(Q), Q[n].kind = "modify", n # N + 1
        PROVE  ModifyStands(n, Q[n].table, E, Q2, N + 1, D, R2)
    <3> DEFINE u == Q[n].table
    <3>1. PICK x \in E[u] :
            /\ x.handle = Q[n].handle /\ x.status = "MODIFYING"
            /\ x.action_name = Q[n].action /\ x.action_data = Q[n].data
            /\ <<u, x.match_key>> \notin R
            /\ n <= N => D[u][x.handle] = Content(x)
      BY <2>1 DEF Ledger, ModifiesStand, ModifyStands
    <3>2. <<u, x.match_key>> \notin R2
      BY <3>1, <2>1, <1>6, <1>7
    <3> QED
      BY <3>1, <3>2, <2>1, <1>0 DEF ModifyStands
  <2>2. ASSUME NEW n \in Line(Q2), Q2[n].kind = "modify"
        PROVE  ModifyStands(n, Q2[n].table, E, Q2, N + 1, D, R2)
    <3>1. n \in Line(Q) /\ n # N + 1
      BY <2>2, <1>0
    <3>2. Q2[n] = Q[n]
      BY <3>1, <1>0
    <3> QED
      BY <2>1, <2>2, <3>1, <3>2
  <2> QED
    BY <2>2 DEF ModifiesStand
<1>11. DeletesStand(E, Q2, N + 1, D)
  <2>1. \A n \in Line(Q) : n > N + 1 => n > N
    BY <1>0
  <2>2. \A n \in Line(Q) : Q2[n].kind = "delete" => Q2[n] = Q[n]
    BY <1>0
  <2> QED
    BY <2>1, <2>2, <1>0 DEF Ledger, DeletesStand
<1>12. FailuresStand(E, Q2, N + 1)
  BY <1>0, <1>2 DEF Ledger, FailuresStand
<1>13. OneEach(Q2, N + 1)
  <2>1. OneEach(Q, N)
    BY DEF Ledger
  <2>2. Q2[N + 1].kind = "failed" /\ Q2[N + 1].table = Q[N + 1].table
    BY <1>0
  <2>3. ASSUME NEW n \in Line(Q)
        PROVE  /\ Q2[n].table = Q[n].table
               /\ Q2[n].kind = "insert" =>
                    Q2[n] = Q[n] /\ (n <= N + 1 => n <= N)
               /\ Q2[n].kind # "insert" /\ Q2[n].handle # NoHandle =>
                    Q[n].kind # "insert" /\ Q2[n].handle = Q[n].handle
    <3>1. CASE n = N + 1
      BY <3>1, <2>2, <1>0, <1>2
    <3>2. CASE n # N + 1
      BY <3>2, <1>0
    <3> QED
      BY <3>1, <3>2
  <2>4. ASSUME NEW n \in Line(Q), NEW m \in Line(Q), Q2[n].table = Q2[m].table,
               \/ /\ Q2[n].kind # "insert" /\ Q2[m].kind # "insert"
                  /\ Q2[n].handle = Q2[m].handle /\ Q2[n].handle # NoHandle
               \/ /\ Q2[n].kind = "insert" /\ Q2[m].kind = "insert"
                  /\ \/ Q2[n].match_key = Q2[m].match_key
                     \/ /\ n <= N + 1 /\ m <= N + 1
                        /\ Q2[n].handle = Q2[m].handle
        PROVE  n = m
    <3>1. Q[n].table = Q[m].table
      BY <2>3, <2>4
    <3>2. CASE Q2[n].kind # "insert" /\ Q2[m].kind # "insert"
      BY <3>1, <3>2, <2>1, <2>3, <2>4 DEF OneEach
    <3>3. CASE Q2[n].kind = "insert" /\ Q2[m].kind = "insert"
      BY <3>1, <3>3, <2>1, <2>3, <2>4 DEF OneEach
    <3> QED
      BY <3>2, <3>3, <2>4
  <2> QED
    BY <2>4, <1>0 DEF OneEach
<1>14. Held(E, Q2, N + 1, D)
  <2>1. ASSUME NEW u \in Tables, NEW x \in DOMAIN D[u]
        PROVE  IsHeld(x, u, E, Q2, N + 1, D)
    <3>1. IsHeld(x, u, E, Q, N, D)
      BY DEF Ledger, Held
    <3>2. ~Deletes(Q2[N + 1], u, x)
      BY <1>0 DEF Deletes
    <3> QED
      BY <3>1, <3>2, <1>0 DEF IsHeld
  <2> QED
    BY <2>1 DEF Held
<1>15. Refusals(E, R2)
  BY DEF Ledger, Refusals
<1> QED
  BY <1>4, <1>8, <1>9, <1>10, <1>11, <1>12, <1>13, <1>14, <1>15 DEF Ledger

(* Where what is on its way is found when the first result is taken.       *)
LEMMA TakenLine ==
  ASSUME NEW E, NEW Q, NEW N, NEW D, NEW R, LedgerTypes(E, Q, N, D, R),
         N # 0, NEW Q2, Taken(Q, Q2)
  PROVE  /\ 1 \in Line(Q) /\ N \in Nat /\ N - 1 \in Nat
         /\ \A n \in Line(Q) :
              /\ Q[n].table \in Tables /\ n \in Nat
              /\ n # 1 => /\ n - 1 \in Line(Q2) /\ Q2[n - 1] = Q[n]
                          /\ n <= N <=> n - 1 <= N - 1
         /\ \A n \in Line(Q2) :
              /\ n \in Nat /\ n + 1 \in Line(Q) /\ n + 1 # 1
              /\ Q2[n] = Q[n + 1] /\ n + 1 - 1 = n
              /\ n <= N - 1 <=> n + 1 <= N
              /\ \A m \in 1 .. (n + 1) - 1 : m # 1 =>
                   m - 1 \in 1 .. n - 1 /\ Q2[m - 1] = Q[m]
         /\ \A n \in 1 .. N : n # 1 => n - 1 \in 1 .. N - 1 /\ Q2[n - 1] = Q[n]
         /\ \A n \in 1 .. N - 1 : n + 1 \in 1 .. N /\ Q2[n] = Q[n + 1]
                                  /\ n + 1 # 1
BY DEF LedgerTypes, Taken, Line, CommandType

(* When the first result is for an insert, its entry is the only one with  *)
(* its key, and no entry has its handle.                                   *)
LEMMA InsertAhead ==
  ASSUME NEW E, NEW Q, NEW N, NEW D, NEW R,
         LedgerTypes(E, Q, N, D, R), Ledger(E, Q, N, D, R), N # 0,
         NEW c, c = Q[1], c.kind = "insert", NEW t, t = c.table,
         NEW e \in E[t], Asked(e, c)
  PROVE  /\ InsertStands(1, t, E, Q, N, D, R) /\ c.handle \in DOMAIN D[t]
         /\ c.handle \in Handles /\ c.handle # NoHandle
         /\ \A x \in E[t] : x.handle # c.handle
         /\ \A x \in E[t] : x.match_key = e.match_key => x = e
<1>1. /\ 1 \in Line(Q) /\ 1 <= N /\ t \in Tables
      /\ \A m : ~(m \in 1 .. 1 - 1)
      /\ NoHandle \notin Handles /\ DOMAIN D[t] \subseteq Handles
  BY ControlPlaneAssumption DEF LedgerTypes, Line, CommandType
<1>2. InsertStands(1, t, E, Q, N, D, R)
  BY <1>1 DEF Ledger, InsertsStand
<1>3. c.handle \in DOMAIN D[t] /\ c.handle \in Handles /\ c.handle # NoHandle
  BY <1>1, <1>2 DEF InsertStands
<1>4. \A x \in E[t] : x.handle # c.handle
  BY <1>1, <1>2 DEF InsertStands
<1>5. \A x \in E[t] : x.match_key = e.match_key => x.status = "INSERTING"
  BY <1>1, <1>2 DEF InsertStands, Asked
<1>6. \A x \in E[t] : x.match_key = e.match_key => x = e
  <2>1. Named(E) /\ e.status = "INSERTING"
    BY DEF Ledger, Asked
  <2> QED
    BY <1>1, <1>5, <2>1 DEF Named
<1> QED
  BY <1>2, <1>3, <1>4, <1>6

(* The result of an insert gives its entry the handle.                     *)
LEMMA LedgerAcceptInsert ==
  ASSUME NEW E, NEW Q, NEW N, NEW D, NEW R,
         LedgerTypes(E, Q, N, D, R), Ledger(E, Q, N, D, R), N # 0,
         NEW c, c = Q[1], c.kind = "insert", NEW t, t = c.table,
         NEW e \in E[t], Asked(e, c),
         NEW e2, e2.match_key = e.match_key, e2.action_name = e.action_name,
         e2.action_data = e.action_data, e2.handle = c.handle,
         e2.status = "OK",
         NEW E2, Swapped(E, E2, t, e, e2),
         NEW Q2, Taken(Q, Q2)
  PROVE  Ledger(E2, Q2, N - 1, D, R)
<1>0. /\ 1 \in Line(Q) /\ N \in Nat /\ N - 1 \in Nat
      /\ \A n \in Line(Q) :
           /\ Q[n].table \in Tables /\ n \in Nat
           /\ n # 1 => /\ n - 1 \in Line(Q2) /\ Q2[n - 1] = Q[n]
                       /\ n <= N <=> n - 1 <= N - 1
      /\ \A n \in Line(Q2) :
           /\ n \in Nat /\ n + 1 \in Line(Q) /\ n + 1 # 1
           /\ Q2[n] = Q[n + 1] /\ n + 1 - 1 = n
           /\ n <= N - 1 <=> n + 1 <= N
           /\ \A m \in 1 .. (n + 1) - 1 : m # 1 =>
                m - 1 \in 1 .. n - 1 /\ Q2[m - 1] = Q[m]
      /\ \A n \in 1 .. N : n # 1 => n - 1 \in 1 .. N - 1 /\ Q2[n - 1] = Q[n]
      /\ \A n \in 1 .. N - 1 : n + 1 \in 1 .. N /\ Q2[n] = Q[n + 1]
                               /\ n + 1 # 1
  BY TakenLine
<1>1. /\ e \in E[t] /\ e2 \in E2[t]
      /\ \A u \in Tables : \A x \in E2[u] :
           (x \in E[u] /\ (u = t => x # e)) \/ (u = t /\ x = e2)
      /\ \A u \in Tables : \A x \in E[u] : (u = t /\ x = e) \/ x \in E2[u]
  BY DEF Swapped
<1> DEFINE h == c.handle
<1>2. /\ t \in Tables /\ NoHandle \notin Handles
      /\ \A u \in Tables : DOMAIN D[u] \subseteq Handles
      /\ \A u \in Tables : E[u] \subseteq EntryType
  BY <1>0, ControlPlaneAssumption DEF LedgerTypes
<1>3. /\ InsertStands(1, t, E, Q, N, D, R) /\ 1 <= N
      /\ h \in DOMAIN D[t] /\ h \in Handles /\ h # NoHandle
  BY <1>0, InsertAhead
<1>4. /\ h \in DOMAIN D[t] /\ h \in Handles /\ h # NoHandle
      /\ D[t][h] = Row(c, c.match_key) /\ <<t, e.match_key>> \notin R
  BY <1>3 DEF InsertStands, Asked
<1>5. /\ \A x \in E[t] : x.handle # h
      /\ \A x \in E[t] : x.match_key = e.match_key => x = e
  BY InsertAhead
<1>6. D[t][h] = Content(e2) /\ D[t][h].match_key = e.match_key
  <2>1. /\ Row(c, c.match_key) = Content(e2)
        /\ Content(e2).match_key = e.match_key
    BY DEF Row, Content, Asked
  <2> QED
    BY <2>1, <1>4
<1>7. \A n \in Line(Q) : ~For(Q[n], t, h)
  <2> SUFFICES ASSUME NEW n \in Line(Q), For(Q[n], t, h) PROVE FALSE
    OBVIOUS
  <2>0. Q[n].table = t /\ Q[n].handle = h /\ Q[n].kind # "insert"
    BY DEF For
  <2>1. Q[n].kind \in {"modify", "delete", "failed"}
    BY <2>0 DEF LedgerTypes, CommandType
  <2>2. CASE Q[n].kind = "modify"
    <3>1. ModifyStands(n, t, E, Q, N, D, R)
      BY <2>0, <2>2 DEF Ledger, ModifiesStand
    <3> QED
      BY <3>1, <2>0, <1>5 DEF ModifyStands
  <2>3. CASE Q[n].kind = "delete"
    <3>1. PICK x \in E[Q[n].table] : x.handle = Q[n].handle
      BY <2>3 DEF Ledger, DeletesStand
    <3> QED
      BY <3>1, <2>0, <1>5
  <2>4. CASE Q[n].kind = "failed"
    <3>1. \/ Q[n].handle = NoHandle
          \/ \E x \in E[Q[n].table] : x.handle = Q[n].handle
      BY <2>4 DEF Ledger, FailuresStand
    <3> QED
      BY <3>1, <2>0, <1>4, <1>5
  <2> QED
    BY <2>1, <2>2, <2>3, <2>4
<1>8. \A n \in Line(Q) : Q[n].kind = "insert" /\ Q[n].table = t /\ n # 1 =>
        /\ Q[n].match_key # e.match_key
        /\ n <= N => Q[n].handle # h
  BY <1>0, <1>3 DEF Ledger, OneEach, Asked
<1> HIDE DEF h
<1>9. Named(E2)
  <2>1. Named(E)
    BY DEF Ledger
  <2>2. e2.handle = h
    BY DEF h
  <2> QED
    BY <2>1, <2>2, <1>1, <1>2, <1>5 DEF Named
<1>10. Stands(E2, Q2, D, R)
  <2>1. ASSUME NEW u \in Tables, NEW x \in E[u], u = t => x # e
        PROVE  EntryStands(x, u, Q2, D, R)
    <3>1. EntryStands(x, u, Q, D, R)
      BY DEF Ledger, Stands
    <3>2. x.status = "INSERTING" /\ <<u, x.match_key>> \notin R =>
            \E n \in Line(Q2) : Inserts(Q2[n], u, x.match_key)
      <4> SUFFICES ASSUME x.status = "INSERTING", <<u, x.match_key>> \notin R
                   PROVE  \E n \in Line(Q2) : Inserts(Q2[n], u, x.match_key)
        OBVIOUS
      <4>1. PICK n \in Line(Q) : Inserts(Q[n], u, x.match_key)
        BY <3>1 DEF EntryStands
      <4>2. n # 1
        BY <4>1, <2>1, <1>5 DEF Inserts, Asked
      <4> QED
        BY <4>1, <4>2, <1>0
    <3>3. \A n \in Line(Q2) :
            For(Q2[n], u, x.handle) <=> For(Q[n + 1], u, x.handle)
      BY <1>0
    <3>4. \A n \in Line(Q) : For(Q[n], u, x.handle) => n # 1
      BY DEF For
    <3> QED
      BY <3>1, <3>2, <3>3, <3>4, <1>0 DEF EntryStands, Modifies, Deletes
  <2>2. EntryStands(e2, t, Q2, D, R)
    <3>1. e2.handle = h /\ e2.handle # NoHandle
      BY <1>4 DEF h
    <3>2. \A n \in Line(Q2) : ~For(Q2[n], t, h)
      BY <1>0, <1>7
    <3> QED
      BY <3>1, <3>2, <1>4, <1>6 DEF EntryStands
  <2> QED
    BY <1>1, <2>1, <2>2 DEF Stands
<1>11. InsertsStand(E2, Q2, N - 1, D, R)
  <2>1. ASSUME NEW n \in Line(Q2), Q2[n].kind = "insert"
        PROVE  InsertStands(n, Q2[n].table, E2, Q2, N - 1, D, R)
    <3> DEFINE u == Q[n + 1].table
    <3>1. InsertStands(n + 1, u, E, Q, N, D, R)
      BY <2>1, <1>0 DEF Ledger, InsertsStand
    <3>2. /\ Q2[n] = Q[n + 1] /\ (n <= N - 1 <=> n + 1 <= N) /\ u \in Tables
          /\ \A m \in 1 .. (n + 1) - 1 : m # 1 =>
               m - 1 \in 1 .. n - 1 /\ Q2[m - 1] = Q[m]
      BY <1>0
    <3>3. u = t => /\ Q[n + 1].match_key # e.match_key
                   /\ n + 1 <= N => Q[n + 1].handle # h
      BY <2>1, <1>0, <1>8
    <3> HIDE DEF u
    <3>4. \E x \in E2[u] : Asked(x, Q2[n])
      <4>1. PICK x \in E[u] : Asked(x, Q[n + 1])
        BY <3>1 DEF InsertStands
      <4>2. u = t => x # e
        BY <4>1, <3>3 DEF Asked
      <4> QED
        BY <4>1, <4>2, <3>2, <1>1
    <3>5. ASSUME NEW x \in E2[u],
                 \/ x.match_key = Q2[n].match_key /\ x.status # "INSERTING"
                 \/ n <= N - 1 /\ x.handle = Q2[n].handle
          PROVE  \E m \in 1 .. n - 1 : Deletes(Q2[m], u, x.handle)
      <4>1. ~(u = t /\ x = e2)
        BY <3>2, <3>3, <3>5 DEF h
      <4>2. x \in E[u]
        BY <4>1, <3>2, <1>1
      <4>3. PICK m \in 1 .. (n + 1) - 1 : Deletes(Q[m], u, x.handle)
        BY <4>2, <3>1, <3>2, <3>5 DEF InsertStands
      <4>4. m # 1
        BY <4>3 DEF Deletes, For
      <4> QED
        BY <4>3, <4>4, <3>2
    <3>6. InsertStands(n, u, E2, Q2, N - 1, D, R)
      BY <3>1, <3>2, <3>4, <3>5 DEF InsertStands
    <3> QED
      BY <3>2, <3>6 DEF u
  <2> QED
    BY <2>1 DEF InsertsStand
<1>12. ModifiesStand(E2, Q2, N - 1, D, R)
  <2>1. ASSUME NEW n \in Line(Q2), Q2[n].kind = "modify"
        PROVE  ModifyStands(n, Q2[n].table, E2, Q2, N - 1, D, R)
    <3>1. ModifyStands(n + 1, Q2[n].table, E, Q, N, D, R)
      BY <2>1, <1>0 DEF Ledger, ModifiesStand
    <3>2. \A x \in E[Q2[n].table] : x.status = "MODIFYING" =>
            x \in E2[Q2[n].table]
      BY <1>0, <1>1 DEF Asked
    <3> QED
      BY <3>1, <3>2, <1>0, ZenonT(30) DEF ModifyStands
  <2> QED
    BY <2>1 DEF ModifiesStand
<1>13. DeletesStand(E2, Q2, N - 1, D)
  <2>1. \A n \in Line(Q2) : n > N - 1 => n + 1 > N
    BY <1>0
  <2>2. e.status # "DELETING"
    BY DEF Asked
  <2> QED
    BY <2>1, <2>2, <1>0, <1>1 DEF Ledger, DeletesStand
<1>14. FailuresStand(E2, Q2, N - 1)
  <2>1. e.status # "MODIFYING"
    BY DEF Asked
  <2> QED
    BY <2>1, <1>0, <1>1 DEF Ledger, FailuresStand
<1>15. OneEach(Q2, N - 1)
  <2>1. OneEach(Q, N)
    BY DEF Ledger
  <2>2. \A n, m \in Line(Q2) : n + 1 = m + 1 => n = m
    BY <1>0
  <2> QED
    BY <2>1, <2>2, <1>0 DEF OneEach
<1>16. Held(E2, Q2, N - 1, D)
  <2>1. ASSUME NEW u \in Tables, NEW x \in DOMAIN D[u], u # t \/ x # h
        PROVE  IsHeld(x, u, E2, Q2, N - 1, D)
    <3>1. IsHeld(x, u, E, Q, N, D)
      BY DEF Ledger, Held
    <3>2. (\E y \in E[u] : y.handle = x /\ y.match_key = D[u][x].match_key)
          => \E y \in E2[u] : y.handle = x /\ y.match_key = D[u][x].match_key
      BY <1>1, <1>2 DEF Asked
    <3>3. \A n \in 1 .. N : Inserts(Q[n], u, D[u][x].match_key)
                              /\ Q[n].handle = x => n # 1
      BY <2>1 DEF Inserts, h
    <3> QED
      BY <3>1, <3>2, <3>3, <1>0 DEF IsHeld
  <2>2. IsHeld(h, t, E2, Q2, N - 1, D)
    <3>1. e2.handle = h
      BY DEF h
    <3>2. \A n \in 1 .. N - 1 : n \in Line(Q2)
      BY <1>0 DEF LedgerTypes, Taken, Line
    <3>3. \A n \in 1 .. N - 1 : ~Deletes(Q2[n], t, h)
      BY <3>2, <1>0, <1>7 DEF Deletes
    <3> QED
      BY <3>1, <3>3, <1>1, <1>6 DEF IsHeld
  <2> QED
    BY <2>1, <2>2 DEF Held
<1>17. Refusals(E2, R)
  BY <1>1, <1>4 DEF Ledger, Refusals
<1> QED
  BY <1>9, <1>10, <1>11, <1>12, <1>13, <1>14, <1>15, <1>16, <1>17 DEF Ledger

(* The result of a modify makes its entry OK again.                        *)
LEMMA LedgerAcceptModify ==
  ASSUME NEW E, NEW Q, NEW N, NEW D, NEW R,
         LedgerTypes(E, Q, N, D, R), Ledger(E, Q, N, D, R), N # 0,
         NEW c, c = Q[1], c.kind = "modify", NEW t, t = c.table,
         NEW e \in E[t], e.handle = c.handle,
         NEW e2, e2.match_key = e.match_key, e2.action_name = e.action_name,
         e2.action_data = e.action_data, e2.handle = e.handle,
         e2.status = "OK",
         NEW E2, Swapped(E, E2, t, e, e2),
         NEW Q2, Taken(Q, Q2)
  PROVE  Ledger(E2, Q2, N - 1, D, R)
<1>0. /\ 1 \in Line(Q) /\ N \in Nat /\ N - 1 \in Nat
      /\ \A n \in Line(Q) :
           /\ Q[n].table \in Tables /\ n \in Nat
           /\ n # 1 => /\ n - 1 \in Line(Q2) /\ Q2[n - 1] = Q[n]
                       /\ n <= N <=> n - 1 <= N - 1
      /\ \A n \in Line(Q2) :
           /\ n \in Nat /\ n + 1 \in Line(Q) /\ n + 1 # 1
           /\ Q2[n] = Q[n + 1] /\ n + 1 - 1 = n
           /\ n <= N - 1 <=> n + 1 <= N
           /\ \A m \in 1 .. (n + 1) - 1 : m # 1 =>
                m - 1 \in 1 .. n - 1 /\ Q2[m - 1] = Q[m]
      /\ \A n \in 1 .. N : n # 1 => n - 1 \in 1 .. N - 1 /\ Q2[n - 1] = Q[n]
      /\ \A n \in 1 .. N - 1 : n + 1 \in 1 .. N /\ Q2[n] = Q[n + 1]
                               /\ n + 1 # 1
  BY TakenLine
<1>1. /\ e \in E[t] /\ e2 \in E2[t]
      /\ \A u \in Tables : \A x \in E2[u] :
           (x \in E[u] /\ (u = t => x # e)) \/ (u = t /\ x = e2)
      /\ \A u \in Tables : \A x \in E[u] : (u = t /\ x = e) \/ x \in E2[u]
  BY DEF Swapped
<1>2. t \in Tables /\ Named(E) /\ 1 <= N
  BY <1>0 DEF Ledger
<1>3. PICK y \in E[t] :
        /\ y.handle = c.handle /\ y.status = "MODIFYING"
        /\ <<t, y.match_key>> \notin R /\ D[t][y.handle] = Content(y)
  <2>1. ModifyStands(1, t, E, Q, N, D, R)
    BY <1>0 DEF Ledger, ModifiesStand
  <2> QED
    BY <2>1, <1>2 DEF ModifyStands
<1>4. EntryStands(y, t, Q, D, R)
  BY <1>2 DEF Ledger, Stands
<1>5. y = e
  BY <1>2, <1>3, <1>4 DEF EntryStands, Named
<1>6. /\ e.status = "MODIFYING" /\ e.handle # NoHandle
      /\ e.handle \in DOMAIN D[t] /\ D[t][e.handle] = Content(e)
      /\ <<t, e.match_key>> \notin R
  BY <1>3, <1>4, <1>5 DEF EntryStands
<1>7. \A n \in Line(Q) : n # 1 => ~For(Q[n], t, e.handle)
  BY <1>0, <1>6 DEF Ledger, OneEach, For
<1>8. \A x \in E[t] : x # e => x.handle # e.handle
  BY <1>2, <1>6 DEF Named
<1>9. Named(E2)
  BY <1>1, <1>2, <1>6 DEF Named
<1>10. Stands(E2, Q2, D, R)
  <2>1. ASSUME NEW u \in Tables, NEW x \in E[u], u = t => x # e
        PROVE  EntryStands(x, u, Q2, D, R)
    <3>1. EntryStands(x, u, Q, D, R)
      BY DEF Ledger, Stands
    <3>2. \A n \in Line(Q2) :
            For(Q2[n], u, x.handle) <=> For(Q[n + 1], u, x.handle)
      BY <1>0
    <3>3. \A n \in Line(Q) : For(Q[n], u, x.handle) => n # 1
      BY <2>1, <1>8 DEF For
    <3>4. \A n \in Line(Q) : Inserts(Q[n], u, x.match_key) => n # 1
      BY DEF Inserts
    <3> QED
      BY <3>1, <3>2, <3>3, <3>4, <1>0 DEF EntryStands, Modifies, Deletes
  <2>2. EntryStands(e2, t, Q2, D, R)
    <3>1. \A n \in Line(Q2) : ~For(Q2[n], t, e.handle)
      BY <1>0, <1>7
    <3>2. Content(e2) = Content(e)
      BY DEF Content
    <3> QED
      BY <3>1, <3>2, <1>6 DEF EntryStands
  <2> QED
    BY <1>1, <2>1, <2>2 DEF Stands
<1>11. InsertsStand(E2, Q2, N - 1, D, R)
  <2>1. ASSUME NEW n \in Line(Q2), Q2[n].kind = "insert"
        PROVE  InsertStands(n, Q2[n].table, E2, Q2, N - 1, D, R)
    <3> DEFINE u == Q[n + 1].table
    <3>1. InsertStands(n + 1, u, E, Q, N, D, R)
      BY <2>1, <1>0 DEF Ledger, InsertsStand
    <3>2. /\ Q2[n] = Q[n + 1] /\ (n <= N - 1 <=> n + 1 <= N) /\ u \in Tables
          /\ \A m \in 1 .. (n + 1) - 1 : m # 1 =>
               m - 1 \in 1 .. n - 1 /\ Q2[m - 1] = Q[m]
      BY <1>0
    <3> HIDE DEF u
    <3>3. \E x \in E2[u] : Asked(x, Q2[n])
      <4>1. PICK x \in E[u] : Asked(x, Q[n + 1])
        BY <3>1 DEF InsertStands
      <4>2. x # e
        BY <4>1, <1>6 DEF Asked
      <4> QED
        BY <4>1, <4>2, <3>2, <1>1
    <3>4. ASSUME NEW x \in E2[u],
                 \/ x.match_key = Q2[n].match_key /\ x.status # "INSERTING"
                 \/ n <= N - 1 /\ x.handle = Q2[n].handle
          PROVE  \E m \in 1 .. n - 1 : Deletes(Q2[m], u, x.handle)
      <4>1. \E m \in 1 .. (n + 1) - 1 : Deletes(Q[m], u, x.handle)
        <5>1. CASE x \in E[u]
          BY <5>1, <3>1, <3>2, <3>4 DEF InsertStands
        <5>2. CASE u = t /\ x = e2
          <6>1. \E m \in 1 .. (n + 1) - 1 : Deletes(Q[m], t, e.handle)
            BY <5>2, <3>1, <3>2, <3>4, <1>6 DEF InsertStands
          <6> QED
            BY <6>1, <5>2
        <5> QED
          BY <5>1, <5>2, <3>2, <1>1
      <4>2. PICK m \in 1 .. (n + 1) - 1 : Deletes(Q[m], u, x.handle)
        BY <4>1
      <4>3. m # 1
        BY <4>2 DEF Deletes, For
      <4> QED
        BY <4>2, <4>3, <3>2
    <3>5. InsertStands(n, u, E2, Q2, N - 1, D, R)
      BY <3>1, <3>2, <3>3, <3>4 DEF InsertStands
    <3> QED
      BY <3>2, <3>5 DEF u
  <2> QED
    BY <2>1 DEF InsertsStand
<1>12. ModifiesStand(E2, Q2, N - 1, D, R)
  <2>1. ASSUME NEW n \in Line(Q2), Q2[n].kind = "modify"
        PROVE  ModifyStands(n, Q2[n].table, E2, Q2, N - 1, D, R)
    <3>1. ModifyStands(n + 1, Q2[n].table, E, Q, N, D, R)
      BY <2>1, <1>0 DEF Ledger, ModifiesStand
    <3>2. \A x \in E[Q2[n].table] : x.handle = Q[n + 1].handle =>
            x \in E2[Q2[n].table]
      BY <2>1, <1>0, <1>1, <1>7 DEF For
    <3> QED
      BY <3>1, <3>2, <1>0, ZenonT(30) DEF ModifyStands
  <2> QED
    BY <2>1 DEF ModifiesStand
<1>13. DeletesStand(E2, Q2, N - 1, D)
  <2>1. \A n \in Line(Q2) : n > N - 1 => n + 1 > N
    BY <1>0
  <2> QED
    BY <2>1, <1>0, <1>1, <1>6 DEF Ledger, DeletesStand
<1>14. FailuresStand(E2, Q2, N - 1)
  <2>1. ASSUME NEW n \in Line(Q2), Q2[n].kind = "failed"
        PROVE  \A x \in E[Q2[n].table] : x.handle = Q2[n].handle =>
                 x \in E2[Q2[n].table]
    BY <2>1, <1>0, <1>1, <1>7 DEF For
  <2> QED
    BY <2>1, <1>0 DEF Ledger, FailuresStand
<1>15. OneEach(Q2, N - 1)
  <2>1. OneEach(Q, N)
    BY DEF Ledger
  <2>2. \A n, m \in Line(Q2) : n + 1 = m + 1 => n = m
    BY <1>0
  <2> QED
    BY <2>1, <2>2, <1>0 DEF OneEach
<1>16. Held(E2, Q2, N - 1, D)
  <2>1. ASSUME NEW u \in Tables, NEW x \in DOMAIN D[u]
        PROVE  IsHeld(x, u, E2, Q2, N - 1, D)
    <3>1. IsHeld(x, u, E, Q, N, D)
      BY DEF Ledger, Held
    <3>2. (\E z \in E[u] : z.handle = x /\ z.match_key = D[u][x].match_key)
          => \E z \in E2[u] : z.handle = x /\ z.match_key = D[u][x].match_key
      BY <1>1
    <3>3. \A n \in 1 .. N : Inserts(Q[n], u, D[u][x].match_key) => n # 1
      BY DEF Inserts
    <3> QED
      BY <3>1, <3>2, <3>3, <1>0 DEF IsHeld
  <2> QED
    BY <2>1 DEF Held
<1>17. Refusals(E2, R)
  BY <1>1, <1>6 DEF Ledger, Refusals
<1> QED
  BY <1>9, <1>10, <1>11, <1>12, <1>13, <1>14, <1>15, <1>16, <1>17 DEF Ledger

(* The result of a delete takes its entry from the list.                   *)
LEMMA LedgerAcceptDelete ==
  ASSUME NEW E, NEW Q, NEW N, NEW D, NEW R,
         LedgerTypes(E, Q, N, D, R), Ledger(E, Q, N, D, R), N # 0,
         NEW c, c = Q[1], c.kind = "delete", NEW t, t = c.table,
         NEW e \in E[t], e.handle = c.handle, e.status = "DELETING",
         NEW E2, \A u \in Tables : \A x :
           x \in E2[u] <=> x \in E[u] /\ (u = t => x # e),
         NEW Q2, Taken(Q, Q2)
  PROVE  Ledger(E2, Q2, N - 1, D, R)
<1>0. /\ 1 \in Line(Q) /\ N \in Nat /\ N - 1 \in Nat
      /\ \A n \in Line(Q) :
           /\ Q[n].table \in Tables /\ n \in Nat
           /\ n # 1 => /\ n - 1 \in Line(Q2) /\ Q2[n - 1] = Q[n]
                       /\ n <= N <=> n - 1 <= N - 1
      /\ \A n \in Line(Q2) :
           /\ n \in Nat /\ n + 1 \in Line(Q) /\ n + 1 # 1
           /\ Q2[n] = Q[n + 1] /\ n + 1 - 1 = n
           /\ n <= N - 1 <=> n + 1 <= N
           /\ \A m \in 1 .. (n + 1) - 1 : m # 1 =>
                m - 1 \in 1 .. n - 1 /\ Q2[m - 1] = Q[m]
      /\ \A n \in 1 .. N : n # 1 => n - 1 \in 1 .. N - 1 /\ Q2[n - 1] = Q[n]
      /\ \A n \in 1 .. N - 1 : n + 1 \in 1 .. N /\ Q2[n] = Q[n + 1]
                               /\ n + 1 # 1
  BY TakenLine
<1>1. t \in Tables /\ Named(E) /\ 1 \in 1 .. N
  BY <1>0 DEF Ledger
<1>2. e.handle # NoHandle
  <2>1. EntryStands(e, t, Q, D, R)
    BY <1>1 DEF Ledger, Stands
  <2> QED
    BY <2>1 DEF EntryStands
<1>3. \A n \in Line(Q) : n # 1 => ~For(Q[n], t, e.handle)
  BY <1>0, <1>2 DEF Ledger, OneEach, For
<1>4. \A x \in E[t] : x # e => x.handle # e.handle
  BY <1>1, <1>2 DEF Named
<1>5. Deletes(Q[1], t, e.handle)
  BY DEF Deletes, For
<1>6. Named(E2)
  BY <1>1 DEF Named
<1>7. Stands(E2, Q2, D, R)
  <2>1. ASSUME NEW u \in Tables, NEW x \in E2[u]
        PROVE  EntryStands(x, u, Q2, D, R)
    <3>1. EntryStands(x, u, Q, D, R)
      BY DEF Ledger, Stands
    <3>2. \A n \in Line(Q2) :
            For(Q2[n], u, x.handle) <=> For(Q[n + 1], u, x.handle)
      BY <1>0
    <3>3. \A n \in Line(Q) : For(Q[n], u, x.handle) => n # 1
      BY <1>4 DEF For
    <3>4. \A n \in Line(Q) : Inserts(Q[n], u, x.match_key) => n # 1
      BY DEF Inserts
    <3> QED
      BY <3>1, <3>2, <3>3, <3>4, <1>0 DEF EntryStands, Modifies, Deletes
  <2> QED
    BY <2>1 DEF Stands
<1>8. InsertsStand(E2, Q2, N - 1, D, R)
  <2>1. ASSUME NEW n \in Line(Q2), Q2[n].kind = "insert"
        PROVE  InsertStands(n, Q2[n].table, E2, Q2, N - 1, D, R)
    <3> DEFINE u == Q[n + 1].table
    <3>1. InsertStands(n + 1, u, E, Q, N, D, R)
      BY <2>1, <1>0 DEF Ledger, InsertsStand
    <3>2. /\ Q2[n] = Q[n + 1] /\ (n <= N - 1 <=> n + 1 <= N) /\ u \in Tables
          /\ \A m \in 1 .. (n + 1) - 1 : m # 1 =>
               m - 1 \in 1 .. n - 1 /\ Q2[m - 1] = Q[m]
      BY <1>0
    <3> HIDE DEF u
    <3>3. \E x \in E2[u] : Asked(x, Q2[n])
      <4>1. PICK x \in E[u] : Asked(x, Q[n + 1])
        BY <3>1 DEF InsertStands
      <4>2. x # e
        BY <4>1 DEF Asked
      <4> QED
        BY <4>1, <4>2, <3>2
    <3>4. ASSUME NEW x \in E2[u],
                 \/ x.match_key = Q2[n].match_key /\ x.status # "INSERTING"
                 \/ n <= N - 1 /\ x.handle = Q2[n].handle
          PROVE  \E m \in 1 .. n - 1 : Deletes(Q2[m], u, x.handle)
      <4>1. x \in E[u] /\ (u = t => x # e)
        BY <3>2
      <4>2. PICK m \in 1 .. (n + 1) - 1 : Deletes(Q[m], u, x.handle)
        BY <4>1, <3>1, <3>2, <3>4 DEF InsertStands
      <4>3. m # 1
        BY <4>1, <4>2, <1>4 DEF Deletes, For
      <4> QED
        BY <4>2, <4>3, <3>2
    <3>5. InsertStands(n, u, E2, Q2, N - 1, D, R)
      BY <3>1, <3>2, <3>3, <3>4 DEF InsertStands
    <3> QED
      BY <3>2, <3>5 DEF u
  <2> QED
    BY <2>1 DEF InsertsStand
<1>9. ModifiesStand(E2, Q2, N - 1, D, R)
  <2>1. ASSUME NEW n \in Line(Q2), Q2[n].kind = "modify"
        PROVE  ModifyStands(n, Q2[n].table, E2, Q2, N - 1, D, R)
    <3>1. ModifyStands(n + 1, Q2[n].table, E, Q, N, D, R)
      BY <2>1, <1>0 DEF Ledger, ModifiesStand
    <3>2. \A x \in E[Q2[n].table] : x.status = "MODIFYING" =>
            x \in E2[Q2[n].table]
      BY <1>0
    <3> QED
      BY <3>1, <3>2, <1>0, ZenonT(30) DEF ModifyStands
  <2> QED
    BY <2>1 DEF ModifiesStand
<1>10. DeletesStand(E2, Q2, N - 1, D)
  <2>1. \A n \in Line(Q2) : n > N - 1 => n + 1 > N
    BY <1>0
  <2>2. ASSUME NEW n \in Line(Q2), Q2[n].kind = "delete"
        PROVE  \A x \in E[Q2[n].table] : x.handle = Q2[n].handle =>
                 x \in E2[Q2[n].table]
    BY <2>2, <1>0, <1>3 DEF For
  <2> QED
    BY <2>1, <2>2, <1>0 DEF Ledger, DeletesStand
<1>11. FailuresStand(E2, Q2, N - 1)
  BY <1>0 DEF Ledger, FailuresStand
<1>12. OneEach(Q2, N - 1)
  <2>1. OneEach(Q, N)
    BY DEF Ledger
  <2>2. \A n, m \in Line(Q2) : n + 1 = m + 1 => n = m
    BY <1>0
  <2> QED
    BY <2>1, <2>2, <1>0 DEF OneEach
<1>13. Held(E2, Q2, N - 1, D)
  <2>1. ASSUME NEW u \in Tables, NEW x \in DOMAIN D[u]
        PROVE  IsHeld(x, u, E2, Q2, N - 1, D)
    <3>1. IsHeld(x, u, E, Q, N, D)
      BY DEF Ledger, Held
    <3>2. CASE /\ \E z \in E[u] : /\ z.handle = x
                                  /\ z.match_key = D[u][x].match_key
               /\ \A n \in 1 .. N : ~Deletes(Q[n], u, x)
      <4>1. \A z \in E[u] : z.handle = x => z \in E2[u]
        BY <3>2, <1>1, <1>5
      <4>2. \A n \in 1 .. N - 1 : ~Deletes(Q2[n], u, x)
        BY <3>2, <1>0
      <4> QED
        BY <3>2, <4>1, <4>2 DEF IsHeld
    <3>3. CASE \E n \in 1 .. N : /\ Inserts(Q[n], u, D[u][x].match_key)
                                 /\ Q[n].handle = x
      <4>1. PICK n \in 1 .. N : /\ Inserts(Q[n], u, D[u][x].match_key)
                                /\ Q[n].handle = x
        BY <3>3
      <4>2. n # 1
        BY <4>1 DEF Inserts
      <4> QED
        BY <4>1, <4>2, <1>0 DEF IsHeld
    <3> QED
      BY <3>1, <3>2, <3>3 DEF IsHeld
  <2> QED
    BY <2>1 DEF Held
<1>14. Refusals(E2, R)
  BY DEF Ledger, Refusals
<1> QED
  BY <1>6, <1>7, <1>8, <1>9, <1>10, <1>11, <1>12, <1>13, <1>14 DEF Ledger

(* pfpdb takes the news that a command failed and does nothing.            *)
LEMMA LedgerAcceptFailure ==
  ASSUME NEW E, NEW Q, NEW N, NEW D, NEW R,
         LedgerTypes(E, Q, N, D, R), Ledger(E, Q, N, D, R), N # 0,
         Q[1].kind = "failed", NEW Q2, Taken(Q, Q2)
  PROVE  Ledger(E, Q2, N - 1, D, R)
<1>0. /\ 1 \in Line(Q) /\ N \in Nat /\ N - 1 \in Nat
      /\ \A n \in Line(Q) :
           /\ Q[n].table \in Tables /\ n \in Nat
           /\ n # 1 => /\ n - 1 \in Line(Q2) /\ Q2[n - 1] = Q[n]
                       /\ n <= N <=> n - 1 <= N - 1
      /\ \A n \in Line(Q2) :
           /\ n \in Nat /\ n + 1 \in Line(Q) /\ n + 1 # 1
           /\ Q2[n] = Q[n + 1] /\ n + 1 - 1 = n
           /\ n <= N - 1 <=> n + 1 <= N
           /\ \A m \in 1 .. (n + 1) - 1 : m # 1 =>
                m - 1 \in 1 .. n - 1 /\ Q2[m - 1] = Q[m]
      /\ \A n \in 1 .. N : n # 1 => n - 1 \in 1 .. N - 1 /\ Q2[n - 1] = Q[n]
      /\ \A n \in 1 .. N - 1 : n + 1 \in 1 .. N /\ Q2[n] = Q[n + 1]
                               /\ n + 1 # 1
  BY TakenLine
<1>1. Stands(E, Q2, D, R)
  <2>1. ASSUME NEW u \in Tables, NEW x \in E[u]
        PROVE  EntryStands(x, u, Q2, D, R)
    <3>1. EntryStands(x, u, Q, D, R)
      BY DEF Ledger, Stands
    <3>2. \A n \in Line(Q2) :
            For(Q2[n], u, x.handle) <=> For(Q[n + 1], u, x.handle)
      BY <1>0
    <3>3. \A n \in Line(Q) : Modifies(Q[n], u, x.handle)
                               \/ Deletes(Q[n], u, x.handle) => n # 1
      BY DEF Modifies, Deletes
    <3>4. \A n \in Line(Q) : Inserts(Q[n], u, x.match_key) => n # 1
      BY DEF Inserts
    <3> QED
      BY <3>1, <3>2, <3>3, <3>4, <1>0 DEF EntryStands, Modifies, Deletes
  <2> QED
    BY <2>1 DEF Stands
<1>2. InsertsStand(E, Q2, N - 1, D, R)
  <2>1. ASSUME NEW n \in Line(Q2), Q2[n].kind = "insert"
        PROVE  InsertStands(n, Q2[n].table, E, Q2, N - 1, D, R)
    <3> DEFINE u == Q[n + 1].table
    <3>1. InsertStands(n + 1, u, E, Q, N, D, R)
      BY <2>1, <1>0 DEF Ledger, InsertsStand
    <3>2. /\ Q2[n] = Q[n + 1] /\ (n <= N - 1 <=> n + 1 <= N)
          /\ \A m \in 1 .. (n + 1) - 1 : m # 1 =>
               m - 1 \in 1 .. n - 1 /\ Q2[m - 1] = Q[m]
      BY <1>0
    <3> HIDE DEF u
    <3>3. \A x : (\E m \in 1 .. (n + 1) - 1 : Deletes(Q[m], u, x))
                  => \E m \in 1 .. n - 1 : Deletes(Q2[m], u, x)
      BY <3>2 DEF Deletes
    <3>4. InsertStands(n, u, E, Q2, N - 1, D, R)
      BY <3>1, <3>2, <3>3 DEF InsertStands
    <3> QED
      BY <3>2, <3>4 DEF u
  <2> QED
    BY <2>1 DEF InsertsStand
<1>3. ModifiesStand(E, Q2, N - 1, D, R)
  <2>1. ASSUME NEW n \in Line(Q2), Q2[n].kind = "modify"
        PROVE  ModifyStands(n, Q2[n].table, E, Q2, N - 1, D, R)
    <3>1. ModifyStands(n + 1, Q2[n].table, E, Q, N, D, R)
      BY <2>1, <1>0 DEF Ledger, ModifiesStand
    <3> QED
      BY <3>1, <1>0 DEF ModifyStands
  <2> QED
    BY <2>1 DEF ModifiesStand
<1>4. DeletesStand(E, Q2, N - 1, D)
  <2>1. \A n \in Line(Q2) : n > N - 1 => n + 1 > N
    BY <1>0
  <2> QED
    BY <2>1, <1>0 DEF Ledger, DeletesStand
<1>5. FailuresStand(E, Q2, N - 1)
  BY <1>0 DEF Ledger, FailuresStand
<1>6. OneEach(Q2, N - 1)
  <2>1. OneEach(Q, N)
    BY DEF Ledger
  <2>2. \A n, m \in Line(Q2) : n + 1 = m + 1 => n = m
    BY <1>0
  <2> QED
    BY <2>1, <2>2, <1>0 DEF OneEach
<1>7. Held(E, Q2, N - 1, D)
  <2>1. ASSUME NEW u \in Tables, NEW x \in DOMAIN D[u]
        PROVE  IsHeld(x, u, E, Q2, N - 1, D)
    <3>1. IsHeld(x, u, E, Q, N, D)
      BY DEF Ledger, Held
    <3>2. \A n \in 1 .. N : Inserts(Q[n], u, D[u][x].match_key) => n # 1
      BY DEF Inserts
    <3> QED
      BY <3>1, <3>2, <1>0 DEF IsHeld
  <2> QED
    BY <2>1 DEF Held
<1> QED
  BY <1>1, <1>2, <1>3, <1>4, <1>5, <1>6, <1>7 DEF Ledger
-----------------------------------------------------------------------------
(* From the state to the ledger. *)

(* Without liberties, each key is inserted once, and an entry is modified  *)
(* or deleted when nothing else is on its way for it.                      *)
LEMMA Orderliness ==
  ASSUME Orderly
  PROVE  /\ ~Allowed("duplicate key") /\ ~Allowed("new action")
         /\ ~Allowed("two at once") /\ ~Allowed("no handle")
BY Zenon DEF Orderly, Allowed

(* A user without liberties inserts no key that stays in the table.        *)
LEMMA OrderlyInsert ==
  ASSUME Orderly, NEW t, NEW text, NEW a, NEW d, InsertCommand(t, text, a, d)
  PROVE  \A e \in getAllTableEntries(t) :
           e.match_key = Resized(Decimal(text[1]), text[2]) =>
             e.status = "DELETING"
BY Orderliness, Zenon DEF InsertCommand

(* Nor modifies an entry for which something is on its way, or to another  *)
(* action.                                                                 *)
LEMMA OrderlyModify ==
  ASSUME Orderly, NEW t, NEW e, NEW a, NEW d, ModifyCommand(t, e, a, d)
  PROVE  e.status = "OK" /\ e.handle # NoHandle /\ a = e.action_name
BY Orderliness, Zenon DEF ModifyCommand, Changeable

(* Nor deletes one.                                                        *)
LEMMA OrderlyDelete ==
  ASSUME Orderly, NEW t, NEW e, DeleteCommand(t, e)
  PROVE  e.status = "OK" /\ e.handle # NoHandle
BY Orderliness, Zenon DEF DeleteCommand, Changeable

(* What is on its way, result by result and command by command.            *)
LEMMA Joined ==
  ASSUME NEW S, NEW r \in Seq(S), NEW c \in Seq(S)
  PROVE  /\ Len(r) \in Nat /\ Len(c) \in Nat
         /\ r \o c \in Seq(S) /\ Len(r \o c) = Len(r) + Len(c)
         /\ \A i \in 1 .. Len(r) : (r \o c)[i] = r[i]
         /\ \A i \in 1 .. Len(c) : (r \o c)[Len(r) + i] = c[i]
<1>1. Len(r) \in Nat /\ Len(c) \in Nat
  BY LenProperties
<1>2. /\ r \o c \in Seq(S) /\ Len(r \o c) = Len(r) + Len(c)
      /\ \A i \in 1 .. Len(r) + Len(c) : (r \o c)[i] =
           IF i <= Len(r) THEN r[i] ELSE c[i - Len(r)]
  BY ConcatProperties
<1>3. \A i \in 1 .. Len(r) : i \in 1 .. Len(r) + Len(c) /\ i <= Len(r)
  BY <1>1
<1>4. \A i \in 1 .. Len(c) :
        /\ Len(r) + i \in 1 .. Len(r) + Len(c) /\ ~(Len(r) + i <= Len(r))
        /\ Len(r) + i - Len(r) = i
  BY <1>1
<1>5. \A i \in 1 .. Len(c) : (r \o c)[Len(r) + i] = c[i]
  BY <1>2, <1>4
<1> QED
  BY <1>1, <1>2, <1>3, <1>5

(* Head and tail of a sequence, place by place.                            *)
LEMMA HeadIsFirst ==
  ASSUME NEW S, NEW s \in Seq(S), s # <<>>
  PROVE  /\ Len(s) \in Nat /\ Len(s) # 0 /\ Head(s) = s[1]
         /\ Tail(s) \in Seq(S) /\ Len(Tail(s)) = Len(s) - 1
         /\ \A i \in 1 .. Len(s) - 1 : Tail(s)[i] = s[i + 1]
BY HeadTailProperties, LenProperties, EmptySeq

(* The line: first the results, then the commands.                         *)
LEMMA LineTyped ==
  ASSUME Types
  PROVE  /\ results \in Seq(CommandType) /\ commands \in Seq(CommandType)
         /\ Len(results) \in Nat /\ Len(commands) \in Nat
         /\ OnTheWay \in Seq(CommandType)
         /\ Len(OnTheWay) = Len(results) + Len(commands)
         /\ \A i \in 1 .. Len(results) : OnTheWay[i] = results[i]
         /\ \A i \in 1 .. Len(commands) :
              OnTheWay[Len(results) + i] = commands[i]
<1>1. results \in Seq(CommandType) /\ commands \in Seq(CommandType)
  BY DEF Types, RestTyped
<1> QED
  BY <1>1, Joined DEF OnTheWay

(* Issuing a command puts it at the end of the line.                       *)
LEMMA IssuedLine ==
  ASSUME Types, Types', NEW c \in CommandType, Issue(c)
  PROVE  /\ Issued(OnTheWay, OnTheWay', c) /\ Len(results') = Len(results)
         /\ device' = device /\ refused' = refused
<1>1. /\ Len(commands') = Len(commands) + 1
      /\ commands'[Len(commands) + 1] = c
      /\ \A i \in 1 .. Len(commands) : commands'[i] = commands[i]
  BY IssueTypes
<1>2. results' = results /\ device' = device /\ refused' = refused
  BY DEF Issue
<1> DEFINE Q == results \o commands
           Q2 == results' \o commands'
<1>3. /\ Len(results) \in Nat /\ Len(commands) \in Nat
      /\ Len(Q) = Len(results) + Len(commands)
      /\ \A i \in 1 .. Len(results) : Q[i] = results[i]
      /\ \A i \in 1 .. Len(commands) : Q[Len(results) + i] = commands[i]
  BY Joined DEF Types
<1>4. /\ Len(Q2) = Len(results) + Len(commands) + 1
      /\ \A i \in 1 .. Len(results) : Q2[i] = results[i]
      /\ \A i \in 1 .. Len(commands) + 1 : Q2[Len(results) + i] = commands'[i]
  <2>1. results' \in Seq(CommandType) /\ commands' \in Seq(CommandType)
    BY DEF Types, RestTyped
  <2>2. /\ Len(Q2) = Len(results') + Len(commands')
        /\ \A i \in 1 .. Len(results') : Q2[i] = results'[i]
        /\ \A i \in 1 .. Len(commands') : Q2[Len(results') + i] = commands'[i]
    BY <2>1, Joined
  <2> HIDE DEF Q2
  <2> QED
    BY <2>2, <1>1, <1>2, <1>3
<1> HIDE DEF Q, Q2
<1>5. ASSUME NEW n \in 1 .. Len(Q) PROVE Q2[n] = Q[n]
  <2>1. CASE n \in 1 .. Len(results)
    BY <2>1, <1>3, <1>4
  <2>2. CASE n \notin 1 .. Len(results)
    <3> DEFINE i == n - Len(results)
    <3>1. /\ i \in 1 .. Len(commands) /\ i \in 1 .. Len(commands) + 1
          /\ Len(results) + i = n
      BY <2>2, <1>3
    <3> HIDE DEF i
    <3> QED
      BY <3>1, <1>1, <1>3, <1>4
  <2> QED
    BY <2>1, <2>2
<1>6. Len(Q2) = Len(Q) + 1 /\ Q2[Len(Q) + 1] = c
  BY <1>1, <1>3, <1>4
<1>7. Issued(Q, Q2, c)
  BY <1>5, <1>6 DEF Issued, Line
<1> QED
  BY <1>2, <1>7 DEF Q, Q2, OnTheWay

(* Executing a command turns it into its result, at its place of the line. *)
LEMMA AnsweredLine ==
  ASSUME Types, Types', NEW r \in CommandType, Answer(r)
  PROVE  /\ Answered(OnTheWay, OnTheWay', Len(results) + 1, r)
         /\ Len(results') = Len(results) + 1
         /\ OnTheWay[Len(results) + 1] = Head(commands)
<1>1. /\ commands # <<>> /\ commands' = Tail(commands)
      /\ results' = Append(results, r)
  BY DEF Answer
<1>2. /\ commands \in Seq(CommandType) /\ results \in Seq(CommandType)
      /\ commands' \in Seq(CommandType) /\ results' \in Seq(CommandType)
  BY DEF Types, RestTyped
<1>3. /\ Len(commands) \in Nat /\ Len(commands) # 0
      /\ Head(commands) = commands[1] /\ Len(commands') = Len(commands) - 1
      /\ \A i \in 1 .. Len(commands) - 1 : commands'[i] = commands[i + 1]
  BY <1>1, <1>2, HeadIsFirst
<1>4. /\ Len(results) \in Nat /\ Len(results') = Len(results) + 1
      /\ results'[Len(results) + 1] = r
      /\ \A i \in 1 .. Len(results) : results'[i] = results[i]
  BY <1>1, <1>2, AppendProperties, LenProperties
<1> DEFINE Q == results \o commands
           Q2 == results' \o commands'
<1>5. /\ Len(Q) = Len(results) + Len(commands)
      /\ \A i \in 1 .. Len(results) : Q[i] = results[i]
      /\ \A i \in 1 .. Len(commands) : Q[Len(results) + i] = commands[i]
  BY <1>2, Joined
<1>6. /\ Len(Q2) = Len(results) + Len(commands)
      /\ \A i \in 1 .. Len(results) + 1 : Q2[i] = results'[i]
      /\ \A i \in 1 .. Len(commands) - 1 :
           Q2[Len(results) + 1 + i] = commands[i + 1]
  <2>1. /\ Len(Q2) = Len(results') + Len(commands')
        /\ \A i \in 1 .. Len(results') : Q2[i] = results'[i]
        /\ \A i \in 1 .. Len(commands') : Q2[Len(results') + i] = commands'[i]
    BY <1>2, Joined
  <2> HIDE DEF Q2
  <2> QED
    BY <2>1, <1>3, <1>4
<1> HIDE DEF Q, Q2
<1>7. ASSUME NEW n \in 1 .. Len(Q)
      PROVE  Q2[n] = IF n = Len(results) + 1 THEN r ELSE Q[n]
  <2>1. CASE n \in 1 .. Len(results)
    BY <2>1, <1>4, <1>5, <1>6
  <2>2. CASE n = Len(results) + 1
    BY <2>2, <1>4, <1>6
  <2>3. CASE n > Len(results) + 1
    <3> DEFINE i == n - Len(results) - 1
    <3>1. /\ i \in 1 .. Len(commands) - 1 /\ i + 1 \in 1 .. Len(commands)
          /\ Len(results) + 1 + i = n /\ Len(results) + (i + 1) = n
          /\ n # Len(results) + 1
      BY <2>3, <1>3, <1>4, <1>5
    <3>2. Q2[n] = commands[i + 1] /\ Q[n] = commands[i + 1]
      <4> HIDE DEF i
      <4> QED
        BY <3>1, <1>5, <1>6
    <3> QED
      BY <3>1, <3>2
  <2> QED
    BY <2>1, <2>2, <2>3, <1>4, <1>5
<1>8. Len(Q2) = Len(Q) /\ Len(results) + 1 \in 1 .. Len(Q)
  BY <1>3, <1>4, <1>5, <1>6
<1>9. Q[Len(results) + 1] = Head(commands)
  BY <1>3, <1>5
<1>10. Answered(Q, Q2, Len(results) + 1, r)
  BY <1>7, <1>8 DEF Answered, Line
<1> QED
  BY <1>4, <1>9, <1>10 DEF Q, Q2, OnTheWay

(* Taking a result takes the first of the line away.                       *)
LEMMA TakenResult ==
  ASSUME Types, Types', AcceptResult
  PROVE  /\ Taken(OnTheWay, OnTheWay') /\ Len(results') = Len(results) - 1
         /\ Len(results) # 0 /\ OnTheWay[1] = Head(results)
         /\ device' = device /\ refused' = refused
<1>1. /\ results # <<>> /\ results' = Tail(results) /\ commands' = commands
      /\ device' = device /\ refused' = refused
  BY DEF AcceptResult
<1>2. /\ commands \in Seq(CommandType) /\ results \in Seq(CommandType)
      /\ results' \in Seq(CommandType)
  BY DEF Types, RestTyped
<1>3. /\ Len(results) \in Nat /\ Len(results) # 0
      /\ Head(results) = results[1] /\ Len(results') = Len(results) - 1
      /\ \A i \in 1 .. Len(results) - 1 : results'[i] = results[i + 1]
  BY <1>1, <1>2, HeadIsFirst
<1> DEFINE Q == results \o commands
           Q2 == results' \o commands
<1>4. /\ Len(Q) = Len(results) + Len(commands) /\ Len(commands) \in Nat
      /\ \A i \in 1 .. Len(results) : Q[i] = results[i]
      /\ \A i \in 1 .. Len(commands) : Q[Len(results) + i] = commands[i]
  BY <1>2, Joined
<1>5. /\ Len(Q2) = Len(results) - 1 + Len(commands)
      /\ \A i \in 1 .. Len(results) - 1 : Q2[i] = results[i + 1]
      /\ \A i \in 1 .. Len(commands) : Q2[Len(results) - 1 + i] = commands[i]
  <2>1. /\ Len(Q2) = Len(results') + Len(commands)
        /\ \A i \in 1 .. Len(results') : Q2[i] = results'[i]
        /\ \A i \in 1 .. Len(commands) : Q2[Len(results') + i] = commands[i]
    BY <1>2, Joined
  <2> HIDE DEF Q2
  <2> QED
    BY <2>1, <1>3
<1> HIDE DEF Q, Q2
<1>6. ASSUME NEW n \in 1 .. Len(Q2) PROVE Q2[n] = Q[n + 1]
  <2>1. CASE n \in 1 .. Len(results) - 1
    BY <2>1, <1>3, <1>4, <1>5
  <2>2. CASE n \notin 1 .. Len(results) - 1
    <3> DEFINE i == n - (Len(results) - 1)
    <3>1. /\ i \in 1 .. Len(commands)
          /\ Len(results) - 1 + i = n /\ Len(results) + i = n + 1
      BY <2>2, <1>3, <1>4, <1>5
    <3> HIDE DEF i
    <3> QED
      BY <3>1, <1>4, <1>5
  <2> QED
    BY <2>1, <2>2
<1>7. Len(Q) # 0 /\ Len(Q2) = Len(Q) - 1 /\ Q[1] = Head(results)
  BY <1>3, <1>4, <1>5
<1>8. Taken(Q, Q2)
  BY <1>6, <1>7 DEF Taken, Line
<1> QED
  BY <1>1, <1>3, <1>7, <1>8 DEF Q, Q2, OnTheWay

(* What the ledger speaks of has the types that the lemmas about it ask    *)
(* for.                                                                    *)
LEMMA LedgerTyped ==
  ASSUME Types
  PROVE  LedgerTypes(Entered, OnTheWay, Len(results), device, refused)
<1>1. \A t \in Tables : Entered[t] \subseteq EntryType
  BY EntryTyped DEF Entered
<1>2. /\ Len(OnTheWay) \in Nat /\ Len(results) \in 0 .. Len(OnTheWay)
      /\ \A n \in Line(OnTheWay) : OnTheWay[n] \in CommandType
  BY LineTyped, ElementOfSeq DEF Line
<1>3. /\ \A t \in Tables : /\ DOMAIN device[t] \subseteq Handles
                           /\ \A h \in DOMAIN device[t] :
                                device[t][h] \in RowType
      /\ refused \subseteq Tables \X Keys
  BY DEF Types, RestTyped, DeviceTyped
<1> QED
  BY <1>1, <1>2, <1>3 DEF LedgerTypes

(* The tables as sets of entries.                                          *)
LEMMA EnteredAre ==
  ASSUME Types
  PROVE  /\ \A t \in Tables : /\ Entered[t] = EntriesOf(table_entries[t])
                              /\ Entered[t] = getAllTableEntries(t)
                              /\ Lists(table_entries[t])
         /\ DOMAIN table_entries = Tables
BY DEF Entered, getAllTableEntries, EntriesOf, Types, TablesTyped

(* A table with another set of entries, none of them twice.                *)
LEMMA ListsSwapped ==
  ASSUME Types, \A u \in Tables : Once(table_entries[u]), NEW t \in Tables,
         NEW T2, Once(T2),
         \A u \in Tables :
           table_entries'[u] = IF u = t THEN T2 ELSE table_entries[u],
         NEW e \in Entered[t], NEW e2,
         EntriesOf(T2) = (EntriesOf(table_entries[t]) \ {e}) \cup {e2}
  PROVE  /\ Swapped(Entered, Entered', t, e, e2)
         /\ \A u \in Tables : Once(table_entries'[u])
<1>2. \A u \in Tables : Entered'[u] = EntriesOf(table_entries'[u])
  BY DEF Entered, getAllTableEntries, EntriesOf
<1>1. \A u \in Tables : Once(table_entries'[u])
  OBVIOUS
<1>3. Swapped(Entered, Entered', t, e, e2)
  BY <1>2, EnteredAre DEF Swapped
<1> QED
  BY <1>1, <1>3

(* Where an entry is listed, and only there.                               *)
LEMMA ListedOnce ==
  ASSUME Types, NEW t \in Tables, Once(table_entries[t]), NEW e \in Entered[t],
         NEW a, a = e.action_name
  PROVE  /\ e \in EntryType /\ e \in EntriesOf(table_entries[t])
         /\ a \in Actions /\ a \in DOMAIN table_entries[t]
         /\ Entries(t, a) = table_entries[t][a]
         /\ Entries(t, a) \in Seq(Under(a))
         /\ \E i \in 1 .. Len(Entries(t, a)) : Entries(t, a)[i] = e
         /\ \A i \in 1 .. Len(Entries(t, a)) : Entries(t, a)[i] \in Entered[t]
<1>1. Lists(table_entries[t]) /\ e \in EntriesOf(table_entries[t])
  BY EnteredAre
<1>2. /\ e \in EntryType /\ a \in DOMAIN table_entries[t] /\ a \in Actions
      /\ \E i \in 1 .. Len(table_entries[t][a]) : table_entries[t][a][i] = e
      /\ \A i \in 1 .. Len(table_entries[t][a]) :
           table_entries[t][a][i] \in EntriesOf(table_entries[t])
  BY <1>1, InLists DEF Lists
<1>3. Entries(t, a) = table_entries[t][a] /\ Entries(t, a) \in Seq(Under(a))
  BY <1>1, <1>2 DEF Entries, Lists
<1> QED
  BY <1>1, <1>2, <1>3, EnteredAre

(* A list that differs from the list of an action in one entry.            *)
LEMMA SetSwapped ==
  ASSUME Types, \A u \in Tables : Once(table_entries[u]), NEW t \in Tables,
         NEW e \in Entered[t], NEW a, a = e.action_name,
         NEW e2 \in Under(a), e2 \notin Entered[t],
         NEW i \in 1 .. Len(Entries(t, a)), Entries(t, a)[i] = e,
         NEW new \in Seq(Under(a)), SetEntries(t, a, new),
         Len(new) = Len(Entries(t, a)),
         \A j \in 1 .. Len(Entries(t, a)) :
           new[j] = IF j = i THEN e2 ELSE Entries(t, a)[j]
  PROVE  /\ Swapped(Entered, Entered', t, e, e2)
         /\ \A u \in Tables : Once(table_entries'[u])
<1> DEFINE T == table_entries[t]
           list == Entries(t, a)
           T2 == With(T, a, new)
<1>1. /\ e \in EntryType /\ a \in DOMAIN T /\ list = T[a]
      /\ Lists(T) /\ Once(T) /\ e2 \notin EntriesOf(T)
  BY ListedOnce, EnteredAre
<1>2. \A u \in Tables :
        table_entries'[u] = IF u = t THEN T2 ELSE table_entries[u]
  BY EnteredAre DEF SetEntries
<1>3. Once(T2) /\ EntriesOf(T2) = (EntriesOf(T) \ {e}) \cup {e2}
  <2> HIDE DEF T
  <2>1. /\ i \in 1 .. Len(T[a]) /\ T[a][i] = e /\ Len(new) = Len(T[a])
        /\ \A j \in 1 .. Len(T[a]) : new[j] = IF j = i THEN e2 ELSE T[a][j]
    BY <1>1
  <2> QED
    BY <1>1, <2>1, SetEntry, SMTT(30)
<1> HIDE DEF T2, list
<1> QED
  BY <1>2, <1>3, ListsSwapped

(* Marking an entry by its handle.                                         *)
LEMMA MarkSwapped ==
  ASSUME Types, \A u \in Tables : Once(table_entries[u]), NEW t \in Tables,
         NEW e \in Entered[t], NEW s \in Stati, s # e.status,
         \A f \in Entered[t] : f.handle = e.handle => f = e,
         NEW h, h = e.handle, MarkAll(t, h, s),
         NEW e2, e2 = [e EXCEPT !.status = s]
  PROVE  /\ Swapped(Entered, Entered', t, e, e2)
         /\ \A u \in Tables : Once(table_entries'[u])
<1> DEFINE T == table_entries[t]
           T2 == [a \in DOMAIN T |-> Marked(T[a], h, s)]
<1>1. /\ e \in EntriesOf(T) /\ Lists(T) /\ Once(T)
      /\ \A f \in EntriesOf(T) : f.handle = e.handle => f = e
  BY EnteredAre
<1>2. \A u \in Tables :
        table_entries'[u] = IF u = t THEN T2 ELSE table_entries[u]
  BY EnteredAre DEF MarkAll
<1>3. Once(T2) /\ EntriesOf(T2) = (EntriesOf(T) \ {e}) \cup {e2}
  <2> HIDE DEF T
  <2> QED
    BY <1>1, MarkedEntry
<1> HIDE DEF T2
<1> QED
  BY <1>2, <1>3, ListsSwapped

(* An entry gets new data.                                                 *)
LEMMA UpdatedEntry ==
  ASSUME Types, \A u \in Tables : Once(table_entries[u]), NEW t \in Tables,
         NEW e \in Entered[t], NEW d \in Data, e.status # "MODIFYING",
         \A f \in Entered[t] : f.handle = e.handle => f = e,
         NEW a, a = e.action_name, NEW h, h = e.handle,
         updateTableEntry(t, h, a, d)
  PROVE  /\ Swapped(Entered, Entered', t, e, Renewed(e, d))
         /\ \A u \in Tables : Once(table_entries'[u])
<1> DEFINE list == Entries(t, a)
<1>0. Once(table_entries[t])
  OBVIOUS
<1>1. /\ e \in EntryType /\ a \in Actions /\ list \in Seq(Under(a))
      /\ \E i \in 1 .. Len(list) : list[i] = e
      /\ \A i \in 1 .. Len(list) : list[i] \in Entered[t]
  <2>1. /\ e \in EntryType /\ e \in EntriesOf(table_entries[t])
        /\ a \in Actions /\ a \in DOMAIN table_entries[t]
        /\ Entries(t, a) = table_entries[t][a]
        /\ Entries(t, a) \in Seq(Under(a))
        /\ \E i \in 1 .. Len(Entries(t, a)) : Entries(t, a)[i] = e
        /\ \A i \in 1 .. Len(Entries(t, a)) : Entries(t, a)[i] \in Entered[t]
    BY <1>0, ListedOnce
  <2> QED
    BY <2>1
<1>2. PICK new \in Seq(Under(a)) :
        /\ SetEntries(t, a, new)
        /\ \/ \A j \in 1 .. Len(list) : list[j].handle # h
           \/ \E i \in 1 .. Len(list) :
                /\ list[i].handle = h /\ Len(new) = Len(list)
                /\ \A j \in 1 .. Len(list) :
                     new[j] = IF j = i THEN Renewed(list[i], d) ELSE list[j]
  BY <1>1, UpdateFinds, SMTT(30)
<1>3. PICK i \in 1 .. Len(list) :
        /\ list[i] = e /\ Len(new) = Len(list)
        /\ \A j \in 1 .. Len(list) :
             new[j] = IF j = i THEN Renewed(e, d) ELSE list[j]
  BY <1>1, <1>2
<1>4. Renewed(e, d) \in Under(a) /\ Renewed(e, d) \notin Entered[t]
  <2>1. /\ Renewed(e, d) \in Under(a) /\ Renewed(e, d).handle = e.handle
        /\ Renewed(e, d).status = "MODIFYING"
    BY <1>1 DEF Under, EntryType, Stati, Renewed
  <2> QED
    BY <2>1
<1> QED
  BY <1>2, <1>3, <1>4, SetSwapped

(* An inserted entry gets its handle.                                      *)
LEMMA HandledEntry ==
  ASSUME Types, \A u \in Tables : Once(table_entries[u]), NEW t \in Tables,
         NEW e \in Entered[t], NEW h \in Handles,
         \A f \in Entered[t] : f.match_key = e.match_key => f = e,
         \A f \in Entered[t] : f.handle # h,
         NEW a, a = e.action_name, NEW k, k = e.match_key,
         updateHandle(t, k, a, h)
  PROVE  /\ Swapped(Entered, Entered', t, e, Handled(e, h))
         /\ \A u \in Tables : Once(table_entries'[u])
<1> DEFINE list == Entries(t, a)
<1>0. Once(table_entries[t])
  OBVIOUS
<1>1. /\ e \in EntryType /\ a \in Actions /\ list \in Seq(Under(a))
      /\ \E i \in 1 .. Len(list) : list[i] = e
      /\ \A i \in 1 .. Len(list) : list[i] \in Entered[t]
  <2>1. /\ e \in EntryType /\ e \in EntriesOf(table_entries[t])
        /\ a \in Actions /\ a \in DOMAIN table_entries[t]
        /\ Entries(t, a) = table_entries[t][a]
        /\ Entries(t, a) \in Seq(Under(a))
        /\ \E i \in 1 .. Len(Entries(t, a)) : Entries(t, a)[i] = e
        /\ \A i \in 1 .. Len(Entries(t, a)) : Entries(t, a)[i] \in Entered[t]
    BY <1>0, ListedOnce
  <2> QED
    BY <2>1
<1>2. \/ /\ \A j \in 1 .. Len(list) : list[j].match_key # k
         /\ UNCHANGED table_entries
      \/ \E new \in Seq(Under(a)) : \E i \in 1 .. Len(list) :
           /\ SetEntries(t, a, new) /\ list[i].match_key = k
           /\ Len(new) = Len(list)
           /\ \A j \in 1 .. Len(list) :
                new[j] = IF j = i THEN Handled(list[i], h) ELSE list[j]
  <2>1. h \in Handles \cup {NoHandle}
    OBVIOUS
  <2> QED
    BY <1>1, <2>1, HandleFinds, SMTT(30)
<1>3. PICK new \in Seq(Under(a)), i \in 1 .. Len(list) :
        /\ SetEntries(t, a, new) /\ list[i] = e /\ Len(new) = Len(list)
        /\ \A j \in 1 .. Len(list) :
             new[j] = IF j = i THEN Handled(e, h) ELSE list[j]
  BY <1>1, <1>2
<1>4. Handled(e, h) \in Under(a) /\ Handled(e, h) \notin Entered[t]
  <2>1. Handled(e, h) \in Under(a) /\ Handled(e, h).handle = h
    BY <1>1 DEF Under, EntryType, Stati, Handled
  <2> QED
    BY <2>1
<1> QED
  BY <1>3, <1>4, SetSwapped

(* The insert command keeps the invariant.                                 *)
LEMMA InsertInv ==
  ASSUME Orderly, ControlInv, NEW t \in Tables, NEW text \in Literals,
         NEW a \in Actions, NEW d \in Data, InsertCommand(t, text, a, d)
  PROVE  ControlInv'
<1> DEFINE k == Resized(Decimal(text[1]), text[2])
           c == Command("insert", t, k, a, d, NoHandle, text)
           e == TableEntry(k, a, d, NoHandle, "INSERTING")
           T == table_entries[t]
           T2 == With(T, a, Append(Entries(t, a), e))
<1>0. /\ Types /\ \A u \in Tables : Once(table_entries[u])
      /\ Ledger(Entered, OnTheWay, Len(results), device, refused)
  BY DEF ControlInv
<1>1. Types'
  BY <1>0, InsertTypes
<1>2. /\ Issue(c) /\ table_entries' = [table_entries EXCEPT ![t] = T2]
  BY DEF InsertCommand, addTableEntry, SetEntries
<1>3. \A f \in Entered[t] : f.match_key = k => f.status = "DELETING"
  BY <1>0, EnteredAre, OrderlyInsert
<1>4. k \in Keys
  BY DEF Keys
<1> HIDE DEF k
<1>5. /\ c \in CommandType /\ c.kind = "insert" /\ c.handle = NoHandle
      /\ c.table = t /\ c.match_key = k
  BY <1>4 DEF CommandType, Command
<1>6. /\ e \in Under(a) /\ Asked(e, c)
      /\ e.match_key = k /\ e.status = "INSERTING"
  BY <1>4 DEF Under, EntryType, Stati, Asked, Command, TableEntry
<1> HIDE DEF c, e
<1>7. e \notin Entered[t]
  BY <1>3, <1>6
<1>8. EntriesOf(T2) = EntriesOf(T) \cup {e} /\ Once(T2)
  <2>1. Lists(T) /\ Once(T) /\ e \notin EntriesOf(T)
    BY <1>0, <1>7, EnteredAre
  <2> HIDE DEF T
  <2>2. Entries(t, a) = IF a \in DOMAIN T THEN T[a] ELSE <<>>
    BY DEF Entries, T
  <2> QED
    BY <1>6, <2>1, <2>2, AddedEntry
<1> HIDE DEF T2
<1>9. \A u \in Tables :
        table_entries'[u] = IF u = t THEN T2 ELSE table_entries[u]
  BY <1>0, <1>2, EnteredAre
<1>10. \A u \in Tables : Entered'[u] = EntriesOf(table_entries'[u])
  BY DEF Entered, getAllTableEntries, EntriesOf
<1>11. /\ e \in Entered'[t]
       /\ \A u \in Tables : \A x \in Entered'[u] :
            x \in Entered[u] \/ (u = t /\ x = e)
       /\ \A u \in Tables : \A x \in Entered[u] : x \in Entered'[u]
  BY <1>0, <1>8, <1>9, <1>10, EnteredAre
<1>12. /\ Issued(OnTheWay, OnTheWay', c) /\ Len(results') = Len(results)
       /\ device' = device /\ refused' = refused
  BY <1>0, <1>1, <1>2, <1>5, IssuedLine
<1>13. LedgerTypes(Entered, OnTheWay, Len(results), device, refused)
  BY <1>0, LedgerTyped
<1>14. Ledger(Entered', OnTheWay', Len(results), device, refused)
  BY <1>0, <1>3, <1>5, <1>6, <1>11, <1>12, <1>13, LedgerInsert
<1>15. \A u \in Tables : Once(table_entries'[u])
  BY <1>0, <1>8, <1>9
<1> QED
  BY <1>1, <1>12, <1>14, <1>15 DEF ControlInv

(* The modify command keeps the invariant.                                 *)
LEMMA ModifyInv ==
  ASSUME Orderly, ControlInv, NEW t \in Tables, NEW a \in Actions,
         NEW d \in Data, NEW e \in getAllTableEntries(t),
         ModifyCommand(t, e, a, d)
  PROVE  ControlInv'
<1> DEFINE c == Command("modify", t, NoKey, a, d, e.handle, NoText)
           e2 == Renewed(e, d)
<1>0. /\ Types /\ \A u \in Tables : Once(table_entries[u])
      /\ Ledger(Entered, OnTheWay, Len(results), device, refused)
  BY DEF ControlInv
<1>1. Types'
  BY <1>0, ModifyTypes
<1>2. e.status = "OK" /\ e.handle # NoHandle /\ a = e.action_name
  BY OrderlyModify
<1>3. e \in Entered[t] /\ e \in EntryType
  BY <1>0, EnteredAre, ListedOnce
<1>4. \A f \in Entered[t] : f.handle = e.handle => f = e
  BY <1>0, <1>2, <1>3 DEF Ledger, Named
<1>5. Issue(c) /\ updateTableEntry(t, e.handle, a, d)
  BY DEF ModifyCommand
<1>6. e.status # "MODIFYING"
  BY <1>2
<1>7. /\ Swapped(Entered, Entered', t, e, e2)
      /\ \A u \in Tables : Once(table_entries'[u])
  BY <1>0, <1>2, <1>3, <1>4, <1>5, <1>6, UpdatedEntry
<1>8. /\ e2.match_key = e.match_key /\ e2.handle = e.handle
      /\ e2.status = "MODIFYING" /\ e2.action_name = a
      /\ e2.action_data = d
  BY <1>2, <1>3 DEF EntryType, Renewed
<1> HIDE DEF e2
<1>9. /\ c \in CommandType /\ c.kind = "modify" /\ c.table = t
      /\ c.handle = e.handle /\ c.action = a /\ c.data = d
  BY <1>3 DEF CommandType, Command, Keys, EntryType
<1> HIDE DEF c
<1>10. /\ Issued(OnTheWay, OnTheWay', c) /\ Len(results') = Len(results)
       /\ device' = device /\ refused' = refused
  BY <1>0, <1>1, <1>5, <1>9, IssuedLine
<1>11. LedgerTypes(Entered, OnTheWay, Len(results), device, refused)
  BY <1>0, LedgerTyped
<1>12. Ledger(Entered', OnTheWay', Len(results), device, refused)
  BY <1>0, <1>2, <1>3, <1>7, <1>8, <1>9, <1>10, <1>11, LedgerChange
<1> QED
  BY <1>1, <1>7, <1>10, <1>12 DEF ControlInv

(* The delete command keeps the invariant.                                 *)
LEMMA DeleteInv ==
  ASSUME Orderly, ControlInv, NEW t \in Tables,
         NEW e \in getAllTableEntries(t), DeleteCommand(t, e)
  PROVE  ControlInv'
<1> DEFINE c == Command("delete", t, NoKey, e.action_name, e.action_data,
                        e.handle, NoText)
           e2 == [e EXCEPT !.status = "DELETING"]
<1>0. /\ Types /\ \A u \in Tables : Once(table_entries[u])
      /\ Ledger(Entered, OnTheWay, Len(results), device, refused)
  BY DEF ControlInv
<1>1. Types'
  BY <1>0, DeleteTypes
<1>2. e.status = "OK" /\ e.handle # NoHandle
  BY OrderlyDelete
<1>3. e \in Entered[t] /\ e \in EntryType
  BY <1>0, EnteredAre, ListedOnce
<1>4. \A f \in Entered[t] : f.handle = e.handle => f = e
  BY <1>0, <1>2, <1>3 DEF Ledger, Named
<1>5. Issue(c) /\ MarkAll(t, e.handle, "DELETING")
  BY DEF DeleteCommand, deleteTableEntry
<1>6. "DELETING" \in Stati /\ "DELETING" # e.status
  BY <1>2 DEF Stati
<1>7. /\ Swapped(Entered, Entered', t, e, e2)
      /\ \A u \in Tables : Once(table_entries'[u])
  BY <1>0, <1>3, <1>4, <1>5, <1>6, MarkSwapped
<1>8. /\ e2.match_key = e.match_key /\ e2.handle = e.handle
      /\ e2.status = "DELETING"
  BY <1>3 DEF EntryType
<1> HIDE DEF e2
<1>9. /\ c \in CommandType /\ c.kind = "delete" /\ c.table = t
      /\ c.handle = e.handle
  BY <1>3 DEF CommandType, Command, Keys, EntryType
<1> HIDE DEF c
<1>10. /\ Issued(OnTheWay, OnTheWay', c) /\ Len(results') = Len(results)
       /\ device' = device /\ refused' = refused
  BY <1>0, <1>1, <1>5, <1>9, IssuedLine
<1>11. LedgerTypes(Entered, OnTheWay, Len(results), device, refused)
  BY <1>0, LedgerTyped
<1>12. Ledger(Entered', OnTheWay', Len(results), device, refused)
  BY <1>0, <1>2, <1>3, <1>7, <1>8, <1>9, <1>10, <1>11, LedgerChange
<1> QED
  BY <1>1, <1>7, <1>10, <1>12 DEF ControlInv

(* What executing a command does to the ledger, command by command.        *)
LEMMA ExecuteInsertInv ==
  ASSUME ControlInv, Types', NEW c, c = Head(commands), c \in CommandType,
         c.kind = "insert", NEW t, t = c.table,
         NEW h \in Handles, h \notin DOMAIN device[t],
         device' = [device EXCEPT ![t] = With(@, h, Row(c, c.match_key))],
         NEW r \in CommandType, r = [c EXCEPT !.handle = h], Answer(r),
         UNCHANGED refused
  PROVE  Ledger(Entered, OnTheWay', Len(results'), device', refused')
<1> DEFINE rows == device[t]
           new == With(rows, h, Row(c, c.match_key))
<1>0. Types /\ Ledger(Entered, OnTheWay, Len(results), device, refused)
  BY DEF ControlInv
<1>1. t \in Tables /\ \A u \in Tables : DOMAIN device'[u] \subseteq Handles
  BY SMTT(30) DEF CommandType, Types, RestTyped, DeviceTyped
<1>2. /\ \A u \in Tables : device'[u] = IF u = t THEN new ELSE device[u]
      /\ \A x : x # h => /\ x \in DOMAIN new <=> x \in DOMAIN rows
                         /\ x \in DOMAIN rows => new[x] = rows[x]
      /\ h \in DOMAIN new /\ new[h] = Row(c, c.match_key)
  BY <1>0, <1>1, Zenon DEF With, Types, RestTyped, DeviceTyped
<1> HIDE DEF new
<1>3. /\ SameRows(device, device', t, h)
      /\ h \in DOMAIN device'[t] /\ device'[t][h] = Row(c, c.match_key)
  BY <1>1, <1>2 DEF SameRows
<1>4. /\ r.kind = c.kind /\ r.table = t /\ r.match_key = c.match_key
      /\ r.action = c.action /\ r.data = c.data /\ r.handle = h
  BY DEF CommandType
<1>5. /\ Answered(OnTheWay, OnTheWay', Len(results) + 1, r)
      /\ Len(results') = Len(results) + 1
      /\ c = OnTheWay[Len(results) + 1]
  BY <1>0, AnsweredLine
<1>6. LedgerTypes(Entered, OnTheWay, Len(results), device, refused)
  BY <1>0, LedgerTyped
<1>7. Ledger(Entered, OnTheWay', Len(results) + 1, device', refused)
  BY <1>0, <1>1, <1>3, <1>4, <1>5, <1>6, LedgerExecuteInsert, ZenonT(60)
<1> QED
  BY <1>5, <1>7

(* A modify changes the row with its handle.                               *)
LEMMA ExecuteModifyInv ==
  ASSUME ControlInv, Types', NEW c, c = Head(commands), c \in CommandType,
         c.kind = "modify", NEW t, t = c.table,
         NEW h, h = c.handle, h \in DOMAIN device[t],
         device' = [device EXCEPT ![t][h] = Row(c, device[t][h].match_key)],
         Answer(c), UNCHANGED refused
  PROVE  Ledger(Entered, OnTheWay', Len(results'), device', refused')
<1> DEFINE rows == device[t]
           row == Row(c, rows[h].match_key)
           new == [rows EXCEPT ![h] = row]
<1>0. Types /\ Ledger(Entered, OnTheWay, Len(results), device, refused)
  BY DEF ControlInv
<1>1. /\ t \in Tables /\ \A u \in Tables : DOMAIN device'[u] \subseteq Handles
      /\ rows \in [DOMAIN rows -> RowType]
  BY <1>0, Zenon DEF CommandType, Types, RestTyped, DeviceTyped
<1>2. \A u \in Tables : device'[u] = IF u = t THEN new ELSE device[u]
  BY <1>0, <1>1, Zenon DEF Types, RestTyped, DeviceTyped
<1> HIDE DEF row
<1>3. /\ \A x : x # h => /\ x \in DOMAIN new <=> x \in DOMAIN rows
                         /\ x \in DOMAIN rows => new[x] = rows[x]
      /\ h \in DOMAIN new /\ new[h] = row
  BY <1>1, SMTT(30)
<1> HIDE DEF new
<1>4. /\ SameRows(device, device', t, h)
      /\ h \in DOMAIN device'[t] /\ device'[t][h] = row
  BY <1>1, <1>2, <1>3 DEF SameRows
<1>5. /\ Answered(OnTheWay, OnTheWay', Len(results) + 1, c)
      /\ Len(results') = Len(results) + 1
      /\ c = OnTheWay[Len(results) + 1]
  BY <1>0, AnsweredLine
<1>6. LedgerTypes(Entered, OnTheWay, Len(results), device, refused)
  BY <1>0, LedgerTyped, SMTT(30)
<1>7. Ledger(Entered, OnTheWay', Len(results) + 1, device', refused)
  BY <1>0, <1>1, <1>4, <1>5, <1>6, LedgerExecuteModify DEF row
<1> QED
  BY <1>5, <1>7

(* A delete drops the row with its handle.                                 *)
LEMMA ExecuteDeleteInv ==
  ASSUME ControlInv, Types', NEW c, c = Head(commands), c \in CommandType,
         c.kind = "delete", NEW t, t = c.table, NEW h, h = c.handle,
         device' = [device EXCEPT ![t] = Restrict(@, DOMAIN @ \ {h})],
         Answer(c), UNCHANGED refused
  PROVE  Ledger(Entered, OnTheWay', Len(results'), device', refused')
<1> DEFINE rows == device[t]
           new == Restrict(rows, DOMAIN rows \ {h})
<1>0. Types /\ Ledger(Entered, OnTheWay, Len(results), device, refused)
  BY DEF ControlInv
<1>1. t \in Tables /\ \A u \in Tables : DOMAIN device'[u] \subseteq Handles
  BY DEF CommandType, Types, RestTyped, DeviceTyped
<1>2. \A u \in Tables : device'[u] = IF u = t THEN new ELSE device[u]
  BY <1>0, <1>1 DEF Types, RestTyped, DeviceTyped
<1>3. /\ \A x : x # h => /\ x \in DOMAIN new <=> x \in DOMAIN rows
                         /\ x \in DOMAIN rows => new[x] = rows[x]
      /\ h \notin DOMAIN new
  BY DEF Restrict
<1> HIDE DEF new
<1>4. SameRows(device, device', t, h) /\ h \notin DOMAIN device'[t]
  <2>1. h \notin DOMAIN device'[t]
    BY <1>1, <1>2, <1>3
  <2>2. ASSUME NEW u \in Tables, NEW x \in Handles, u # t \/ x # h
        PROVE  /\ x \in DOMAIN device'[u] <=> x \in DOMAIN device[u]
               /\ x \in DOMAIN device[u] => device'[u][x] = device[u][x]
    <3>1. CASE u = t
      BY <1>2, <1>3, <2>2, <3>1
    <3>2. CASE u # t
      BY <1>2, <3>2
    <3> QED
      BY <3>1, <3>2
  <2> QED
    BY <2>1, <2>2 DEF SameRows
<1>5. /\ Answered(OnTheWay, OnTheWay', Len(results) + 1, c)
      /\ Len(results') = Len(results) + 1
      /\ c = OnTheWay[Len(results) + 1]
  BY <1>0, AnsweredLine
<1>6. LedgerTypes(Entered, OnTheWay, Len(results), device, refused)
  BY <1>0, LedgerTyped
<1>7. Ledger(Entered, OnTheWay', Len(results) + 1, device', refused)
  BY <1>0, <1>1, <1>4, <1>5, <1>6, LedgerExecuteDelete
<1> QED
  BY <1>5, <1>7

(* The device refuses an insert or a modify, of an entry that is listed.   *)
LEMMA FailInv ==
  ASSUME ControlInv, Types', NEW c, c = Head(commands), c \in CommandType,
         NEW t, t = c.table, NEW h, h = c.handle,
         c.kind = "delete" => h \notin DOMAIN device[t],
         refused' = refused \cup
           {<<t, IF h \in DOMAIN device[t] THEN device[t][h].match_key
                 ELSE c.match_key>>},
         NEW r \in CommandType, r = [c EXCEPT !.kind = "failed"], Answer(r),
         UNCHANGED device
  PROVE  Ledger(Entered, OnTheWay', Len(results'), device', refused')
<1> DEFINE N == Len(results)
<1>0. /\ Types /\ Ledger(Entered, OnTheWay, N, device, refused)
      /\ LedgerTypes(Entered, OnTheWay, N, device, refused)
  BY LedgerTyped DEF ControlInv
<1>1. /\ Answered(OnTheWay, OnTheWay', N + 1, r)
      /\ Len(results') = N + 1 /\ c = OnTheWay[N + 1]
  BY <1>0, AnsweredLine
<1>2. /\ N + 1 \in Line(OnTheWay) /\ N + 1 > N /\ ~(N + 1 <= N)
      /\ t \in Tables /\ \A u \in Tables : DOMAIN device[u] \subseteq Handles
      /\ NoHandle \notin Handles
      /\ c.kind \in {"insert", "modify", "delete", "failed"}
  BY <1>0, <1>1, ControlPlaneAssumption
     DEF Answered, LedgerTypes, Line, CommandType
<1>3. r.kind = "failed" /\ r.table = t /\ r.handle = h
  BY DEF CommandType
<1> HIDE DEF N
<1>4. c.kind # "delete"
  BY <1>0, <1>1, <1>2 DEF Ledger, DeletesStand
<1>5. c.kind # "failed"
  BY <1>0, <1>1, <1>2 DEF Ledger, FailuresStand
<1>6. CASE c.kind = "insert"
  <2>1. InsertStands(N + 1, t, Entered, OnTheWay, N, device, refused)
    BY <1>0, <1>1, <1>2, <1>6 DEF Ledger, InsertsStand
  <2>2. PICK e \in Entered[t] : Asked(e, c)
    BY <2>1, <1>1 DEF InsertStands
  <2>3. e.match_key = c.match_key /\ e.status \in {"INSERTING", "MODIFYING"}
    BY <2>2 DEF Asked
  <2>4. h = NoHandle
    BY <2>1, <1>1, <1>2 DEF InsertStands
  <2>5. refused' = refused \cup {<<t, e.match_key>>}
    BY <2>3, <2>4, <1>2
  <2>6. Ledger(Entered, OnTheWay', N + 1, device, refused')
    BY <1>0, <1>1, <1>3, <1>6, <2>3, <2>5, LedgerFail
  <2> QED
    BY <2>6, <1>1
<1>7. CASE c.kind = "modify"
  <2>1. ModifyStands(N + 1, t, Entered, OnTheWay, N, device, refused)
    BY <1>0, <1>1, <1>2, <1>7 DEF Ledger, ModifiesStand
  <2>2. PICK e \in Entered[t] : e.handle = h /\ e.status = "MODIFYING"
    BY <2>1, <1>1 DEF ModifyStands
  <2>3. EntryStands(e, t, OnTheWay, device, refused)
    BY <1>0, <1>2 DEF Ledger, Stands
  <2>4. h \in DOMAIN device[t] /\ device[t][h].match_key = e.match_key
    BY <2>2, <2>3 DEF EntryStands
  <2>5. refused' = refused \cup {<<t, e.match_key>>}
    BY <2>4
  <2>6. Ledger(Entered, OnTheWay', N + 1, device, refused')
    BY <1>0, <1>1, <1>3, <1>7, <2>2, <2>5, LedgerFail
  <2> QED
    BY <2>6, <1>1
<1> QED
  BY <1>2, <1>4, <1>5, <1>6, <1>7

(* Executing a command keeps the invariant, whichever command it is.       *)
LEMMA ExecuteInv ==
  ASSUME ControlInv, Execute PROVE ControlInv'
<1> DEFINE c == Head(commands)
           rows == device[c.table]
           known == c.handle \in DOMAIN rows
<1>1. Types /\ Types'
  BY ExecuteTypes DEF ControlInv
<1>2. c \in CommandType
  BY HeadTailProperties, SMTT(30) DEF Types, RestTyped, Execute, ControlInv
<1>3. table_entries' = table_entries
  BY Zenon DEF Execute, Answer
<1>4. Entered' = Entered /\ \A t \in Tables : Once(table_entries'[t])
  BY <1>3 DEF Entered, getAllTableEntries, ControlInv
<1>5. Ledger(Entered, OnTheWay', Len(results'), device', refused')
  <2>1. ASSUME c.kind = "insert", NEW h \in Handles \ DOMAIN rows,
               device' = [device EXCEPT
                            ![c.table] = With(@, h, Row(c, c.match_key))],
               Answer([c EXCEPT !.handle = h]), UNCHANGED refused
        PROVE  Ledger(Entered, OnTheWay', Len(results'), device', refused')
    <3>1. [c EXCEPT !.handle = h] \in CommandType
      BY <1>2 DEF CommandType
    <3> QED
      BY <1>1, <1>2, <2>1, <3>1, ExecuteInsertInv
  <2>2. ASSUME c.kind = "modify", known, Answer(c), UNCHANGED refused,
               device' = [device EXCEPT ![c.table][c.handle] =
                            Row(c, rows[c.handle].match_key)]
        PROVE  Ledger(Entered, OnTheWay', Len(results'), device', refused')
    BY <1>1, <1>2, <2>2, ExecuteModifyInv
  <2>3. ASSUME c.kind = "delete", Answer(c), UNCHANGED refused,
               device' = [device EXCEPT
                           ![c.table] = Restrict(@, DOMAIN @ \ {c.handle})]
        PROVE  Ledger(Entered, OnTheWay', Len(results'), device', refused')
    BY <1>1, <1>2, <2>3, ExecuteDeleteInv
  <2>4. ASSUME c.kind = "delete" => ~known,
               Answer([c EXCEPT !.kind = "failed"]), UNCHANGED device,
               refused' = refused \cup
                 {<<c.table, IF known THEN rows[c.handle].match_key
                             ELSE c.match_key>>}
        PROVE  Ledger(Entered, OnTheWay', Len(results'), device', refused')
    <3>1. [c EXCEPT !.kind = "failed"] \in CommandType
      BY <1>2 DEF CommandType
    <3> QED
      BY <1>1, <1>2, <2>4, <3>1, FailInv
  <2> QED
    BY <2>1, <2>2, <2>3, <2>4, Zenon DEF Execute
<1> QED
  BY <1>1, <1>4, <1>5 DEF ControlInv

(* What a result does to the ledger.                                       *)
LEMMA AcceptInsertInv ==
  ASSUME ControlInv, Types', AcceptResult, NEW r, r = Head(results),
         r.kind = "insert",
         updateHandle(r.table, r.match_key, r.action, r.handle)
  PROVE  /\ Ledger(Entered', OnTheWay', Len(results'), device', refused')
         /\ \A u \in Tables : Once(table_entries'[u])
<1> DEFINE N == Len(results)
           t == r.table
           h == r.handle
<1>0. /\ Types /\ \A u \in Tables : Once(table_entries[u])
      /\ Ledger(Entered, OnTheWay, N, device, refused)
      /\ LedgerTypes(Entered, OnTheWay, N, device, refused)
  BY LedgerTyped DEF ControlInv
<1>1. /\ Taken(OnTheWay, OnTheWay') /\ Len(results') = N - 1 /\ N # 0
      /\ OnTheWay[1] = r /\ device' = device /\ refused' = refused
  BY <1>0, TakenResult
<1> HIDE DEF N
<1>2. 1 \in Line(OnTheWay) /\ t \in Tables
  BY <1>0, <1>1 DEF LedgerTypes, Line, CommandType
<1>3. PICK e \in Entered[t] : Asked(e, r)
  BY <1>0, <1>1, <1>2 DEF Ledger, InsertsStand, InsertStands
<1>4. /\ h \in Handles /\ \A x \in Entered[t] : x.handle # h
      /\ \A x \in Entered[t] : x.match_key = e.match_key => x = e
  BY <1>0, <1>1, <1>3, InsertAhead, SMTT(30)
<1>5. r.match_key = e.match_key /\ r.action = e.action_name
  BY <1>3 DEF Asked
<1>6. /\ Swapped(Entered, Entered', t, e, Handled(e, h))
      /\ \A u \in Tables : Once(table_entries'[u])
  BY <1>0, <1>2, <1>4, <1>5, HandledEntry
<1>7. /\ Handled(e, h).match_key = e.match_key
      /\ Handled(e, h).action_name = e.action_name
      /\ Handled(e, h).action_data = e.action_data
      /\ Handled(e, h).handle = h /\ Handled(e, h).status = "OK"
  <2>1. e \in EntryType
    BY <1>0, <1>2 DEF LedgerTypes
  <2> QED
    BY <2>1 DEF Handled, EntryType
<1>8. Ledger(Entered', OnTheWay', N - 1, device, refused)
  BY <1>0, <1>1, <1>3, <1>6, <1>7, LedgerAcceptInsert
<1> QED
  BY <1>1, <1>6, <1>8

(* The result of a modify.                                                 *)
LEMMA AcceptModifyInv ==
  ASSUME ControlInv, Types', AcceptResult, NEW r, r = Head(results),
         r.kind = "modify", confirmUpdateEntry(r.table, r.handle)
  PROVE  /\ Ledger(Entered', OnTheWay', Len(results'), device', refused')
         /\ \A u \in Tables : Once(table_entries'[u])
<1> DEFINE N == Len(results)
           t == r.table
<1>0. /\ Types /\ \A u \in Tables : Once(table_entries[u])
      /\ Ledger(Entered, OnTheWay, N, device, refused)
      /\ LedgerTypes(Entered, OnTheWay, N, device, refused)
  BY LedgerTyped DEF ControlInv
<1>1. /\ Taken(OnTheWay, OnTheWay') /\ Len(results') = N - 1 /\ N # 0
      /\ OnTheWay[1] = r /\ device' = device /\ refused' = refused
  BY <1>0, TakenResult
<1> HIDE DEF N
<1>2. 1 \in Line(OnTheWay) /\ t \in Tables
  BY <1>0, <1>1 DEF LedgerTypes, Line, CommandType
<1>3. PICK e \in Entered[t] : e.handle = r.handle /\ e.status = "MODIFYING"
  <2>1. ModifyStands(1, t, Entered, OnTheWay, N, device, refused)
    BY <1>0, <1>1, <1>2, Zenon DEF Ledger, ModifiesStand
  <2> QED
    BY <2>1, <1>1, Zenon DEF ModifyStands
<1> DEFINE e2 == [e EXCEPT !.status = "OK"]
<1>4. \A x \in Entered[t] : x.handle = e.handle => x = e
  <2>1. EntryStands(e, t, OnTheWay, device, refused) /\ Named(Entered)
    BY <1>0, <1>2 DEF Ledger, Stands
  <2>2. e.handle # NoHandle
    BY <2>1, <1>3 DEF EntryStands
  <2> QED
    BY <2>1, <2>2, <1>2 DEF Named
<1>5. /\ Swapped(Entered, Entered', t, e, e2)
      /\ \A u \in Tables : Once(table_entries'[u])
  <2>1. "OK" \in Stati /\ "OK" # e.status
    BY <1>3 DEF Stati
  <2>2. MarkAll(t, r.handle, "OK")
    BY DEF confirmUpdateEntry
  <2> QED
    BY <1>0, <1>2, <1>3, <1>4, <2>1, <2>2, MarkSwapped
<1>6. /\ e2.match_key = e.match_key /\ e2.action_name = e.action_name
      /\ e2.action_data = e.action_data /\ e2.handle = e.handle
      /\ e2.status = "OK"
  <2>1. e \in EntryType
    BY <1>0, <1>2 DEF LedgerTypes
  <2> QED
    BY <2>1 DEF EntryType
<1> HIDE DEF e2
<1>7. Ledger(Entered', OnTheWay', N - 1, device, refused)
  BY <1>0, <1>1, <1>3, <1>5, <1>6, LedgerAcceptModify
<1> QED
  BY <1>1, <1>5, <1>7

(* The result of a delete.                                                 *)
LEMMA AcceptDeleteInv ==
  ASSUME ControlInv, Types', AcceptResult, NEW r, r = Head(results),
         r.kind = "delete", confirmDeleteEntry(r.table, r.handle)
  PROVE  /\ Ledger(Entered', OnTheWay', Len(results'), device', refused')
         /\ \A u \in Tables : Once(table_entries'[u])
<1> DEFINE N == Len(results)
           t == r.table
           h == r.handle
           T == table_entries[t]
           left == [a \in DOMAIN T |-> Without(T[a], h)]
           gone == {a \in DOMAIN left : left[a] = <<>> /\ Entries(t, a) # <<>>}
           T2 == [a \in DOMAIN T \ gone |-> Without(T[a], h)]
<1>0. /\ Types /\ \A u \in Tables : Once(table_entries[u])
      /\ Ledger(Entered, OnTheWay, N, device, refused)
      /\ LedgerTypes(Entered, OnTheWay, N, device, refused)
  BY LedgerTyped DEF ControlInv
<1>1. /\ Taken(OnTheWay, OnTheWay') /\ Len(results') = N - 1 /\ N # 0
      /\ OnTheWay[1] = r /\ device' = device /\ refused' = refused
  BY <1>0, TakenResult
<1> HIDE DEF N
<1>2. 1 \in Line(OnTheWay) /\ t \in Tables
  BY <1>0, <1>1 DEF LedgerTypes, Line, CommandType
<1>3. PICK e \in Entered[t] : e.handle = h /\ e.status = "DELETING"
  BY <1>0, <1>1, <1>2 DEF Ledger, DeletesStand
<1>4. \A x \in Entered[t] : x.handle = e.handle => x = e
  <2>1. EntryStands(e, t, OnTheWay, device, refused) /\ Named(Entered)
    BY <1>0, <1>2 DEF Ledger, Stands
  <2>2. e.handle # NoHandle
    BY <2>1, <1>3 DEF EntryStands
  <2> QED
    BY <2>1, <2>2, <1>2 DEF Named
<1>5. table_entries' =
        [table_entries EXCEPT ![t] = Restrict(left, DOMAIN left \ gone)]
  BY DEF confirmDeleteEntry
<1>6. Restrict(left, DOMAIN left \ gone) = T2
  BY SMTT(30) DEF Restrict
<1>7. \A u \in Tables :
        table_entries'[u] = IF u = t THEN T2 ELSE table_entries[u]
  BY <1>0, <1>2, <1>5, <1>6, EnteredAre, Zenon
<1>8. Once(T2) /\ EntriesOf(T2) = EntriesOf(T) \ {e}
  <2>1. /\ Lists(T) /\ Once(T) /\ e \in EntriesOf(T)
        /\ \A f \in EntriesOf(T) : f.handle = e.handle => f = e
    BY <1>0, <1>2, <1>3, <1>4, EnteredAre
  <2>2. \A a \in gone : a \in DOMAIN T =>
          T[a] # <<>> /\ Without(T[a], e.handle) = <<>>
    BY <1>3 DEF Entries
  <2>3. T2 = [a \in DOMAIN T \ gone |-> Without(T[a], e.handle)]
    BY <1>3
  <2> HIDE DEF T, gone, T2
  <2> QED
    BY <2>1, <2>2, <2>3, DeletedEntry
<1> HIDE DEF T2
<1>9. /\ \A u \in Tables : Once(table_entries'[u])
      /\ \A u \in Tables : \A x :
           x \in Entered'[u] <=> x \in Entered[u] /\ (u = t => x # e)
  <2>1. \A u \in Tables : Entered'[u] = EntriesOf(table_entries'[u])
    BY DEF Entered, getAllTableEntries, EntriesOf
  <2> QED
    BY <2>1, <1>0, <1>7, <1>8, EnteredAre
<1>10. Ledger(Entered', OnTheWay', N - 1, device, refused)
  BY <1>0, <1>1, <1>3, <1>9, LedgerAcceptDelete
<1> QED
  BY <1>1, <1>9, <1>10

(* The result of a command that failed.                                    *)
LEMMA AcceptFailureInv ==
  ASSUME ControlInv, Types', AcceptResult, NEW r, r = Head(results),
         r.kind = "failed", UNCHANGED table_entries
  PROVE  /\ Ledger(Entered', OnTheWay', Len(results'), device', refused')
         /\ \A u \in Tables : Once(table_entries'[u])
<1>1. /\ Types /\ Ledger(Entered, OnTheWay, Len(results), device, refused)
      /\ LedgerTypes(Entered, OnTheWay, Len(results), device, refused)
  BY LedgerTyped DEF ControlInv
<1>2. /\ Taken(OnTheWay, OnTheWay') /\ Len(results') = Len(results) - 1
      /\ OnTheWay[1] = r /\ device' = device /\ refused' = refused
      /\ Len(results) # 0
  BY <1>1, TakenResult
<1>3. Entered' = Entered /\ \A u \in Tables : Once(table_entries'[u])
  BY DEF Entered, getAllTableEntries, ControlInv
<1>4. Ledger(Entered, OnTheWay', Len(results) - 1, device, refused)
  BY <1>1, <1>2, LedgerAcceptFailure
<1> QED
  BY <1>2, <1>3, <1>4

(* Taking a result keeps the invariant, whichever result it is.            *)
LEMMA AcceptInv ==
  ASSUME ControlInv, AcceptResult PROVE ControlInv'
<1> DEFINE r == Head(results)
<1>1. Types'
  BY AcceptTypes DEF ControlInv
<1>2. /\ Ledger(Entered', OnTheWay', Len(results'), device', refused')
      /\ \A u \in Tables : Once(table_entries'[u])
  <2>1. CASE r.kind = "insert"
             /\ updateHandle(r.table, r.match_key, r.action, r.handle)
    BY <1>1, <2>1, AcceptInsertInv
  <2>2. CASE r.kind = "modify" /\ confirmUpdateEntry(r.table, r.handle)
    BY <1>1, <2>2, AcceptModifyInv
  <2>3. CASE r.kind = "delete" /\ confirmDeleteEntry(r.table, r.handle)
    BY <1>1, <2>3, AcceptDeleteInv
  <2>4. CASE r.kind = "failed" /\ UNCHANGED table_entries
    BY <1>1, <2>4, AcceptFailureInv
  <2> QED
    BY <2>1, <2>2, <2>3, <2>4 DEF AcceptResult
<1> QED
  BY <1>1, <1>2 DEF ControlInv

(* The invariant holds of the initial states and every step keeps it.      *)
LEMMA ControlInductive ==
  ASSUME Orderly
  PROVE  /\ Init => ControlInv
         /\ ControlInv /\ [Next]_vars => ControlInv'
<1>1. ASSUME Init PROVE ControlInv
  <2>1. Types
    BY <1>1, TypesInductive
  <2>2. /\ \A t \in Tables : Entered[t] = {} /\ DOMAIN table_entries[t] = {}
        /\ \A t \in Tables : DOMAIN device[t] = {}
        /\ results = <<>> /\ commands = <<>> /\ refused = {}
    BY <1>1, EmptySeq DEF Init, Entered, getAllTableEntries
  <2>3. Len(results) = 0 /\ \A n : n \notin Line(OnTheWay) /\ n \notin 1 .. 0
    <3>1. Len(results) = 0 /\ Len(OnTheWay) = 0
      BY <2>1, <2>2, LineTyped, EmptySeq
    <3> QED
      BY <3>1 DEF Line
  <2>4. Ledger(Entered, OnTheWay, Len(results), device, refused)
    BY <2>2, <2>3
       DEF Ledger, Named, Stands, InsertsStand, ModifiesStand, DeletesStand,
           FailuresStand, OneEach, Held, Refusals
  <2> QED
    BY <2>1, <2>2, <2>4 DEF ControlInv, Once
<1>2. ASSUME ControlInv, [Next]_vars PROVE ControlInv'
  <2>1. CASE UNCHANGED vars
    <3>1. Types'
      BY <1>2, <2>1, TypesInductive DEF ControlInv
    <3>2. Entered' = Entered /\ OnTheWay' = OnTheWay
      BY <2>1 DEF Entered, getAllTableEntries, OnTheWay, vars
    <3> QED
      BY <1>2, <2>1, <3>1, <3>2 DEF ControlInv, vars
  <2>2. CASE Next
    BY <1>2, <2>2, InsertInv, ModifyInv, DeleteInv, ExecuteInv, AcceptInv
       DEF Next
  <2> QED
    BY <1>2, <2>1, <2>2
<1> QED
  BY <1>1, <1>2

(* What the inductive invariant says of the list that pfpdb shows.         *)
LEMMA WhatIsShown ==
  ASSUME ControlInv PROVE HandlesUnique /\ NoneHidden /\ EntriesSettle
<1>0. /\ Types /\ \A t \in Tables : Once(table_entries[t])
      /\ Ledger(Entered, OnTheWay, Len(results), device, refused)
      /\ LedgerTypes(Entered, OnTheWay, Len(results), device, refused)
  BY LedgerTyped DEF ControlInv
<1>1. \A t \in Tables : Entered[t] = getAllTableEntries(t)
  BY <1>0, EnteredAre
<1>2. HandlesUnique
  <2>1. ASSUME NEW t \in Tables,
               NEW a \in DOMAIN table_entries[t],
               NEW b \in DOMAIN table_entries[t],
               NEW i \in DOMAIN table_entries[t][a],
               NEW j \in DOMAIN table_entries[t][b],
               table_entries[t][a][i].handle = table_entries[t][b][j].handle,
               table_entries[t][a][i].handle # NoHandle
        PROVE  a = b /\ i = j
    <3>1. /\ table_entries[t][a][i] \in Entered[t]
          /\ table_entries[t][b][j] \in Entered[t]
      BY <1>0, EnteredAre, InLists
    <3>2. table_entries[t][a][i] = table_entries[t][b][j]
      BY <1>0, <2>1, <3>1 DEF Ledger, Named
    <3> QED
      BY <1>0, <3>2 DEF Once
  <2> QED
    BY <2>1 DEF HandlesUnique
<1>3. NoneHidden
  <2>1. ASSUME NEW t \in Tables, NEW h \in DOMAIN device[t]
        PROVE  \E e \in Entered[t] : /\ e.handle \in {h, NoHandle}
                                     /\ e.match_key = device[t][h].match_key
    <3>1. IsHeld(h, t, Entered, OnTheWay, Len(results), device)
      BY <1>0 DEF Ledger, Held
    <3>2. CASE \E n \in 1 .. Len(results) :
                 Inserts(OnTheWay[n], t, device[t][h].match_key)
      <4>1. PICK n \in 1 .. Len(results) :
                   Inserts(OnTheWay[n], t, device[t][h].match_key)
        BY <3>2
      <4>2. n \in Line(OnTheWay)
        BY <1>0 DEF LedgerTypes, Line
      <4>3. PICK e \in Entered[t] : Asked(e, OnTheWay[n])
        BY <1>0, <4>1, <4>2 DEF Ledger, InsertsStand, InsertStands, Inserts
      <4> QED
        BY <4>1, <4>3 DEF Asked, Inserts
    <3> QED
      BY <3>1, <3>2 DEF IsHeld
  <2> QED
    BY <1>1, <2>1 DEF NoneHidden
<1>4. EntriesSettle
  <2>1. \A n \in Line(OnTheWay) :
          OnTheWay[n] \in ToSet(commands) \cup ToSet(results)
    <3>1. ASSUME NEW n \in Line(OnTheWay)
          PROVE  OnTheWay[n] \in ToSet(commands) \cup ToSet(results)
      <4>1. /\ Len(results) \in Nat /\ Len(commands) \in Nat
            /\ n \in 1 .. Len(results) + Len(commands)
            /\ DOMAIN results = 1 .. Len(results)
            /\ DOMAIN commands = 1 .. Len(commands)
        BY <1>0, LineTyped, LenProperties DEF Line
      <4>2. CASE n \in 1 .. Len(results)
        BY <1>0, <4>1, <4>2, LineTyped DEF ToSet
      <4>3. CASE n \notin 1 .. Len(results)
        <5> DEFINE i == n - Len(results)
        <5>1. i \in 1 .. Len(commands) /\ Len(results) + i = n
          BY <4>1, <4>3
        <5> HIDE DEF i
        <5>2. OnTheWay[n] = commands[i]
          BY <1>0, <5>1, LineTyped
        <5> QED
          BY <4>1, <5>1, <5>2 DEF ToSet
      <4> QED
        BY <4>2, <4>3
    <3> QED
      BY <3>1
  <2>2. ASSUME NEW t \in Tables, NEW e \in Entered[t], ~InFlight(t, e)
        PROVE  IF <<t, e.match_key>> \in refused THEN e.status # "OK"
               ELSE /\ e.status = "OK" /\ e.handle \in DOMAIN device[t]
                    /\ device[t][e.handle] = Content(e)
    <3>1. EntryStands(e, t, OnTheWay, device, refused) /\ e.status \in Stati
      BY <1>0 DEF Ledger, Stands, LedgerTypes, EntryType
    <3>2. \A n \in Line(OnTheWay) :
            /\ e.handle = NoHandle => ~Inserts(OnTheWay[n], t, e.match_key)
            /\ e.handle # NoHandle => ~For(OnTheWay[n], t, e.handle)
      BY <2>1, <2>2 DEF InFlight, Inserts, For
    <3>3. <<t, e.match_key>> \notin refused => e.status = "OK"
      BY <3>1, <3>2 DEF EntryStands, Stati, Modifies, Deletes
    <3> QED
      BY <3>1, <3>3 DEF EntryStands
  <2> QED
    BY <1>1, <2>2 DEF EntriesSettle
<1> QED
  BY <1>2, <1>3, <1>4

(* The lists of pfpdb, what is on its way and the device agree as          *)
(* ControlInv says, in every state that a user without the liberties can   *)
(* reach.                                                                  *)
THEOREM ControlInvariant ==
  ASSUME Orderly PROVE Spec => []ControlInv
<1>1. Init => ControlInv
  BY ControlInductive
<1>2. ControlInv /\ [Next]_vars => ControlInv'
  BY ControlInductive
<1> QED
  BY <1>1, <1>2, PTL DEF Spec

(* A handle names one listed entry, although the device gives handles out  *)
(* again (HandlesUnique).                                                  *)
THEOREM OneEntryPerHandle ==
  ASSUME Orderly PROVE Spec => []HandlesUnique
<1>1. ControlInv => HandlesUnique
  BY WhatIsShown
<1> QED
  BY <1>1, ControlInvariant, PTL

(* What the device holds is listed: before the device gets it, and until   *)
(* it has deleted it (NoneHidden).                                         *)
THEOREM DeviceIsListed ==
  ASSUME Orderly PROVE Spec => []NoneHidden
<1>1. ControlInv => NoneHidden
  BY WhatIsShown
<1> QED
  BY <1>1, ControlInvariant, PTL

(* An entry for which nothing is on its way is shown as OK, and the device *)
(* has it, as shown; or it was refused, and is not shown as OK             *)
(* (EntriesSettle).                                                        *)
THEOREM ListFollowsDevice ==
  ASSUME Orderly PROVE Spec => []EntriesSettle
<1>1. ControlInv => EntriesSettle
  BY WhatIsShown
<1> QED
  BY <1>1, ControlInvariant, PTL
-----------------------------------------------------------------------------
(* Numbers and their bytes. *)

(* The loop of Extended over the first k of a string of bytes.             *)
Steps(f, k, start, bytes) ==
  f = [i \in 0 .. k |-> IF i = 0 THEN start ELSE f[i - 1] * Base + bytes[i]]

LEMMA StepsExist ==
  ASSUME NEW n \in Nat, NEW start, NEW bytes
  PROVE  \E f : Steps(f, n, start, bytes)
<1> DEFINE S == {k \in 0 .. n : \E f : Steps(f, k, start, bytes)}
<1>1. 0 \in S
  <2>1. Steps([i \in 0 .. 0 |-> start], 0, start, bytes)
    BY DEF Steps
  <2> QED
    BY <2>1
<1>2. ASSUME NEW k \in 0 .. n, k # n, k \in S PROVE k + 1 \in S
  <2>1. PICK f : Steps(f, k, start, bytes)
    BY <1>2
  <2> DEFINE g == [i \in 0 .. k + 1 |->
                     IF i = k + 1 THEN f[k] * Base + bytes[k + 1] ELSE f[i]]
  <2>2. ASSUME NEW i \in 0 .. k + 1
        PROVE  g[i] = IF i = 0 THEN start ELSE g[i - 1] * Base + bytes[i]
    <3>1. CASE i = 0
      <4>1. g[0] = f[0] /\ f[0] = start
        BY <2>1 DEF Steps
      <4> QED
        BY <3>1, <4>1
    <3>2. CASE i = k + 1
      <4>1. g[k] = f[k] /\ g[k + 1] = f[k] * Base + bytes[k + 1]
        OBVIOUS
      <4>2. i - 1 = k /\ i # 0
        BY <3>2
      <4> QED
        BY <3>2, <4>1, <4>2
    <3>3. CASE i # 0 /\ i # k + 1
      <4>1. i \in 0 .. k /\ i - 1 \in 0 .. k + 1 /\ i - 1 # k + 1
        BY <3>3
      <4>2. g[i] = f[i] /\ g[i - 1] = f[i - 1]
        BY <4>1
      <4>3. f[i] = f[i - 1] * Base + bytes[i]
        BY <2>1, <3>3, <4>1 DEF Steps
      <4> QED
        BY <3>3, <4>2, <4>3
    <3> QED
      BY <3>1, <3>2, <3>3
  <2>3. Steps(g, k + 1, start, bytes)
    <3>1. g = [i \in 0 .. k + 1 |-> g[i]]
      OBVIOUS
    <3> HIDE DEF g
    <3> QED
      BY <2>2, <3>1 DEF Steps
  <2> HIDE DEF g
  <2>4. k + 1 \in 0 .. n
    BY <1>2
  <2> QED
    BY <2>3, <2>4
<1>3. n \in S
  <2> HIDE DEF S
  <2>1. \A k \in 0 .. n : k \in S
    BY <1>1, <1>2, CountUp
  <2> QED
    BY <2>1
<1> QED
  BY <1>3

LEMMA ExtendedSteps ==
  ASSUME NEW start, NEW bytes, Len(bytes) \in Nat
  PROVE  \E f : /\ f[0] = start
                /\ \A i \in 1 .. Len(bytes) : f[i] = f[i - 1] * Base + bytes[i]
                /\ Extended(start, bytes) = f[Len(bytes)]
<1> DEFINE f == CHOOSE g : Steps(g, Len(bytes), start, bytes)
<1>1. Extended(start, bytes) = f[Len(bytes)]
  BY DEF Extended, Steps
<1>2. Steps(f, Len(bytes), start, bytes)
  BY StepsExist
<1> HIDE DEF f
<1>3. /\ f[0] = start
      /\ \A i \in 1 .. Len(bytes) : f[i] = f[i - 1] * Base + bytes[i]
  BY <1>2 DEF Steps
<1> QED
  BY <1>1, <1>3

(* The powers of Base.                                                     *)
LEMMA Powers ==
  /\ Power(0) = 1
  /\ \A k \in Nat : Power(k) \in Nat \ {0} /\ Power(k + 1) = Base * Power(k)
<1> DEFINE zeros(k) == [i \in 1 .. k |-> 0]
<1>0. Base \in Nat \ {0}
  BY ControlPlaneAssumption
<1>1. ASSUME NEW k \in Nat
      PROVE  \E f : /\ f[0] = 1 /\ Power(k) = f[k]
                    /\ \A i \in 1 .. k : f[i] = f[i - 1] * Base + 0
  <2>1. PICK z : z = zeros(k)
    OBVIOUS
  <2>2. Len(z) = k /\ \A i \in 1 .. k : z[i] = 0
    BY <2>1
  <2>3. PICK f : /\ f[0] = 1
                 /\ \A i \in 1 .. Len(z) : f[i] = f[i - 1] * Base + z[i]
                 /\ Extended(1, z) = f[Len(z)]
    BY <2>2, ExtendedSteps
  <2> QED
    BY <2>1, <2>2, <2>3 DEF Power
<1>2. ASSUME NEW k \in Nat
      PROVE  Power(k) \in Nat \ {0} /\ Power(k + 1) = Base * Power(k)
  <2>1. PICK f : /\ f[0] = 1 /\ Power(k) = f[k]
                 /\ \A i \in 1 .. k : f[i] = f[i - 1] * Base + 0
    BY <1>1
  <2>2. PICK g : /\ g[0] = 1 /\ Power(k + 1) = g[k + 1]
                 /\ \A i \in 1 .. k + 1 : g[i] = g[i - 1] * Base + 0
    <3>1. k + 1 \in Nat
      OBVIOUS
    <3> QED
      BY <1>1, <3>1
  <2> DEFINE S == {i \in 0 .. k : g[i] = f[i] /\ f[i] \in Nat \ {0}}
  <2>3. 0 \in S
    BY <2>1, <2>2
  <2>4. ASSUME NEW i \in 0 .. k, i # k, i \in S PROVE i + 1 \in S
    <3>1. /\ i + 1 \in 1 .. k /\ i + 1 \in 1 .. k + 1 /\ (i + 1) - 1 = i
          /\ i + 1 \in 0 .. k
      BY <2>4
    <3>2. f[i + 1] = f[i] * Base + 0 /\ g[i + 1] = g[i] * Base + 0
      BY <2>1, <2>2, <3>1
    <3>3. f[i] \in Nat \ {0} /\ g[i] = f[i]
      BY <2>4
    <3>4. f[i] * Base + 0 \in Nat \ {0}
      BY <1>0, <3>3
    <3> QED
      BY <3>1, <3>2, <3>3, <3>4
  <2>5. k \in S
    <3> HIDE DEF S
    <3>1. \A i \in 0 .. k : i \in S
      BY <2>3, <2>4, CountUp
    <3> QED
      BY <3>1
  <2>6. g[k + 1] = g[k] * Base + 0
    <3>1. k + 1 \in 1 .. k + 1 /\ (k + 1) - 1 = k
      OBVIOUS
    <3> QED
      BY <2>2, <3>1
  <2>7. f[k] * Base + 0 = Base * f[k]
    BY <1>0, <2>5
  <2> QED
    BY <2>1, <2>2, <2>5, <2>6, <2>7
<1>3. Power(0) = 1
  BY <1>1
<1> QED
  BY <1>2, <1>3

(* The digits of x, in front the ones that p tells apart.                  *)
LEMMA DigitStep ==
  ASSUME NEW x \in Nat, NEW b \in Nat \ {0}, NEW p \in Nat \ {0}
  PROVE  (((x \div b) % p) * b) + (x % b) = x % (p * b)
<1> DEFINE y == x \div b
           q == y \div p
           r == y % p
           s == x % b
<1>1. x = (b * y) + s /\ y \in Nat /\ s \in 0 .. b - 1
  OBVIOUS
<1>2. y = (p * q) + r /\ q \in Nat /\ r \in 0 .. p - 1
  BY <1>1
<1> HIDE DEF y, q, r, s
<1>3. x = ((p * b) * q) + ((r * b) + s)
  BY <1>1, <1>2
<1>4. (r * b) + s \in 0 .. (p * b) - 1
  <2>1. r <= p - 1 /\ r \in Nat /\ s \in Nat
    BY <1>1, <1>2
  <2>2. r * b <= (p - 1) * b
    BY <2>1
  <2>3. (p - 1) * b = (p * b) - b
    OBVIOUS
  <2>4. r * b \in Nat /\ p * b \in Nat
    BY <2>1
  <2> QED
    BY <1>1, <2>1, <2>2, <2>3, <2>4
<1>5. ASSUME NEW m \in Nat \ {0}, NEW t \in 0 .. m - 1
      PROVE  ((m * q) + t) % m = t
  BY <1>2
<1>6. p * b \in Nat \ {0}
  OBVIOUS
<1>7. x % (p * b) = (r * b) + s
  BY <1>3, <1>4, <1>5, <1>6
<1> QED
  BY <1>7 DEF r, s, y

(* To divide by one more power is to divide once more.                     *)
LEMMA DivideOnceMore ==
  ASSUME NEW n \in Nat, NEW k \in Nat
  PROVE  (n \div Power(k)) \div Base = n \div Power(k + 1)
<1>1. /\ Base \in Nat \ {0} /\ Power(k) \in Nat \ {0}
      /\ Power(k + 1) = Base * Power(k)
  BY ControlPlaneAssumption, Powers
<1>2. ASSUME NEW b \in Nat \ {0}, NEW c \in Nat \ {0}
      PROVE  (n \div b) \div c = n \div (b * c)
  OBVIOUS
<1>3. Base * Power(k) = Power(k) * Base
  BY <1>1
<1> QED
  BY <1>1, <1>2, <1>3

(* The w last digits of n.                                                 *)
Digits(n, w) == [i \in 1 .. w |-> (n \div Power(w - i)) % Base]

LEMMA DigitsNumber ==
  ASSUME NEW n \in Nat, NEW w \in Nat
  PROVE  Number(Digits(n, w)) = n % Power(w)
<1>0. Base \in Nat \ {0} /\ \A k \in Nat : Power(k) \in Nat \ {0}
  BY ControlPlaneAssumption, Powers
<1>1. PICK z : z = Digits(n, w)
  OBVIOUS
<1>2. Len(z) = w /\ \A i \in 1 .. w : z[i] = (n \div Power(w - i)) % Base
  BY <1>1 DEF Digits
<1>3. PICK f : /\ f[0] = 0
               /\ \A i \in 1 .. w : f[i] = f[i - 1] * Base + z[i]
               /\ Number(z) = f[w]
  <2>1. Len(z) \in Nat
    BY <1>2
  <2> QED
    BY <1>2, <2>1, ExtendedSteps DEF Number
<1> DEFINE S == {i \in 0 .. w : f[i] = (n \div Power(w - i)) % Power(i)}
<1>4. 0 \in S
  <2>1. w - 0 \in Nat /\ Power(w - 0) \in Nat \ {0} /\ Power(0) = 1
    BY <1>0, Powers
  <2>2. (n \div Power(w - 0)) % 1 = 0
    BY <2>1
  <2> QED
    BY <1>3, <2>1, <2>2
<1>5. ASSUME NEW i \in 0 .. w, i # w, i \in S PROVE i + 1 \in S
  <2>1. /\ i + 1 \in 1 .. w /\ i + 1 \in 0 .. w /\ (i + 1) - 1 = i
        /\ i \in Nat /\ w - (i + 1) \in Nat /\ (w - (i + 1)) + 1 = w - i
    BY <1>5
  <2>2. PICK x : x = n \div Power(w - (i + 1))
    OBVIOUS
  <2>3. x \in Nat
    BY <1>0, <2>1, <2>2
  <2>4. x \div Base = n \div Power(w - i)
    BY <2>1, <2>2, DivideOnceMore
  <2>5. f[i] = (x \div Base) % Power(i)
    BY <1>5, <2>4
  <2>6. f[i + 1] = (f[i] * Base) + z[i + 1]
    BY <1>3, <2>1
  <2>7. z[i + 1] = x % Base
    BY <1>2, <2>1, <2>2
  <2>8. (((x \div Base) % Power(i)) * Base) + (x % Base) = x % (Power(i) * Base)
    BY <1>0, <2>1, <2>3, DigitStep
  <2>9. Power(i + 1) = Power(i) * Base
    <3>1. Power(i + 1) = Base * Power(i) /\ Power(i) \in Nat
      BY <1>0, <2>1, Powers
    <3> QED
      BY <1>0, <3>1
  <2>10. f[i + 1] = x % Power(i + 1)
    BY <2>5, <2>6, <2>7, <2>8, <2>9
  <2> QED
    BY <2>1, <2>2, <2>10
<1>6. f[w] = (n \div Power(w - w)) % Power(w)
  <2> HIDE DEF S
  <2>1. \A i \in 0 .. w : i \in S
    BY <1>4, <1>5, CountUp
  <2>2. w \in S
    BY <2>1
  <2> QED
    BY <2>2 DEF S
<1>7. n \div Power(w - w) = n
  <2>1. Power(w - w) = 1
    BY Powers
  <2> QED
    BY <2>1
<1> QED
  BY <1>1, <1>3, <1>6, <1>7

LEMMA PowerGrows ==
  ASSUME NEW a \in Nat, NEW b \in Nat, a <= b
  PROVE  Power(a) <= Power(b)
<1>0. Base \in Nat \ {0} /\ \A k \in Nat : Power(k) \in Nat \ {0}
  BY ControlPlaneAssumption, Powers
<1> DEFINE S == {i \in 0 .. b - a : Power(a) <= Power(a + i)}
<1>1. 0 \in S
  BY <1>0
<1>2. ASSUME NEW i \in 0 .. b - a, i # b - a, i \in S PROVE i + 1 \in S
  <2>1. i + 1 \in 0 .. b - a /\ a + i \in Nat /\ a + (i + 1) = (a + i) + 1
    BY <1>2
  <2>2. Power(a + (i + 1)) = Base * Power(a + i)
    BY <2>1, Powers
  <2>3. Power(a + i) \in Nat /\ Power(a) <= Power(a + i) /\ Power(a) \in Nat
    BY <1>0, <1>2, <2>1
  <2>4. Power(a + i) <= Base * Power(a + i)
    BY <1>0, <2>3
  <2>5. Base * Power(a + i) \in Nat
    BY <1>0, <2>3
  <2> QED
    BY <2>1, <2>2, <2>3, <2>4, <2>5
<1>3. b - a \in S
  <2> HIDE DEF S
  <2>1. b - a \in Nat
    OBVIOUS
  <2>2. \A i \in 0 .. b - a : i \in S
    BY <1>1, <1>2, <2>1, CountUp
  <2> QED
    BY <2>1, <2>2
<1>4. a + (b - a) = b
  OBVIOUS
<1> QED
  BY <1>3, <1>4

(* Resized keeps the last digits, and adds zeros where there are none.     *)
LEMMA ResizedDigits ==
  ASSUME NEW n \in Nat, n < Power(DecimalWidth), NEW w \in Nat, ~Narrow(w)
  PROVE  Resized(Decimal(n), w) = Digits(n, w)
<1>0. DecimalWidth \in Nat /\ Base \in Nat \ {0}
  BY ControlPlaneAssumption
<1>1. PICK z : z = Decimal(n)
  OBVIOUS
<1>2. /\ Len(z) = DecimalWidth
      /\ \A i \in 1 .. DecimalWidth :
           z[i] = (n \div Power(DecimalWidth - i)) % Base
  BY <1>0, <1>1 DEF Decimal
<1>3. CASE w <= DecimalWidth
  <2>1. ASSUME NEW i \in 1 .. DecimalWidth PROVE z[i] \in Int
    <3>1. DecimalWidth - i \in Nat
      BY <1>0
    <3>2. Power(DecimalWidth - i) \in Nat \ {0}
      BY <3>1, Powers
    <3>3. (n \div Power(DecimalWidth - i)) % Base \in Int
      BY <1>0, <3>2
    <3> QED
      BY <1>2, <3>3
  <2> DEFINE from == DecimalWidth - w + 1
             s == SubSeq(z, from, DecimalWidth)
  <2>2. Resized(z, w) = s
    BY <1>2, <1>3 DEF Resized
  <2>3. /\ s \in Seq(Int) /\ Len(s) = w
        /\ \A i \in 1 .. w : s[i] = z[from + i - 1]
    <3>1. /\ from \in 1 .. DecimalWidth + 1 /\ DecimalWidth - from + 1 = w
          /\ from <= DecimalWidth \/ w = 0
      BY <1>0, <1>3
    <3>2. \A i \in from .. DecimalWidth : z[i] \in Int
      BY <1>0, <2>1, <3>1
    <3> HIDE DEF from
    <3>3. /\ s \in Seq(Int)
          /\ Len(s) = IF from <= DecimalWidth THEN DecimalWidth - from + 1
                      ELSE 0
          /\ \A i \in 1 .. DecimalWidth - from + 1 : s[i] = z[from + i - 1]
      BY <1>0, <3>1, <3>2, SubSeqProperties
    <3> QED
      BY <3>1, <3>3
  <2> HIDE DEF s
  <2>4. ASSUME NEW i \in 1 .. w
        PROVE  s[i] = (n \div Power(w - i)) % Base
    <3>1. from + i - 1 \in 1 .. DecimalWidth
      BY <1>0, <1>3
    <3>2. DecimalWidth - (from + i - 1) = w - i
      BY <1>0
    <3> QED
      BY <1>2, <2>3, <3>1, <3>2
  <2>5. s = [i \in 1 .. w |-> s[i]]
    BY <2>3
  <2> QED
    BY <1>1, <2>2, <2>4, <2>5 DEF Digits
<1>4. CASE DecimalWidth < w
  <2>0. w > 2 * DecimalWidth
    BY <1>0, <1>4 DEF Narrow
  <2>1. Resized(z, w) =
          [i \in 1 .. w |-> IF i <= DecimalWidth + 1 \/ i <= w - DecimalWidth
                            THEN 0 ELSE z[i - (w - DecimalWidth)]]
    BY <1>0, <1>2, <1>4 DEF Resized
  <2>2. ASSUME NEW i \in 1 .. w, i <= w - DecimalWidth
        PROVE  (n \div Power(w - i)) % Base = 0
    <3>1. w - i \in Nat /\ DecimalWidth <= w - i
      BY <1>0, <2>2
    <3>2. Power(DecimalWidth) <= Power(w - i)
      BY <1>0, <3>1, PowerGrows
    <3>3. Power(DecimalWidth) \in Nat \ {0} /\ Power(w - i) \in Nat \ {0}
      BY <1>0, <3>1, Powers
    <3>4. ASSUME NEW m \in Nat \ {0}, n < m PROVE n \div m = 0
      BY <3>4
    <3>5. n \div Power(w - i) = 0
      BY <3>2, <3>3, <3>4
    <3> QED
      BY <1>0, <3>5
  <2>3. ASSUME NEW i \in 1 .. w
        PROVE  (IF i <= DecimalWidth + 1 \/ i <= w - DecimalWidth
                THEN 0 ELSE z[i - (w - DecimalWidth)]) =
               (n \div Power(w - i)) % Base
    <3>1. CASE i <= w - DecimalWidth
      BY <2>2, <3>1
    <3>2. CASE w - DecimalWidth < i
      <4>1. i - (w - DecimalWidth) \in 1 .. DecimalWidth
        BY <1>0, <3>2
      <4>2. DecimalWidth - (i - (w - DecimalWidth)) = w - i
        BY <1>0
      <4>3. DecimalWidth + 1 < i
        BY <1>0, <2>0, <3>2
      <4>4. ~(i <= DecimalWidth + 1 \/ i <= w - DecimalWidth)
        BY <1>0, <3>2, <4>3
      <4> QED
        BY <1>2, <4>1, <4>2, <4>4
    <3> QED
      BY <1>0, <3>1, <3>2
  <2> QED
    BY <1>1, <2>1, <2>3 DEF Digits
<1> QED
  BY <1>0, <1>3, <1>4
-----------------------------------------------------------------------------
(* Every key of a command is as wide as its field, and made from the       *)
(* number typed.                                                           *)
Widened(c) ==
  c.kind = "insert" =>
    /\ c.literal \in Literals /\ ~Narrow(c.literal[2])
    /\ c.match_key = Resized(Decimal(c.literal[1]), c.literal[2])

KeysWidened == \A i \in DOMAIN commands : Widened(commands[i])

LEMMA IssueWidened ==
  ASSUME Types, KeysWidened, NEW c \in CommandType, Issue(c), Widened(c)
  PROVE  KeysWidened'
<1>1. /\ commands' \in Seq(CommandType)
      /\ Len(commands') = Len(commands) + 1
      /\ commands'[Len(commands) + 1] = c
      /\ \A i \in 1 .. Len(commands) : commands'[i] = commands[i]
  BY IssueTypes
<1>2. Len(commands) \in Nat /\ DOMAIN commands = 1 .. Len(commands)
  BY LenProperties DEF Types, RestTyped
<1>3. DOMAIN commands' = 1 .. Len(commands')
  BY <1>1, LenProperties
<1>4. ASSUME NEW i \in DOMAIN commands' PROVE Widened(commands'[i])
  <2>1. i = Len(commands) + 1 \/ i \in 1 .. Len(commands)
    BY <1>1, <1>2, <1>3
  <2> QED
    BY <1>1, <1>2, <2>1 DEF KeysWidened
<1> QED
  BY <1>4 DEF KeysWidened

LEMMA AnswerWidened ==
  ASSUME Types, KeysWidened, NEW c, Answer(c)
  PROVE  KeysWidened'
<1>1. /\ commands' = Tail(commands) /\ commands # <<>>
      /\ commands \in Seq(CommandType)
  BY DEF Answer, Types, RestTyped
<1>2. /\ commands' \in Seq(CommandType) /\ Len(commands') = Len(commands) - 1
      /\ \A i \in 1 .. Len(commands') : commands'[i] = commands[i + 1]
  BY <1>1, HeadTailProperties
<1>3. /\ Len(commands) \in Nat /\ DOMAIN commands = 1 .. Len(commands)
      /\ DOMAIN commands' = 1 .. Len(commands')
  BY <1>1, <1>2, LenProperties
<1>4. ASSUME NEW i \in DOMAIN commands' PROVE Widened(commands'[i])
  <2>1. i \in 1 .. Len(commands') /\ i + 1 \in DOMAIN commands
    BY <1>2, <1>3
  <2> QED
    BY <1>2, <2>1 DEF KeysWidened
<1> QED
  BY <1>4 DEF KeysWidened

LEMMA WidenedAtFirst == Init => KeysWidened
<1>1. DOMAIN <<>> = {}
  OBVIOUS
<1> QED
  BY <1>1 DEF Init, KeysWidened

LEMMA WidenedInductive ==
  ASSUME ~Allowed("narrow growth")
  PROVE  Types /\ KeysWidened /\ [Next]_vars => KeysWidened'
<1> SUFFICES ASSUME Types, KeysWidened, [Next]_vars PROVE KeysWidened'
  OBVIOUS
<1>1. CASE UNCHANGED vars
  BY <1>1 DEF KeysWidened, vars
<1>2. ASSUME NEW t \in Tables, NEW text \in Literals, NEW a \in Actions,
             NEW d \in Data, InsertCommand(t, text, a, d)
      PROVE  KeysWidened'
  <2> DEFINE k == Resized(Decimal(text[1]), text[2])
             c == Command("insert", t, k, a, d, NoHandle, text)
  <2>1. ~Narrow(text[2]) /\ Issue(c)
    BY <1>2 DEF InsertCommand
  <2>2. k \in Keys
    BY DEF Keys
  <2>3. c.literal = text /\ c.match_key = k
    BY DEF Command
  <2>4. c \in CommandType
    <3> HIDE DEF k
    <3> QED
      BY <2>2 DEF Command, CommandType
  <2>5. Widened(c)
    BY <2>1, <2>3 DEF Widened
  <2> HIDE DEF c
  <2> QED
    BY <2>1, <2>4, <2>5, IssueWidened
<1>3. ASSUME NEW t \in Tables, NEW a \in Actions, NEW d \in Data,
             NEW e \in getAllTableEntries(t), ModifyCommand(t, e, a, d)
      PROVE  KeysWidened'
  <2> DEFINE c == Command("modify", t, NoKey, a, d, e.handle, NoText)
  <2>1. e \in EntryType
    BY EntryTyped
  <2>2. c \in CommandType /\ Widened(c)
    BY <2>1 DEF Command, CommandType, Widened, Keys, EntryType
  <2>3. Issue(c)
    BY <1>3 DEF ModifyCommand
  <2> HIDE DEF c
  <2> QED
    BY <2>2, <2>3, IssueWidened
<1>4. ASSUME NEW t \in Tables, NEW e \in getAllTableEntries(t),
             DeleteCommand(t, e)
      PROVE  KeysWidened'
  <2> DEFINE c == Command("delete", t, NoKey, e.action_name, e.action_data,
                          e.handle, NoText)
  <2>1. e \in EntryType
    BY EntryTyped
  <2>2. c \in CommandType /\ Widened(c)
    BY <2>1 DEF Command, CommandType, Widened, Keys, EntryType
  <2>3. Issue(c)
    BY <1>4 DEF DeleteCommand
  <2> HIDE DEF c
  <2> QED
    BY <2>2, <2>3, IssueWidened
<1>5. CASE Execute
  <2>1. \E c : Answer(c)
    BY <1>5, Zenon DEF Execute
  <2> QED
    BY <2>1, AnswerWidened
<1>6. CASE AcceptResult
  BY <1>6 DEF AcceptResult, KeysWidened
<1> QED
  BY <1>1, <1>2, <1>3, <1>4, <1>5, <1>6 DEF Next

(* Whatever the width of the field and of the number typed, and whatever   *)
(* else the user asks for: the key of an insert command is that number, as *)
(* far as it fits, if no key grows to less than its double and one more.   *)
THEOREM NumbersKept ==
  ASSUME "narrow growth" \notin Liberties
  PROVE  Spec => []NumberKept
<1>1. ~Allowed("narrow growth")
  BY DEF Allowed
<1>2. Types /\ KeysWidened => NumberKept
  <2> SUFFICES ASSUME Types, KeysWidened,
                      NEW c \in ToSet(commands), c.kind = "insert"
               PROVE  Number(c.match_key) = c.literal[1] % Power(c.literal[2])
    BY DEF NumberKept
  <2>1. PICK i \in DOMAIN commands : c = commands[i]
    BY DEF ToSet
  <2>2. /\ c.literal \in Literals /\ ~Narrow(c.literal[2])
        /\ c.match_key = Resized(Decimal(c.literal[1]), c.literal[2])
    BY <2>1 DEF KeysWidened, Widened
  <2>3. /\ c.literal[1] \in Nat /\ c.literal[2] \in Nat
        /\ c.literal[1] < Power(DecimalWidth)
    BY <2>2, ControlPlaneAssumption, LiteralAssumption
  <2>4. c.match_key = Digits(c.literal[1], c.literal[2])
    BY <2>2, <2>3, ResizedDigits
  <2> QED
    BY <2>3, <2>4, DigitsNumber
<1>3. Types /\ KeysWidened /\ [Next]_vars => KeysWidened'
  BY <1>1, WidenedInductive
<1> QED
  BY <1>2, <1>3, WidenedAtFirst, TypesInductive, PTL DEF Spec
=============================================================================
