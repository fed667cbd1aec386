----------------------------- MODULE GoeseDump -----------------------------
(***************************************************************************)
(* A run of goese (goese/main.go) that writes to a directory: the one      *)
(* database of -f, or every SRUM and SUM database found under -d, each     *)
(* dumped table by table into a file of its own.  os.Create truncates what *)
(* is there, so the file names decide whether output survives.             *)
(*                                                                         *)
(* Databases are numbered in path order.  Names are sequences of their     *)
(* characters as far as the naming rules look at them; the letter case,    *)
(* which the look-ups ignore, is left out.                                 *)
(***************************************************************************)
EXTENDS Naturals, Sequences

CONSTANTS
  NumDbs,     \* databases in the scanned tree
  KindOf,     \* KindOf[d]: "SRUM" or "SUM"
  StemOf,     \* StemOf[d]: the file name of d without its extension
  TablesOf,   \* TablesOf[d]: the tables in d's catalog, in its order
  Requests,   \* the values of -t: sequences of names; << >> when not given
  Alias       \* srumAliases: a function from GUID tables to file names

Db == 1 .. NumDbs
NoDb == 0
Digits == <<"1", "2", "3", "4", "5", "6", "7", "8", "9">>

ASSUME DbsAssumption ==
  /\ NumDbs \in 1 .. Len(Digits)
  /\ KindOf \in [Db -> {"SRUM", "SUM"}]
  /\ StemOf \in [Db -> Seq(STRING)]
  /\ TablesOf \in [Db -> Seq(Seq(STRING))]
  /\ Requests \subseteq Seq(Seq(STRING))
  /\ \A guid \in DOMAIN Alias : Alias[guid] \in Seq(STRING)

(* The elements of a sequence that are not in a set, in their order. *)
Without(s, S) ==
  LET kept[i \in 0 .. Len(s)] ==
        IF i = 0 THEN << >>
        ELSE IF s[i] \in S THEN kept[i - 1] ELSE Append(kept[i - 1], s[i])
  IN  kept[Len(s)]

SystemTable(t) == Len(t) >= 4 /\ SubSeq(t, 1, 4) = <<"M", "S", "y", "s">>

(* safeName: the alias of a GUID table, or the name without braces and with
   separators and blanks folded.                                            *)
SafeName(name) ==
  IF name \in DOMAIN Alias THEN Alias[name]
  ELSE LET bare == Without(name, {"{", "}"})
       IN  [i \in DOMAIN bare |->
              IF bare[i] \in {"/", "\\", " "} THEN "_" ELSE bare[i]]

(* The -t look-up: an alias stands for its GUID table. *)
Resolve(want) ==
  IF \E guid \in DOMAIN Alias : Alias[guid] = want
  THEN CHOOSE guid \in DOMAIN Alias : Alias[guid] = want
  ELSE want

Catalog(d) == {TablesOf[d][i] : i \in DOMAIN TablesOf[d]}
UserTables(d) == Without(TablesOf[d], {t \in Catalog(d) : SystemTable(t)})
Resolved(wants) == [i \in DOMAIN wants |-> Resolve(wants[i])]

(* Mutant: a name nothing in the catalog matched is kept. *)
SelectedUnchecked(d, wants) ==
  IF wants = << >> THEN UserTables(d) ELSE Resolved(wants)

(* The tables processDb selects, in the order it dumps them. *)
Selected(d, wants) ==
  IF wants = << >> THEN UserTables(d)
  ELSE Without(Resolved(wants), {Resolve(wants[i]) : i \in DOMAIN wants} \ Catalog(d))

AllFound(d, wants) == \A i \in DOMAIN wants : Resolve(wants[i]) \in Catalog(d)

-----------------------------------------------------------------------------

VARIABLES
  dirMode,      \* -d rather than -f
  request,      \* -t
  pc,           \* where the program is
  left,         \* databases whose turn has not come
  cur,          \* the database at hand
  sub,          \* its output directory
  queue,        \* its tables still to dump
  used,         \* used[name]: databases that asked for the directory name
  file,         \* file[<<directory, name>>]: what the output file holds
  failedDbs, failedTables,    \* the counters of the last message
  exit,         \* the exit code, or Running
  \* History, which no action reads.
  found,        \* the databases of this run
  refused,      \* those reported as failed
  dumped,       \* <<database, table>> reported as dumped
  failed        \* <<database, table>> reported as failed

setting == <<dirMode, request>>
dbVars == <<left, cur, sub, used, found, refused, failedDbs>>
vars == <<setting, pc, dbVars, queue, file, failedTables, exit, dumped, failed>>

Running == 256
NoFile == [owner |-> <<NoDb, << >>>>, whole |-> FALSE]

(* Mutant: no number for the second database of a name. *)
DbSubdirPlain(d, count) == <<KindOf[d]>> \o SafeName(StemOf[d])

(* dbSubdir: kind and name of the database; the n-th that asks for the same
   one gets "-n".                                                            *)
DbSubdir(d, count) ==
  LET name == <<KindOf[d]>> \o SafeName(StemOf[d])
  IN  IF count = 1 THEN name ELSE name \o <<"-", Digits[count]>>

BaseName(d) == <<KindOf[d]>> \o SafeName(StemOf[d])
Subdirs == {DbSubdir(d, n) : d \in Db, n \in 1 .. NumDbs} \cup {<< >>}
FileNames == {SafeName(t) : t \in UNION {Catalog(d) : d \in Db}}

Init ==
  /\ dirMode \in BOOLEAN
  /\ request \in Requests
  /\ pc = "scan"
  /\ left = {} /\ cur = NoDb /\ sub = << >> /\ queue = << >>
  /\ used = [name \in {BaseName(d) : d \in Db} |-> 0]
  /\ file = [slot \in Subdirs \X FileNames |-> NoFile]
  /\ failedDbs = 0 /\ failedTables = 0
  /\ exit = Running
  /\ found = {} /\ refused = {} /\ dumped = {} /\ failed = {}

ExitWith(code) == pc' = "done" /\ exit' = code

(* findDatabases, or the one file of -f; an unreadable root is an error, and
   so is a scan without a hit.                                               *)
Scan ==
  /\ pc = "scan"
  /\ \/ dirMode /\ ExitWith(1) /\ UNCHANGED <<left, found>>
     \/ /\ found' \in (IF dirMode THEN SUBSET Db \ {{}} ELSE {{d} : d \in Db})
        /\ left' = found'
        /\ pc' = "next" /\ exit' = exit
  /\ UNCHANGED <<setting, cur, sub, used, refused, failedDbs, queue, file,
                 failedTables, dumped, failed>>

(* The head of main's loop: the output directory of the next database. *)
NextDb ==
  /\ pc = "next"
  /\ \E d \in left :
       /\ \A e \in left : d <= e
       /\ left' = left \ {d}
       /\ cur' = d
       /\ IF dirMode
          THEN /\ used' = [used EXCEPT ![BaseName(d)] = @ + 1]
               /\ sub' = DbSubdir(d, used'[BaseName(d)])
          ELSE used' = used /\ sub' = << >>
  /\ pc' = "open"
  /\ UNCHANGED <<setting, found, refused, failedDbs, queue, file, failedTables,
                 exit, dumped, failed>>

(* The database cannot be opened, its catalog cannot be read, or -f was given
   a -t table it does not have: nothing of it is written.                    *)
DbFails ==
  /\ pc = "open"
  /\ refused' = refused \cup {cur}
  /\ IF dirMode
     THEN pc' = "next" /\ failedDbs' = failedDbs + 1 /\ exit' = exit
     ELSE ExitWith(1) /\ failedDbs' = failedDbs
  /\ UNCHANGED <<setting, left, cur, sub, used, found, queue, file,
                 failedTables, dumped, failed>>

(* Under -d a -t table a database does not have is skipped with a note. *)
SelectTables ==
  /\ pc = "open"
  /\ dirMode \/ AllFound(cur, request)
  /\ queue' = Selected(cur, request)
  /\ pc' = "tables"
  /\ UNCHANGED <<setting, dbVars, file, failedTables, exit, dumped, failed>>

Table == <<cur, Head(queue)>>
Slot == <<sub, SafeName(Head(queue))>>

FailTable ==
  /\ failedTables' = failedTables + 1
  /\ failed' = failed \cup {Table}
  /\ queue' = Tail(queue)
  /\ pc' = "tables"
  /\ UNCHANGED <<setting, dbVars, exit, dumped>>

(* openOut cannot make the directory or the file. *)
CreateFails ==
  /\ pc = "tables" /\ queue # << >>
  /\ FailTable
  /\ UNCHANGED file

(* os.Create: whatever the file held is gone. *)
CreateFile ==
  /\ pc = "tables" /\ queue # << >>
  /\ file' = [file EXCEPT ![Slot] = [owner |-> Table, whole |-> FALSE]]
  /\ pc' = "rows"
  /\ UNCHANGED <<setting, dbVars, queue, failedTables, exit, dumped, failed>>

(* A row cannot be read or written, or the CSV writer's flush reports it. *)
RowsFail ==
  /\ pc = "rows"
  /\ FailTable
  /\ UNCHANGED file

DumpTable ==
  /\ pc = "rows"
  /\ file' = [file EXCEPT ![Slot].whole = TRUE]
  /\ dumped' = dumped \cup {Table}
  /\ queue' = Tail(queue)
  /\ pc' = "tables"
  /\ UNCHANGED <<setting, dbVars, failedTables, exit, failed>>

EndDb ==
  /\ pc = "tables" /\ queue = << >>
  /\ pc' = "next"
  /\ UNCHANGED <<setting, dbVars, queue, file, failedTables, exit, dumped, failed>>

(* Mutant: databases that failed as a whole do not count. *)
ExitCodeOfTables == IF failedTables > 0 THEN 2 ELSE 0

ExitCode == IF failedDbs > 0 \/ failedTables > 0 THEN 2 ELSE 0

Finish ==
  /\ pc = "next" /\ left = {}
  /\ ExitWith(ExitCode)
  /\ UNCHANGED <<setting, dbVars, queue, file, failedTables, dumped, failed>>

Next ==
  \/ Scan \/ NextDb \/ DbFails \/ SelectTables \/ CreateFails \/ CreateFile
  \/ RowsFail \/ DumpTable \/ EndDb \/ Finish

Spec == Init /\ [][Next]_vars

-----------------------------------------------------------------------------
(* Properties *)

TypeOK ==
  /\ dirMode \in BOOLEAN /\ request \in Requests
  /\ pc \in {"scan", "next", "open", "tables", "rows", "done"}
  /\ found \subseteq Db /\ left \subseteq found /\ cur \in found \cup {NoDb}
  /\ refused \subseteq found
  /\ sub \in Subdirs
  /\ \A i \in DOMAIN queue : queue[i] \in Catalog(cur)
  /\ pc = "rows" => queue # << >>
  /\ \A name \in DOMAIN used : used[name] \in 0 .. NumDbs
  /\ \A slot \in DOMAIN file :
       file[slot] = NoFile \/ file[slot].owner[2] \in Catalog(file[slot].owner[1])
  /\ failedDbs \in 0 .. NumDbs /\ failedTables \in Nat
  /\ exit \in {Running, 0, 1, 2}

(* What the naming rules do not rule out: a database called as another one of
   its kind with a number behind it, and two tables of one database whose names
   fold to one file name.                                                     *)
NamesApart ==
  /\ \A d, e \in Db : \A n \in 2 .. NumDbs : BaseName(e) # BaseName(d) \o <<"-", Digits[n]>>
  /\ \A d \in Db : \A t, u \in Catalog(d) : SafeName(t) = SafeName(u) => t = u

HoldsTable(d, t) ==
  \E slot \in DOMAIN file : file[slot] = [owner |-> <<d, t>>, whole |-> TRUE]

(* The comment on dbSubdir (lines 353-354): the directory names are
   de-duplicated.  What was reported as dumped stays in the output tree, whole,
   to the end: no later database or table is written over it.  Only a table that
   -t names twice is dumped over itself; if that fails it is reported.       *)
DumpedStaysThere ==
  \A v \in dumped \ failed :
    HoldsTable(v[1], v[2]) \/ (pc = "rows" /\ v = Table)

(* The header comment on the exit codes (lines 28-30): code 0 means that all
   requested tables were dumped, and with code 2 the rest is still written.
   When the run ends, every table the databases were asked for is in the output
   tree, or it or its database was reported.                                  *)
AllAccountedFor ==
  exit \in {0, 2} =>
    \A d \in found :
      \/ d \in refused /\ exit = 2
      \/ \A i \in DOMAIN Selected(d, request) :
           \/ <<d, Selected(d, request)[i]>> \in failed /\ exit = 2
           \/ HoldsTable(d, Selected(d, request)[i])
=============================================================================
