----------------------------- MODULE HiveReplay -----------------------------
(***************************************************************************)
(* How the four registry tools open a hive: openHive of gore, gosbe and    *)
(* goamcache, openHiveReader and recoverHive of goappcompat.  When .LOG1 or *)
(* .LOG2 lies beside the hive, regparser.RecoverHive (external) writes a   *)
(* recovered copy below $TMPDIR, which the tool has pointed at --work-dir; *)
(* otherwise, or when the replay fails, the committed hive is parsed.      *)
(*                                                                         *)
(* A run goes through many hives, so what one leaves open, on the work     *)
(* directory's tmpfs, or in the process environment is there for the next. *)
(***************************************************************************)
EXTENDS Naturals, FiniteSets

CONSTANTS
  Tools,      \* the tools to run
  NumHives    \* hives of a run

(* Where the tools differ: is there an -nl option; who sets TMPDIR, each "call"
   or "main"; is stdout muted around RecoverHive; when is a fallback noted on
   stderr, at the "replay", the "open" registry or the "end" of the hive; and
   is it noted under -q too.                                                 *)
gore == [name |-> "gore", nl |-> TRUE, tmpdir |-> "call", mutes |-> FALSE,
         notedAt |-> "open", always |-> TRUE]
gosbe == [gore EXCEPT !.name = "gosbe"]
goamcache == [name |-> "goamcache", nl |-> FALSE, tmpdir |-> "main",
              mutes |-> FALSE, notedAt |-> "end", always |-> FALSE]
goappcompat == [name |-> "goappcompat", nl |-> FALSE, tmpdir |-> "call",
                mutes |-> TRUE, notedAt |-> "replay", always |-> FALSE]
AllTools == {gore, gosbe, goamcache, goappcompat}

ASSUME ToolAssumption == Tools \subseteq AllTools
ASSUME HivesAssumption == NumHives \in Nat

Hive == 1 .. NumHives
NoHive == 0
Log == {".LOG1", ".LOG2"}

VARIABLES
  tool,       \* the tool that runs
  replay,     \* not -nl
  quiet,      \* -q
  pc,         \* where the program is
  cur,        \* the hive at hand
  logs,       \* its logs that could be opened
  source,     \* what is parsed: "none", "committed", "recovered"
  open,       \* open files of this process: "hive", "recovered", or a log
  copies,     \* hives whose recovered copy is in the work directory
  tmpdir,     \* TMPDIR: as "given" to the process, or the "work" directory
  muted,      \* is os.Stdout the null device?
  \* History, which no action reads.
  replayed,   \* did RecoverHive succeed for cur?
  noted,      \* hives whose fallback stderr has a note about
  parsedAs    \* parsedAs[h]: what h was parsed from to the end, with
              \* "fallback" for the committed hive when there were logs

setting == <<tool, replay, quiet>>
vars == <<setting, pc, cur, logs, source, open, copies, tmpdir, muted,
          replayed, noted, parsedAs>>

Given == IF tool.tmpdir = "main" THEN "work" ELSE "given"

FellBack == logs # {} /\ ~replayed

(* Mutant: -q silences every tool. *)
NotedQuietly(step) ==
  IF FellBack /\ tool.notedAt = step /\ ~quiet THEN noted \cup {cur} ELSE noted

(* The notes once `step' is done. *)
NotedOn(step) ==
  IF FellBack /\ tool.notedAt = step /\ (tool.always \/ ~quiet)
  THEN noted \cup {cur} ELSE noted

-----------------------------------------------------------------------------

(* main() has parsed the flags; goamcache has set TMPDIR for good. *)
Init ==
  /\ tool \in Tools
  /\ replay \in (IF tool.nl THEN BOOLEAN ELSE {TRUE})
  /\ quiet \in BOOLEAN
  /\ pc = "next"
  /\ cur = NoHive /\ logs = {} /\ source = "none"
  /\ open = {} /\ copies = {} /\ tmpdir = Given /\ muted = FALSE
  /\ replayed = FALSE /\ noted = {}
  /\ parsedAs = [h \in Hive |-> "none"]

(* os.Open of the next hive, and of the logs beside it that can be opened.
   A hive that cannot be opened fails: nothing is open, the run goes on.     *)
OpenFiles ==
  /\ pc = "next" /\ cur < NumHives
  /\ cur' = cur + 1
  /\ replayed' = FALSE
  /\ source' = "none"
  /\ \/ UNCHANGED <<pc, logs, open>>
     \/ /\ logs' \in (IF replay THEN SUBSET Log ELSE {{}})
        /\ open' = {"hive"} \cup logs'
        /\ pc' = IF logs' = {} THEN "committed" ELSE "redirect"
  /\ UNCHANGED <<setting, copies, tmpdir, muted, noted, parsedAs>>

(* TMPDIR is pointed at the work directory; goappcompat mutes stdout. *)
Redirect ==
  /\ pc = "redirect"
  /\ tmpdir' = "work"
  /\ muted' \in (IF tool.mutes THEN BOOLEAN ELSE {FALSE})  \* FALSE: no null device
  /\ pc' = "recover"
  /\ UNCHANGED <<setting, cur, logs, source, open, copies, replayed, noted,
                 parsedAs>>

(* regparser.RecoverHive, which prints to stdout, and writes the copy. *)
RecoverHive ==
  /\ pc = "recover"
  /\ \/ /\ replayed' = TRUE
        /\ open' = open \cup {"recovered"}
        /\ copies' = copies \cup {cur}
     \/ replayed' = FALSE /\ UNCHANGED <<open, copies>>
  /\ pc' = "restore"
  /\ UNCHANGED <<setting, cur, logs, source, tmpdir, muted, noted, parsedAs>>

(* Mutant: the logs stay open when the replay has failed. *)
RestoreKeepsLogs ==
  /\ pc = "restore"
  /\ tmpdir' = Given /\ muted' = FALSE
  /\ open' = IF replayed THEN open \ (Log \cup {"hive"}) ELSE open
  /\ noted' = NotedOn("replay")
  /\ pc' = IF replayed THEN "recovered" ELSE "committed"
  /\ UNCHANGED <<setting, cur, logs, source, copies, replayed, parsedAs>>

(* What was redirected is restored and the logs are closed.  After a replay
   the committed hive is closed too; otherwise it is what will be parsed.    *)
Restore ==
  /\ pc = "restore"
  /\ tmpdir' = Given /\ muted' = FALSE
  /\ open' = (open \ Log) \ (IF replayed THEN {"hive"} ELSE {})
  /\ noted' = NotedOn("replay")
  /\ pc' = IF replayed THEN "recovered" ELSE "committed"
  /\ UNCHANGED <<setting, cur, logs, source, copies, replayed, parsedAs>>

(* NewRegistry takes the file, from which the records are read and emitted. *)
NewRegistry ==
  /\ pc \in {"committed", "recovered"}
  /\ source' = pc
  /\ noted' = NotedOn("open")
  /\ pc' = "parse"
  /\ UNCHANGED <<setting, cur, logs, open, copies, tmpdir, muted, replayed,
                 parsedAs>>

(* Mutant: a recovered copy that is no registry is left where it is. *)
RegistryFailsKeepsCopy ==
  /\ pc \in {"committed", "recovered"}
  /\ open' = {}
  /\ copies' = copies
  /\ pc' = "next"
  /\ UNCHANGED <<setting, cur, logs, source, tmpdir, muted, replayed, noted,
                 parsedAs>>

(* NewRegistry fails: the file is closed and a recovered copy removed. *)
RegistryFails ==
  /\ pc \in {"committed", "recovered"}
  /\ open' = {}
  /\ copies' = copies \ {cur}
  /\ pc' = "next"
  /\ UNCHANGED <<setting, cur, logs, source, tmpdir, muted, replayed, noted,
                 parsedAs>>

(* The deferred cleanup.  The hive was parsed to its end, or it lacks the key
   the tool reads, or an error ended the parse.                              *)
Cleanup ==
  /\ pc = "parse"
  /\ open' = {}
  /\ copies' = IF source = "recovered" THEN copies \ {cur} ELSE copies
  /\ \/ /\ parsedAs' = [parsedAs EXCEPT ![cur] = IF FellBack THEN "fallback"
                                                 ELSE source]
        /\ noted' = NotedOn("end")
     \/ UNCHANGED <<parsedAs, noted>>
  /\ pc' = "next"
  /\ UNCHANGED <<setting, cur, logs, source, tmpdir, muted, replayed>>

Next ==
  \/ OpenFiles \/ Redirect \/ RecoverHive \/ Restore \/ NewRegistry
  \/ RegistryFails \/ Cleanup

Spec == Init /\ [][Next]_vars

-----------------------------------------------------------------------------
(* Properties *)

TypeOK ==
  /\ tool \in AllTools /\ replay \in BOOLEAN /\ quiet \in BOOLEAN
  /\ pc \in {"next", "redirect", "recover", "restore", "committed",
             "recovered", "parse"}
  /\ cur \in Hive \cup {NoHive} /\ (pc # "next" => cur # NoHive)
  /\ logs \subseteq Log
  /\ source \in {"none", "committed", "recovered"}
  /\ open \subseteq {"hive", "recovered"} \cup Log
  /\ copies \subseteq Hive
  /\ tmpdir \in {"given", "work"} /\ muted \in BOOLEAN
  /\ replayed \in BOOLEAN /\ noted \subseteq Hive
  /\ parsedAs \in [Hive -> {"none", "committed", "fallback", "recovered"}]

(* Nothing is carried over from one hive to the next, on any path through the
   errors of openHive: no open file, no recovered copy on the tmpfs, no changed
   TMPDIR, no muted stdout.                                                   *)
NothingCarriedOver ==
  /\ pc = "next" => open = {} /\ copies = {}
  /\ pc \in {"next", "committed", "recovered", "parse"} =>
       tmpdir = Given /\ ~muted

(* Records are read from an open file: the recovered copy, which exists then,
   exactly when the logs were replayed, and the committed hive otherwise.     *)
ParsesTheRightFile ==
  pc = "parse" =>
    /\ source = IF replayed THEN "recovered" ELSE "committed"
    /\ open = IF replayed THEN {"recovered"} ELSE {"hive"}
    /\ copies = IF replayed THEN {cur} ELSE {}

(* gore's comment (lines 210-212), kept by gore and gosbe: a hive whose records
   come from the committed state because its replay failed is noted on stderr,
   even under -q.  The note is several steps behind the failed replay, and an
   error between the two may take its place.                                  *)
GoreNotesFallback ==
  tool \in {gore, gosbe} =>
    \A h \in Hive : parsedAs[h] = "fallback" => h \in noted
=============================================================================
