------------------------------ MODULE EvtxRun ------------------------------
(***************************************************************************)
(* What goevtx makes of the logs it was given (goevtx/main.go): a JSONL    *)
(* stream and, when asked for, an XML sidecar of the same events.  The     *)
(* JSONL encoder writes at once and keeps its first error; the sidecar     *)
(* goes through a buffer whose errors nobody reads and whose last flush,   *)
(* with the closing tag, is deferred: os.Exit does not run it.             *)
(*                                                                         *)
(* ToolRun has the selection of inputs and the exit codes of all parsers.  *)
(* Here a log is the sequence of what the walk over its chunks meets:      *)
(* records, and torn chunks and records that cannot be rendered, which are *)
(* unusable; or it cannot be read at all.  A record is the pair of its log *)
(* and its place there.                                                    *)
(***************************************************************************)
EXTENDS Naturals, FiniteSets

CONSTANTS
  NumLogs,    \* logs given with -f or found below -d
  MaxItems    \* bound: chunks and records met in one log

ASSUME NumLogsAssumption == NumLogs \in Nat \ {0}
ASSUME MaxItemsAssumption == MaxItems \in Nat

Log == 1 .. NumLogs
Place == 1 .. MaxItems
Item == {"record", "unusable"}
Record == Log \X Place
NoLog == 0

(* What the caller sees: no exit code yet, or that of a killed container. *)
Running == 256
Killed == 137

VARIABLES
  \* What a run is given.
  readable,   \* the logs whose chunks can be listed
  size,       \* size[l]: how many items log l has
  item,       \* item[l][p]: the item at place p
  sidecar,    \* was --xml given?
  quiet,      \* was -q given?
  \* main() and parseFile().
  pc,         \* where the program is
  at,         \* the log whose turn it is, or the last one
  place,      \* items of it met so far
  skipped,    \* those of them that were dropped
  failed,     \* logs counted as failed
  parsed,     \* logs counted as parsed
  dropped,    \* items counted as dropped in all parsed logs
  announced,  \* the number of drops the last line on stderr names
  exit,       \* the exit code
  \* The outputs.
  json,       \* the records in the JSONL file
  jbroken,    \* has a write to it failed?
  jfull,      \* does a write to it fail now?
  xfile,      \* the records in the sidecar
  xbuf,       \* those still in its buffer
  xbroken,    \* has a flush to it failed?
  xfull,      \* does a write to it fail now?
  closed      \* does the sidecar end with </Events>?

given == <<readable, size, item, sidecar, quiet>>
counts == <<failed, parsed, dropped>>
jsonVars == <<json, jbroken>>
xmlVars == <<xfile, xbuf, xbroken, closed>>
vars == <<readable, size, item, sidecar, quiet, pc, at, place, skipped, failed,
          parsed, dropped, announced, exit, json, jbroken, jfull, xfile, xbuf,
          xbroken, xfull, closed>>

(* The order of the records in the evidence, which both outputs keep. *)
Before(q, r) == q[1] < r[1] \/ (q[1] = r[1] /\ q[2] < r[2])
Current == <<at, place + 1>>
IsRecord(r) == r[2] <= size[r[1]] /\ item[r[1]][r[2]] = "record"

-----------------------------------------------------------------------------

Init ==
  /\ readable \in SUBSET Log
  /\ size \in [Log -> 0 .. MaxItems]
  /\ item \in [Log -> [Place -> Item]]
  /\ \A l \in Log, p \in Place : p > size[l] => item[l][p] = "unusable"
  /\ sidecar \in BOOLEAN /\ quiet \in BOOLEAN
  /\ pc = "open"
  /\ at = NoLog /\ place = 0 /\ skipped = 0
  /\ failed = {} /\ parsed = {} /\ dropped = 0 /\ announced = 0
  /\ exit = Running
  /\ json = {} /\ jbroken = FALSE /\ jfull = FALSE
  /\ xfile = {} /\ xbuf = {} /\ xbroken = FALSE /\ xfull = FALSE
  /\ closed = FALSE

(* openOut for both outputs; <Events> goes to the sidecar's buffer. *)
OpenOutputs ==
  /\ pc = "open"
  /\ \/ pc' = "logs" /\ exit' = exit
     \/ pc' = "done" /\ exit' = 1
  /\ UNCHANGED <<given, at, place, skipped, counts, announced, jsonVars, jfull,
                 xmlVars, xfull>>

(* Mutant: a log that cannot be read ends the loop. *)
NextLogStops ==
  /\ pc = "logs"
  /\ at < NumLogs
  /\ place' = 0 /\ skipped' = 0
  /\ IF at + 1 \in readable
     THEN pc' = "items" /\ at' = at + 1 /\ failed' = failed
     ELSE pc' = "logs" /\ at' = NumLogs /\ failed' = failed \cup {at + 1}
  /\ UNCHANGED <<given, parsed, dropped, announced, exit, jsonVars, jfull,
                 xmlVars, xfull>>

(* The loop over the inputs; parseFile opens the log and lists its chunks. *)
NextLog ==
  /\ pc = "logs"
  /\ at < NumLogs
  /\ at' = at + 1
  /\ place' = 0 /\ skipped' = 0
  /\ IF at' \in readable
     THEN pc' = "items" /\ failed' = failed
     ELSE pc' = "logs" /\ failed' = failed \cup {at'}
  /\ UNCHANGED <<given, parsed, dropped, announced, exit, jsonVars, jfull,
                 xmlVars, xfull>>

(* Mutant: what is dropped is not counted. *)
DropUncounted ==
  /\ pc = "items"
  /\ place < size[at] /\ ~IsRecord(Current)
  /\ place' = place + 1
  /\ UNCHANGED <<given, pc, at, skipped, counts, announced, exit, jsonVars,
                 jfull, xmlVars, xfull>>

(* A torn chunk, or a record without event, System block or payload. *)
Drop ==
  /\ pc = "items"
  /\ place < size[at] /\ ~IsRecord(Current)
  /\ place' = place + 1
  /\ skipped' = skipped + 1
  /\ UNCHANGED <<given, pc, at, counts, announced, exit, jsonVars, jfull,
                 xmlVars, xfull>>

(* emitXML: into the buffer, of which a full one passes its beginning on to the
   file.  A bufio.Writer whose flush failed takes nothing more.              *)
EmitXML(r) ==
  IF ~sidecar \/ xbroken
  THEN UNCHANGED <<xfile, xbuf, xbroken>>
  ELSE \/ /\ xbuf' = xbuf \cup {r}
          /\ UNCHANGED <<xfile, xbroken>>
       \/ \E last \in xbuf \cup {r} :
            LET passed == {q \in xbuf \cup {r} : ~Before(last, q)} IN
            IF xfull
            THEN \E part \in SUBSET passed :
                   /\ \A p \in part, q \in passed : Before(q, p) => q \in part
                   /\ xfile' = xfile \cup part
                   /\ xbuf' = {} /\ xbroken' = TRUE
            ELSE /\ xfile' = xfile \cup passed
                 /\ xbuf' = (xbuf \cup {r}) \ passed
                 /\ xbroken' = xbroken

(* toRecord, emitJSON and then emitXML. *)
Emit ==
  /\ pc = "items"
  /\ place < size[at] /\ IsRecord(Current)
  /\ ~jbroken /\ ~jfull
  /\ json' = json \cup {Current}
  /\ EmitXML(Current)
  /\ place' = place + 1
  /\ UNCHANGED <<given, pc, at, skipped, counts, announced, exit, jbroken,
                 jfull, xfull, closed>>

(* Mutant: the sidecar gets the event before the JSONL write is tried. *)
EmitFailsLate ==
  /\ pc = "items"
  /\ place < size[at] /\ IsRecord(Current)
  /\ jbroken \/ jfull
  /\ jbroken' = TRUE
  /\ EmitXML(Current)
  /\ failed' = failed \cup {at}
  /\ pc' = "logs"
  /\ UNCHANGED <<given, at, place, skipped, parsed, dropped, announced, exit,
                 json, jfull, xfull, closed>>

(* emitJSON fails: the rest of the log is given up, and with it the number of
   items dropped in it; the run goes on with the next log.                   *)
EmitFails ==
  /\ pc = "items"
  /\ place < size[at] /\ IsRecord(Current)
  /\ jbroken \/ jfull
  /\ jbroken' = TRUE
  /\ failed' = failed \cup {at}
  /\ pc' = "logs"
  /\ UNCHANGED <<given, at, place, skipped, parsed, dropped, announced, exit,
                 json, jfull, xmlVars, xfull>>

EndLog ==
  /\ pc = "items"
  /\ place = size[at]
  /\ parsed' = parsed \cup {at}
  /\ dropped' = dropped + skipped
  /\ pc' = "logs"
  /\ UNCHANGED <<given, at, place, skipped, failed, announced, exit, jsonVars,
                 jfull, xmlVars, xfull>>

(* The last line on stderr, which -q suppresses. *)
Summary == IF quiet THEN 0 ELSE dropped

(* Logs have failed: os.Exit(2), which runs no deferred call. *)
FinishFailed ==
  /\ pc = "logs" /\ at = NumLogs
  /\ failed # {}
  /\ announced' = Summary
  /\ pc' = "done" /\ exit' = 2
  /\ UNCHANGED <<given, at, place, skipped, counts, jsonVars, jfull, xmlVars,
                 xfull>>

(* Mutant: the exit code 0 is given with os.Exit too. *)
FinishNoDefer ==
  /\ pc = "logs" /\ at = NumLogs
  /\ failed = {}
  /\ announced' = Summary
  /\ pc' = "done" /\ exit' = 0
  /\ UNCHANGED <<given, at, place, skipped, counts, jsonVars, jfull, xmlVars,
                 xfull>>

(* main() returns: </Events>, the flush whose error is dropped, Close. *)
Finish ==
  /\ pc = "logs" /\ at = NumLogs
  /\ failed = {}
  /\ announced' = Summary
  /\ pc' = "done" /\ exit' = 0
  /\ \/ /\ sidecar /\ ~xbroken /\ ~xfull
        /\ xfile' = xfile \cup xbuf /\ xbuf' = {}
        /\ closed' = TRUE
        /\ xbroken' = xbroken
     \/ /\ sidecar /\ ~xbroken /\ xfull
        /\ \E part \in SUBSET xbuf :
             /\ \A p \in part, q \in xbuf : Before(q, p) => q \in part
             /\ xfile' = xfile \cup part
        /\ xbuf' = {}
        /\ xbroken' = TRUE
        /\ closed' = closed
     \/ /\ ~sidecar \/ xbroken
        /\ UNCHANGED xmlVars
  /\ UNCHANGED <<given, at, place, skipped, counts, jsonVars, jfull, xfull>>

(* The disks of the two outputs fill up, or are freed. *)
DiskChanges ==
  /\ pc # "done"
  /\ \/ jfull' = ~jfull /\ UNCHANGED xfull
     \/ xfull' = ~xfull /\ UNCHANGED jfull
  /\ UNCHANGED <<given, pc, at, place, skipped, counts, announced, exit,
                 jsonVars, xmlVars>>

(* The container is killed. *)
Kill ==
  /\ pc # "done"
  /\ pc' = "done" /\ exit' = Killed
  /\ UNCHANGED <<given, at, place, skipped, counts, announced, jsonVars, jfull,
                 xmlVars, xfull>>

Program ==
  \/ OpenOutputs \/ NextLog \/ Drop \/ Emit \/ EmitFails \/ EndLog
  \/ FinishFailed \/ Finish

Next == Program \/ DiskChanges \/ Kill

Spec == Init /\ [][Next]_vars

-----------------------------------------------------------------------------
(* Properties *)

TypeOK ==
  /\ readable \subseteq Log
  /\ size \in [Log -> 0 .. MaxItems] /\ item \in [Log -> [Place -> Item]]
  /\ sidecar \in BOOLEAN /\ quiet \in BOOLEAN
  /\ pc \in {"open", "logs", "items", "done"}
  /\ at \in Log \cup {NoLog} /\ (pc = "items" => at \in readable)
  /\ place \in 0 .. MaxItems /\ (pc = "items" => place <= size[at])
  /\ skipped \in Nat
  /\ failed \subseteq Log /\ parsed \subseteq readable
  /\ dropped \in Nat /\ announced \in Nat
  /\ exit \in {Running, Killed, 0, 1, 2}
  /\ json \subseteq Record /\ xfile \subseteq Record /\ xbuf \subseteq Record
  /\ jbroken \in BOOLEAN /\ jfull \in BOOLEAN
  /\ xbroken \in BOOLEAN /\ xfull \in BOOLEAN /\ closed \in BOOLEAN

(* Whatever the run goes through, and however it ends, the sidecar lacks only a
   tail: it holds no event the JSONL stream has not, and none without those
   before it.                                                                *)
SidecarIsPrefix ==
  /\ xfile \subseteq json
  /\ \A r \in xfile, q \in json : Before(q, r) => q \in xfile

(* The JSONL stream has no gap: before an event come all events of the readable
   logs before it, in spite of chunks that were skipped, logs that were given
   up and writes that failed on a disk that is free again.                   *)
JsonHasNoGap ==
  \A r \in json, q \in Record :
    q[1] \in readable /\ IsRecord(q) /\ Before(q, r) => q \in json

(* parseFile's comment (185-188): a lossy parse is reported.  Exit code 0 means
   that every item of every log is in the JSONL stream or counted as dropped,
   and that the last line on stderr names how many, unless -q suppressed it.
   Nothing was counted twice and nothing was lost on the way.                *)
Lost == {r \in Record : r[2] <= size[r[1]] /\ r \notin json}
LossIsReported ==
  exit = 0 => /\ \A r \in Lost : ~IsRecord(r)
              /\ ~quiet => announced = Cardinality(Lost)

(* "the rest still emitted" (header, 23-24): on a disk that takes every write,
   exit code 2 means that every log that can be read is there in full.       *)
RestIsEmitted ==
  exit \in {0, 2} /\ ~jbroken =>
    \A r \in Record : r[1] \in readable /\ IsRecord(r) => r \in json

(* A run that exits 0 leaves a sidecar that is closed and has every event of
   the JSONL stream, unless a write to it failed.  Only on this way out does
   the deferred flush run.                                                   *)
SidecarComplete ==
  exit = 0 /\ sidecar /\ ~xbroken => closed /\ xfile = json
=============================================================================
