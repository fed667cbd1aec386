------------------------------ MODULE ToolRun ------------------------------
(***************************************************************************)
(* One run of a Go parser: collect the inputs, open the output, parse one  *)
(* input after the other and emit its records, flush, derive the exit      *)
(* code.  The program structure is the same in the eleven tools; ToolTraits *)
(* has the points where they differ.  The disk the output goes to can fill *)
(* up, and be freed again, at any time.                                    *)
(*                                                                         *)
(* Inputs are numbered in the order sort.Strings gives their paths.  What  *)
(* the libraries make of a file's bytes is its kind; a record is the pair  *)
(* of its input and its number there.  Progress messages are left out.     *)
(***************************************************************************)
EXTENDS Naturals, ToolTraits

CONSTANTS
  Tools,      \* the tools to run
  NumFiles,   \* files below the directory given with -d
  MaxRows     \* bound: records in a file

ASSUME ToolsAssumption == Tools \subseteq Trait
ASSUME NumFilesAssumption == NumFiles \in Nat \ {0}
ASSUME MaxRowsAssumption == MaxRows \in Nat \ {0}

File == 1 .. NumFiles
Record == File \X (1 .. MaxRows)
NoFile == 0

(* What a file can be, for the tool that meets it:
   "good" parses; "damaged" has the right name and header and does not parse
   in full; "locked" has the right name and cannot be opened; "foreign" has
   neither name nor header; "nokey" is a hive or database without the key or
   table; "hidden" lies in a subdirectory that cannot be read.              *)
Kind == {"good", "damaged", "locked", "foreign", "nokey", "hidden"}

(* What the caller sees while the run goes on. *)
Running == 256

VARIABLES
  tool,       \* the tool that runs
  dirMode,    \* -d rather than -f
  csv,        \* --csv rather than JSONL
  kind,       \* kind[i]: what file i is
  rowsOf,     \* rowsOf[i]: the records in file i
  pc,         \* where the program is
  left,       \* inputs whose turn has not come
  at,         \* the input being parsed
  row,        \* its records emitted so far
  failed,     \* inputs that failed
  parsed,     \* inputs parsed to their end
  entries,    \* records of the parsed inputs
  out,        \* records in the output file
  buf,        \* records in the CSV writer's buffer
  broken,     \* has the writer failed before?  Its error is sticky
  diskFull,   \* does a write fail now?
  exit        \* the exit code, or Running

setting == <<tool, dirMode, csv, kind, rowsOf>>
vars == <<tool, dirMode, csv, kind, rowsOf, pc, left, at, row, failed, parsed,
          entries, out, buf, broken, diskFull, exit>>

-----------------------------------------------------------------------------
(* Which files are inputs *)

(* collectInputs: the -f file itself, or what the walk under -d lists. *)
Collected ==
  IF ~dirMode THEN {1}
  ELSE {i \in File : /\ kind[i] # "hidden"
                     /\ tool.select = "name" => kind[i] # "foreign"}

(* looksLike...: the header test a -d run makes when a file's turn comes. *)
LooksRight(i) == kind[i] \notin {"locked", "foreign"}

(* Which inputs are passed over without a count: by the header test, or as a
   hive or database that is none of this tool's.  A damaged database may fail
   gowxt's hasActivityTable as well.                                        *)
PassesOver(i) ==
  \/ dirMode /\ tool.select = "header" /\ ~LooksRight(i)
  \/ kind[i] = "nokey" /\ tool.noKey = "skip"
  \/ kind[i] = "nokey" /\ tool.noKey = "skipInDir" /\ dirMode
MayPassOver(i) ==
  PassesOver(i) \/ (dirMode /\ kind[i] = "damaged" /\ tool.damaged = "midway")

(* Which inputs fail before their first record, and which after some. *)
Fails(i) ==
  \/ kind[i] = "locked"
  \/ kind[i] \in {"damaged", "foreign"} /\ tool.damaged # "lenient"
  \/ kind[i] = "nokey" /\ tool.noKey = "skipInDir"
FailsMidway(i) == kind[i] = "damaged" /\ tool.damaged = "midway"

(* The records an input that parses holds. *)
Rows(i) == IF kind[i] = "good" \/ FailsMidway(i) THEN rowsOf[i] ELSE 0

-----------------------------------------------------------------------------

(* The kinds the format of tool t has. *)
KindsFor(t) == {k \in Kind : k = "nokey" => t.noKey # "none"}

Init ==
  /\ tool \in Tools
  /\ dirMode \in BOOLEAN
  /\ csv \in (IF tool.csv THEN BOOLEAN ELSE {FALSE})
  /\ kind \in [File -> Kind]
  /\ \A i \in File : kind[i] \in KindsFor(tool)
  /\ ~dirMode => \A i \in File : kind[i] = "hidden" <=> i # 1
  /\ rowsOf \in [File -> 0 .. MaxRows]
  /\ \A i \in File :
       tool.rows = "one" \/ kind[i] \notin {"good", "damaged"} => rowsOf[i] = 1
  /\ pc = "collect"
  /\ left = {} /\ at = NoFile /\ row = 0
  /\ failed = {} /\ parsed = {} /\ entries = 0
  /\ out = {} /\ buf = {} /\ broken = FALSE /\ diskFull = FALSE
  /\ exit = Running

ExitWith(code) == pc' = "done" /\ exit' = code

(* collectInputs, and the refusal when it fails or finds nothing. *)
Collect ==
  /\ pc = "collect"
  /\ \/ /\ dirMode                                \* the root is unreadable
        /\ ExitWith(1)
        /\ left' = left
     \/ /\ left' = Collected
        /\ IF left' = {} THEN ExitWith(1) ELSE pc' = "open" /\ exit' = exit
  /\ UNCHANGED <<setting, at, row, failed, parsed, entries, out, buf, broken,
                 diskFull>>

(* openOut; the CSV header goes to the writer's buffer, where it fits. *)
OpenOut ==
  /\ pc = "open"
  /\ \/ ExitWith(1)
     \/ pc' = "next" /\ exit' = exit
  /\ UNCHANGED <<setting, left, at, row, failed, parsed, entries, out, buf,
                 broken, diskFull>>

Turn(i) ==
  /\ pc = "next"
  /\ i \in left /\ \A j \in left : i <= j
  /\ left' = left \ {i}
  /\ UNCHANGED <<setting, row, parsed, entries, out, buf, broken, diskFull,
                 exit>>

PassOver ==
  \E i \in left :
    /\ Turn(i)
    /\ MayPassOver(i)
    /\ UNCHANGED <<pc, at, failed>>

(* "FAILED" is printed for it and the run goes on. *)
FailInput ==
  \E i \in left :
    /\ Turn(i)
    /\ ~PassesOver(i) /\ Fails(i)
    /\ failed' = failed \cup {i}
    /\ UNCHANGED <<pc, at>>

BeginInput ==
  \E i \in left :
    /\ Turn(i)
    /\ ~PassesOver(i)
    /\ ~Fails(i) \/ FailsMidway(i)
    /\ at' = i
    /\ pc' = "emit"
    /\ failed' = failed

(* The input at hand is given up: by its parser, or because a write failed. *)
GiveUp ==
  /\ failed' = failed \cup {at}
  /\ at' = NoFile /\ row' = 0
  /\ pc' = "next" /\ exit' = exit

Current == <<at, row + 1>>

(* Mutant: a writer of its own for each record, which forgets the error. *)
WriteOkFresh ==
  \/ ~csv /\ ~diskFull /\ out' = out \cup {Current} /\ buf' = buf
  \/ csv /\ out' = out /\ buf' = buf \cup {Current}
  \/ csv /\ ~diskFull /\ out' = out \cup buf \cup {Current} /\ buf' = {}

(* A write goes to the file (json.Encoder) or to a buffer (csv.Writer) that is
   written to the file when it is full.                                      *)
WriteOk ==
  /\ ~broken
  /\ \/ ~csv /\ ~diskFull /\ out' = out \cup {Current} /\ buf' = buf
     \/ csv /\ out' = out /\ buf' = buf \cup {Current}
     \/ csv /\ ~diskFull /\ out' = out \cup buf \cup {Current} /\ buf' = {}

Emit ==
  /\ pc = "emit"
  /\ row < Rows(at)
  /\ WriteOk
  /\ row' = row + 1
  /\ UNCHANGED <<setting, pc, left, at, failed, parsed, entries, broken,
                 diskFull, exit>>

(* Mutant: no failed write ends the run. *)
EmitFailsCounted ==
  /\ pc = "emit"
  /\ row < Rows(at)
  /\ broken \/ diskFull
  /\ broken' = TRUE
  /\ GiveUp
  /\ UNCHANGED <<setting, left, parsed, entries, out, buf, diskFull>>

EmitFails ==
  /\ pc = "emit"
  /\ row < Rows(at)
  /\ broken \/ diskFull
  /\ broken' = TRUE
  /\ IF tool.write = "fatal"
     THEN ExitWith(1) /\ UNCHANGED <<at, row, failed>>
     ELSE GiveUp
  /\ UNCHANGED <<setting, left, parsed, entries, out, buf, diskFull>>

ParserFails ==
  /\ pc = "emit"
  /\ FailsMidway(at)
  /\ GiveUp
  /\ UNCHANGED <<setting, left, parsed, entries, out, buf, broken, diskFull>>

EndInput ==
  /\ pc = "emit"
  /\ row = Rows(at) /\ ~FailsMidway(at)
  /\ parsed' = parsed \cup {at}
  /\ entries' = entries + row
  /\ at' = NoFile /\ row' = 0
  /\ pc' = "next"
  /\ UNCHANGED <<setting, left, failed, out, buf, broken, diskFull, exit>>

(* Mutant: nothing emitted is no reason to fail. *)
ExitCodeNoRecords ==
  IF dirMode /\ tool.noneFound /\ parsed = {} /\ failed = {} THEN 1
  ELSE IF failed # {} THEN 2 ELSE 0

(* The tests behind the loop, in the order main() makes them. *)
ExitCode ==
  IF dirMode /\ tool.noneFound /\ parsed = {} /\ failed = {} THEN 1
  ELSE IF tool.noRecords /\ entries = 0 /\ failed = {} THEN 1
  ELSE IF failed # {} THEN 2
  ELSE 0

(* Mutant: the result of the last flush is not looked at. *)
FinishUnchecked ==
  /\ pc = "next" /\ left = {}
  /\ \/ csv /\ (broken \/ diskFull) /\ out' = out
     \/ (~csv \/ ~(broken \/ diskFull)) /\ out' = out \cup buf
  /\ buf' = {}
  /\ ExitWith(ExitCode)
  /\ UNCHANGED <<setting, left, at, row, failed, parsed, entries, broken,
                 diskFull>>

(* The CSV writer is flushed and asked for its error; then the exit code.
   Without CSV there is nothing to flush.  An empty buffer flushes even to a
   full disk, but the header may still be in it.                             *)
Finish ==
  /\ pc = "next" /\ left = {}
  /\ \/ /\ csv /\ (broken \/ diskFull)
        /\ ExitWith(1)
        /\ UNCHANGED <<out, buf>>
     \/ /\ csv => ~broken /\ (~diskFull \/ buf = {})
        /\ ExitWith(ExitCode)
        /\ out' = out \cup buf /\ buf' = {}
  /\ UNCHANGED <<setting, left, at, row, failed, parsed, entries, broken,
                 diskFull>>

DiskChanges ==
  /\ pc # "done"
  /\ diskFull' = ~diskFull
  /\ UNCHANGED <<setting, pc, left, at, row, failed, parsed, entries, out, buf,
                 broken, exit>>

Program ==
  \/ Collect \/ OpenOut \/ PassOver \/ FailInput \/ BeginInput
  \/ Emit \/ EmitFails \/ ParserFails \/ EndInput \/ Finish

Next == Program \/ DiskChanges

Spec == Init /\ [][Next]_vars

-----------------------------------------------------------------------------
(* Properties *)

TypeOK ==
  /\ tool \in Trait /\ dirMode \in BOOLEAN /\ csv \in BOOLEAN
  /\ kind \in [File -> Kind] /\ rowsOf \in [File -> 0 .. MaxRows]
  /\ pc \in {"collect", "open", "next", "emit", "done"}
  /\ left \subseteq Collected
  /\ at \in Collected \cup {NoFile} /\ (pc = "emit" => at # NoFile)
  /\ row \in 0 .. MaxRows
  /\ failed \subseteq Collected /\ parsed \subseteq Collected
  /\ entries \in Nat
  /\ out \subseteq Record /\ buf \subseteq Record
  /\ broken \in BOOLEAN /\ diskFull \in BOOLEAN
  /\ exit \in {Running, 0, 1, 2}

(* The records a complete run owes: those of every collected input that
   parses.                                                                   *)
Wanted == {r \in Record : /\ r[1] \in Collected /\ kind[r[1]] = "good"
                          /\ r[2] <= rowsOf[r[1]]}

(* Exit code 0, "every file parsed", is only given when every record of every
   input that parses has reached the output file, and no input was given up.
   It ties the counters of the loop to the writers' deferred errors.         *)
ExitZeroMeansDelivered ==
  exit = 0 => /\ Wanted \subseteq out
              /\ \A i \in Collected : Fails(i) => MayPassOver(i)

(* The output never has a gap, whenever the run ends or is killed: before a
   record come all records of the same input, and all of the inputs before it
   that parse.  A freed disk does not let the writer go on behind a record it
   lost, whether failed writes are fatal or counted.                          *)
Before(q, r) == q[1] < r[1] \/ (q[1] = r[1] /\ q[2] < r[2])
NoGaps(records) ==
  \A r \in records, q \in Wanted : Before(q, r) => q \in records
OutputHasNoGaps == NoGaps(out)

(* The header comments on exit code 2: "at least one file failed to parse
   (failures listed on stderr, the rest still emitted)".                      *)
ExitTwoDeliversTheRest == exit = 2 => Wanted \subseteq out

(* ... as it is for the tools that end the run when a record cannot be written
   (gorb, gole, gojle, goprefetch and goappcompat).                          *)
FatalTwoDeliversTheRest == tool.write = "fatal" => ExitTwoDeliversTheRest

(* goamcache (comment at 393-395): a run that emitted nothing is not a silent
   success.                                                                  *)
EmptyIsNoSuccess == tool.noRecords /\ exit = 0 => out # {}
=============================================================================
