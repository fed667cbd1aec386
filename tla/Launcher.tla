------------------------------ MODULE Launcher ------------------------------
(***************************************************************************)
(* The entry point of the all-in-one image (eztools-all/launcher/main.go): *)
(* it finds the tool its first argument names, copies the tool's directory *)
(* to $TMPDIR when the tool cannot run from the read-only root, and        *)
(* replaces itself by dotnet.                                              *)
(*                                                                         *)
(* A directory is what it holds per file name: of which image the content  *)
(* is, and whether all of it is there.  $TMPDIR may come from an earlier   *)
(* launch, of this image or another, that ended or was killed anywhere; it *)
(* may also be the image's own, where the smoke tests of the Dockerfile,   *)
(* run as root, left a copy that uid 2000 cannot remove (`rooted').        *)
(***************************************************************************)
EXTENDS Naturals

CONSTANTS
  Image,      \* images that use one $TMPDIR
  Tool,       \* names of the directories under /opt/eztools
  Asked,      \* first arguments, "" when there is none
  ToLower,    \* ToLower[n]: the name in lower case
  File,       \* names of files in a tool's directory
  Files,      \* Files[<<i, t>>]: the files that image i has for tool t
  Dll,        \* Dll[t]: the file that findDLL is to find for t
  MaxLaunches \* bound on launches

runFromTmpDefault == {"wxtcmd"}
Verbs == {"list", "--help", "-h"}
Override == {"unset", "on", "off"}      \* EZTOOL_RUN_FROM_TMP
Nobody == "nobody"
Absent == [of |-> Nobody, whole |-> FALSE]
FileContent == [of : Image, whole : BOOLEAN]
NoTool == "no tool"

ASSUME NameAssumption ==
  /\ ToLower \in [Tool \cup Asked -> STRING]
  /\ \A s, t \in Tool : ToLower[s] = ToLower[t] => s = t
  /\ NoTool \notin Tool /\ Nobody \notin Image
ASSUME FileAssumption ==
  /\ Files \in [Image \X Tool -> SUBSET File]
  /\ Dll \in [Tool -> File]
ASSUME BoundAssumption == MaxLaunches \in Nat \ {0}

VARIABLES
  image, asked, override,   \* what is launched, with which argument and setting
  tool,                     \* the tool chosen
  copied,                   \* whether it runs from the copy
  dst,                      \* dst[n]: $TMPDIR/eztool-n
  rooted,                   \* the n whose directory is root's
  uncopied,                 \* files still to be copied
  fault,                    \* an operation of this launch has failed
  stage, code, launches

chosen == <<image, asked, override, tool, copied>>
launcherVars == <<chosen, dst, rooted, uncopied, fault, stage, code, launches>>

RunDir == ToLower[tool]
FilesOf == Files[<<image, tool>>]
Holds(d) == {f \in File : d[f] # Absent}
Whole == [of |-> image, whole |-> TRUE]

ExitWith(n) == stage' = "over" /\ code' = n

LauncherInit ==
  /\ image \in Image /\ asked \in Asked /\ override \in Override
  /\ tool = NoTool /\ copied = FALSE /\ uncopied = {} /\ fault = FALSE
  /\ stage = "start" /\ code = 0
  /\ launches = 1
  /\ rooted \in {{}, {ToLower[t] : t \in Tool} \cap runFromTmpDefault}
  /\ dst = [n \in {ToLower[t] : t \in Tool} |-> [f \in File |->
              IF n \in rooted /\ \E t \in Tool : ToLower[t] = n /\ f \in Files[<<image, t>>]
              THEN Whole ELSE Absent]]

Usage ==
  /\ stage = "start"
  /\ \/ asked = "" /\ ExitWith(64)
     \/ asked \in Verbs /\ ExitWith(0)
  /\ UNCHANGED <<chosen, dst, rooted, uncopied, fault, launches>>

(* Mutant: the unknown tool is reported, and the launch goes on. *)
UnknownToolFallsThrough ==
  /\ stage = "start" /\ asked \notin Verbs \cup {""}
  /\ \A t \in Tool : ToLower[t] # ToLower[asked]
  /\ stage' = "find"
  /\ UNCHANGED <<chosen, dst, rooted, uncopied, fault, code, launches>>

(* No such tool; an unreadable root lists none. *)
UnknownTool ==
  /\ stage = "start" /\ asked \notin Verbs \cup {""}
  /\ \/ (\A t \in Tool : ToLower[t] # ToLower[asked]) /\ fault' = fault
     \/ fault' = TRUE
  /\ ExitWith(64)
  /\ UNCHANGED <<chosen, dst, rooted, uncopied, launches>>

FromTmp(t) == override = "on" \/ (override = "unset" /\ ToLower[t] \in runFromTmpDefault)

Choose ==
  /\ stage = "start" /\ asked \notin Verbs \cup {""}
  /\ \E t \in Tool :
       /\ ToLower[t] = ToLower[asked]
       /\ tool' = t
       /\ copied' = FromTmp(t)
       /\ stage' = IF FromTmp(t) THEN "clear" ELSE "find"
  /\ UNCHANGED <<image, asked, override, dst, rooted, uncopied, fault, code, launches>>

(* os.RemoveAll: a file at a time, in no order that matters. *)
Remove ==
  /\ stage = "clear" /\ RunDir \notin rooted
  /\ \E f \in Holds(dst[RunDir]) : dst' = [dst EXCEPT ![RunDir][f] = Absent]
  /\ UNCHANGED <<chosen, rooted, uncopied, fault, stage, code, launches>>

(* It fails on root's directory, and may fail on any, be it empty. *)
RemoveFails ==
  /\ stage = "clear"
  /\ fault' = (RunDir \notin rooted)
  /\ ExitWith(1)
  /\ UNCHANGED <<chosen, dst, rooted, uncopied, launches>>

(* Mutant: a directory that is there already is left as it is. *)
ClearedUnlessThere ==
  /\ stage = "clear" /\ RunDir \notin rooted
  /\ uncopied' = FilesOf /\ stage' = "copy"
  /\ UNCHANGED <<chosen, dst, rooted, fault, code, launches>>

Cleared ==
  /\ stage = "clear" /\ RunDir \notin rooted /\ Holds(dst[RunDir]) = {}
  /\ uncopied' = FilesOf /\ stage' = "copy"
  /\ UNCHANGED <<chosen, dst, rooted, fault, code, launches>>

(* os.CopyFS, which refuses to write over a file. *)
CopyFile ==
  /\ stage = "copy"
  /\ \E f \in uncopied :
       IF dst[RunDir][f] = Absent
       THEN /\ dst' = [dst EXCEPT ![RunDir][f] = Whole]
            /\ uncopied' = uncopied \ {f}
            /\ UNCHANGED <<stage, code>>
       ELSE ExitWith(1) /\ UNCHANGED <<dst, uncopied>>
  /\ UNCHANGED <<chosen, rooted, fault, launches>>

(* Mutant: a file that cannot be copied in full is passed over. *)
CopyFailsSilently ==
  /\ stage = "copy"
  /\ \E f \in uncopied, some \in BOOLEAN :
       /\ dst' = [dst EXCEPT ![RunDir][f] =
                    IF some THEN [of |-> image, whole |-> FALSE] ELSE @]
       /\ uncopied' = uncopied \ {f}
  /\ fault' = TRUE
  /\ UNCHANGED <<chosen, rooted, stage, code, launches>>

(* The tmpfs is full, or not writable at all. *)
CopyFails ==
  /\ stage = "copy"
  /\ \E f \in uncopied, some \in BOOLEAN :
       dst' = [dst EXCEPT ![RunDir][f] =
                 IF some THEN [of |-> image, whole |-> FALSE] ELSE @]
  /\ fault' = TRUE /\ ExitWith(1)
  /\ UNCHANGED <<chosen, rooted, uncopied, launches>>

Copied ==
  /\ stage = "copy" /\ uncopied = {}
  /\ stage' = "find"
  /\ UNCHANGED <<chosen, dst, rooted, uncopied, fault, code, launches>>

(* findDLL; a directory that cannot be read has none. *)
Found == Dll[tool] \in IF copied THEN Holds(dst[RunDir]) ELSE FilesOf

FindDLL ==
  /\ stage = "find"
  /\ \/ /\ IF Found THEN stage' = "exec" /\ code' = code ELSE ExitWith(1)
        /\ fault' = fault
     \/ fault' = TRUE /\ ExitWith(1)
  /\ UNCHANGED <<chosen, dst, rooted, uncopied, launches>>

Exec ==
  /\ stage = "exec"
  /\ \/ stage' = "running" /\ UNCHANGED <<fault, code>>
     \/ fault' = TRUE /\ ExitWith(1)
  /\ UNCHANGED <<chosen, dst, rooted, uncopied, launches>>

(* The tool unpacks files of its own beside the copy of its DLL. *)
Unpack ==
  /\ stage = "running" /\ copied
  /\ \E f \in File \ FilesOf, whole \in BOOLEAN :
       dst' = [dst EXCEPT ![RunDir][f] = [of |-> image, whole |-> whole]]
  /\ UNCHANGED <<chosen, rooted, uncopied, fault, stage, code, launches>>

(* The container has ended, or is killed at any point; another one is started
   over the same $TMPDIR.                                                    *)
Restart ==
  /\ launches < MaxLaunches
  /\ launches' = launches + 1
  /\ image' \in Image /\ asked' \in Asked /\ override' \in Override
  /\ tool' = NoTool /\ copied' = FALSE /\ uncopied' = {} /\ fault' = FALSE
  /\ stage' = "start" /\ code' = 0
  /\ UNCHANGED <<dst, rooted>>

LauncherNext ==
  \/ Usage \/ UnknownTool \/ Choose \/ Remove \/ RemoveFails \/ Cleared \/ CopyFile
  \/ CopyFails \/ Copied \/ FindDLL \/ Exec \/ Unpack \/ Restart

LauncherSpec == LauncherInit /\ [][LauncherNext]_launcherVars

-----------------------------------------------------------------------------
(* Properties *)

LauncherTypeOK ==
  /\ image \in Image /\ asked \in Asked /\ override \in Override
  /\ tool \in Tool \cup {NoTool} /\ copied \in BOOLEAN
  /\ dst \in [{ToLower[t] : t \in Tool} -> [File -> FileContent \cup {Absent}]]
  /\ rooted \subseteq {ToLower[t] : t \in Tool}
  /\ uncopied \subseteq File /\ fault \in BOOLEAN
  /\ stage \in {"start", "clear", "copy", "find", "exec", "running", "over"}
  /\ code \in {0, 1, 64} /\ launches \in 1 .. MaxLaunches
  /\ stage = "copy" => uncopied \subseteq FilesOf
  /\ stage \notin {"start", "over"} => tool \in Tool

(* What is executed from $TMPDIR is the tool that was asked for, every file of
   this image's and nothing else, whatever earlier launches left there.      *)
RunsWhatItCopied ==
  stage = "exec" /\ copied =>
    /\ ToLower[tool] = ToLower[asked]
    /\ \A f \in File : dst[RunDir][f] = IF f \in FilesOf THEN Whole ELSE Absent

(* What launches of uid 2000 have left never makes one fail, wherever they were
   killed: when none of its own system calls failed on a disk, a directory or
   dotnet, exit code 1 means that the image has no DLL for the tool, or that
   the run directory to be cleared is root's, from the build.                *)
FailsForCause ==
  stage = "over" /\ code = 1 =>
    fault \/ Dll[tool] \notin FilesOf \/ (copied /\ RunDir \in rooted)

=============================================================================
