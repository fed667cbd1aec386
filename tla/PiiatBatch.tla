----------------------------- MODULE PiiatBatch -----------------------------
(***************************************************************************)
(* The batch orchestrator of the piiat-mem container                       *)
(* (piiat-mem/piiat_mem_batch.py).  An invocation walks the memory images  *)
(* under the evidence mount in sorted order.  For each image it computes   *)
(* which plugins still lack valid output, starts ONE piiat_mem process for *)
(* them, and afterwards judges each output file by its first line.  The    *)
(* output tree survives the invocation, so what an earlier, possibly       *)
(* killed, invocation left behind decides what the next one does.          *)
(*                                                                         *)
(* Images are the numbers 1..NumImages, in the order sorted() gives their  *)
(* paths.  A file's content is abstracted to what _valid_jsonl can and     *)
(* cannot tell apart.  piiat_mem itself is not part of this repository:    *)
(* PluginWrites and PiiatMemExits model it from the way the batch uses it. *)
(***************************************************************************)
EXTENDS Naturals, Sequences, FiniteSets

CONSTANTS
  PathOf,       \* PathOf[i]: the path of image i relative to PIIAT_MEMORY_DIR
  NumImages,    \* number of memory images that can ever be mounted
  PluginName,   \* the Volatility plugin names, which _PLUGIN_RE accepts
  Requests,     \* the values PIIAT_PLUGINS takes, split at the commas
  DefaultPlugins, \* DEFAULT_PLUGINS
  MaxRuns       \* bound: invocations of the container

Image == 1 .. NumImages
NoImage == 0

ASSUME NumImagesAssumption == NumImages \in Nat
ASSUME PathAssumption == PathOf \in [Image -> Seq(STRING)]

(* env_plugins: names that are no plugin id are dropped, repeated ones stay,
   and when none is left the default set is run.                            *)
EnvPlugins(request) ==
  LET IsPluginName(p) == p \in PluginName
      safe == SelectSeq(request, IsPluginName)
  IN  IF safe = << >> THEN DefaultPlugins ELSE safe

ASSUME RequestsAssumption ==
  \A request \in Requests : EnvPlugins(request) \in Seq(PluginName) \ {<< >>}

-----------------------------------------------------------------------------

(* Mutant: only the last component names the folder. *)
CleanNameBasename(path) == <<path[Len(path)]>>

(* clean_name: every "/" and " " of the relative path becomes "_". *)
CleanName(path) ==
  [i \in DOMAIN path |-> IF path[i] \in {"/", " "} THEN "_" ELSE path[i]]

Dest(img) == CleanName(PathOf[img])
Folder == {Dest(img) : img \in Image}

(* The contents of <dest>/plugins/<plugin>.jsonl the batch can meet:
   "absent", "junk" (empty, or a first line that is not JSON), "partial" (a
   first line that parses, the rest not all written) and "full".  The owner is
   the image the content was computed from; the batch never sees it.        *)
Data == {"absent", "junk", "partial", "full"}
Content == [data : Data, owner : Image \cup {NoImage}]
NoFile == [data |-> "absent", owner |-> NoImage]

(* _valid_jsonl: non-empty and the first line parses. *)
ValidJsonl(content) == content.data \in {"partial", "full"}

(* What the caller sees: no exit code yet, or the one of a killed container. *)
Running == 256
Killed == 137

VARIABLES
  \* The output tree, which outlives an invocation.
  file,       \* file[<<f, p>>]: <f>/plugins/<p>.jsonl
  legacy,     \* the <<f, p>> with valid output at the legacy path <f>/<p>.jsonl
  \* The invocation under way.
  pc,         \* where the orchestrator is
  force,      \* PIIAT_FORCE
  plugins,    \* PIIAT_PLUGINS, parsed
  found,      \* images discover() returned
  left,       \* images whose turn has not come
  cur,        \* the image whose turn it is
  todo,       \* positions of plugins to run for cur
  unjudged,   \* positions of todo not judged yet
  processed, skipped, failed,   \* the counters of the summary
  produced, empty,              \* the summary's results, as <<image, position>>
  exit,       \* exit code of the last invocation to end, or Running
  summary,    \* was the JSON summary printed?
  runs,       \* invocations so far
  \* History, which no action reads.
  wrote,      \* plugins whose file the piiat_mem process of cur has written
  stale,      \* <<image, position>> produced by a file left from an earlier run
  kept,       \* <<image, position>> skipped as already done
  invoked,    \* the images piiat_mem was started for
  allDone     \* did all of found have valid output when the walk began?

treeVars == <<file, legacy>>
counters == <<processed, skipped, failed, produced, empty, kept, stale>>
configVars == <<force, plugins, found, runs, allDone>>
vars == <<file, legacy, pc, force, plugins, found, left, cur, todo, unjudged,
          processed, skipped, failed, produced, empty, exit, summary, runs,
          wrote, stale, kept, invoked, allDone>>

Output == Folder \X PluginName
Position == DOMAIN plugins

(* _plugin_done: valid at the tool's path or at the legacy flat path. *)
PluginDone(img, p) ==
  \/ ValidJsonl(file[<<Dest(img), p>>])
  \/ <<Dest(img), p>> \in legacy

(* Mutants: legacy outputs are overlooked; one missing plugin reruns all. *)
TodoIgnoringLegacy(img) ==
  {i \in Position : force \/ ~ValidJsonl(file[<<Dest(img), plugins[i]>>])}
TodoWholeImage(img) ==
  IF force \/ \E i \in Position : ~PluginDone(img, plugins[i])
  THEN Position ELSE {}

(* The todo list of process(): what PIIAT_FORCE or missing output asks for. *)
Todo(img) == {i \in Position : force \/ ~PluginDone(img, plugins[i])}

-----------------------------------------------------------------------------

Init ==
  /\ file = [o \in Output |-> NoFile]
  /\ legacy \in SUBSET Output
  /\ pc = "idle"
  /\ force = FALSE
  /\ plugins = << >>
  /\ found = {} /\ left = {} /\ cur = NoImage
  /\ todo = {} /\ unjudged = {}
  /\ processed = 0 /\ skipped = 0 /\ failed = 0
  /\ produced = {} /\ empty = {}
  /\ exit = Running /\ summary = FALSE
  /\ runs = 0
  /\ wrote = {} /\ stale = {} /\ kept = {} /\ invoked = {} /\ allDone = FALSE

(* A container starts: main() reads the environment, process() starts a fresh
   summary.  Only one invocation uses the output tree at a time.            *)
Start ==
  /\ pc = "idle"
  /\ runs < MaxRuns
  /\ runs' = runs + 1
  /\ pc' = "check"
  /\ force' \in BOOLEAN
  /\ plugins' \in {EnvPlugins(request) : request \in Requests}
  /\ found' = {} /\ left' = {} /\ cur' = NoImage
  /\ todo' = {} /\ unjudged' = {}
  /\ processed' = 0 /\ skipped' = 0 /\ failed' = 0
  /\ produced' = {} /\ empty' = {} /\ kept' = {} /\ stale' = {}
  /\ exit' = Running /\ summary' = FALSE
  /\ wrote' = {} /\ invoked' = {} /\ allDone' = FALSE
  /\ UNCHANGED treeVars

(* The process ends with an exit code; with or without a summary on stdout. *)
ExitWith(code, printed) ==
  /\ pc' = "idle"
  /\ exit' = code
  /\ summary' = printed
  /\ UNCHANGED <<treeVars, configVars, counters, left, cur, todo, unjudged,
                 wrote, invoked>>

(* Memory dir missing, or the write probe fails: summary "error", rc 2. *)
ConfigError ==
  /\ pc = "check"
  /\ ExitWith(2, TRUE)

(* Checks passed; discover() lists the images now under the mount. *)
Discover ==
  /\ pc = "check"
  /\ \E S \in SUBSET Image : found' = S /\ left' = S
  /\ allDone' = \A img \in found', i \in Position : PluginDone(img, plugins[i])
  /\ pc' = "loop"
  /\ UNCHANGED <<treeVars, counters, force, plugins, runs, cur, todo, unjudged,
                 exit, summary, wrote, invoked>>

(* The head of the image loop: makedirs(dest), then the todo list. *)
BeginImage ==
  /\ pc = "loop"
  /\ \E img \in left :
       /\ \A other \in left : img <= other
       /\ cur' = img
       /\ left' = left \ {img}
       /\ todo' = Todo(img)
       /\ kept' = kept \cup ({img} \X (Position \ todo'))
       /\ skipped' = skipped + Cardinality(Position \ todo')
  /\ pc' = IF todo' = {} THEN "loop" ELSE "spawn"
  /\ unjudged' = todo'
  /\ wrote' = {}
  /\ UNCHANGED <<treeVars, configVars, processed, failed, produced, empty,
                 stale, exit, summary, invoked>>

(* run_piiat_mem: the log is opened and the process started. *)
Spawn ==
  /\ pc = "spawn"
  /\ pc' = "run"
  /\ invoked' = invoked \cup {cur}
  /\ UNCHANGED <<treeVars, configVars, counters, left, cur, todo, unjudged,
                 exit, summary, wrote>>

(* piiat_mem, which was given the plugins of todo, (re)writes one's file. *)
PluginWrites ==
  /\ pc = "run"
  /\ \E i \in todo, d \in Data \ {"absent"} :
       /\ file' = [file EXCEPT ![<<Dest(cur), plugins[i]>>] =
                                  [data |-> d, owner |-> cur]]
       /\ wrote' = wrote \cup {plugins[i]}
  /\ UNCHANGED <<legacy, configVars, counters, pc, left, cur, todo, unjudged,
                 exit, summary, invoked>>

(* piiat_mem ends, whatever its exit code (the batch does not gate on it). *)
PiiatMemExits ==
  /\ pc = "run"
  /\ pc' = "judge"
  /\ UNCHANGED <<treeVars, configVars, counters, left, cur, todo, unjudged,
                 exit, summary, wrote, invoked>>

(* Mutant: a plugin name asked for twice is judged once. *)
JudgeByName(i) ==
  /\ pc = "judge"
  /\ i \in unjudged /\ \A j \in unjudged : i <= j
  /\ unjudged' = {j \in unjudged : plugins[j] # plugins[i]}
  /\ pc' = IF unjudged' = {} THEN "loop" ELSE "judge"
  /\ UNCHANGED <<legacy, configVars, left, cur, todo, skipped, kept, exit,
                 summary, wrote, invoked>>

(* One round of the loop that judges the outputs of todo, in list order; the
   last round goes back to the image loop.                                  *)
Judge(i) ==
  /\ pc = "judge"
  /\ i \in unjudged /\ \A j \in unjudged : i <= j
  /\ unjudged' = unjudged \ {i}
  /\ pc' = IF unjudged' = {} THEN "loop" ELSE "judge"
  /\ UNCHANGED <<legacy, configVars, left, cur, todo, skipped, kept, exit,
                 summary, wrote, invoked>>

JudgeValid ==
  \E i \in unjudged :
    /\ ValidJsonl(file[<<Dest(cur), plugins[i]>>])
    /\ Judge(i)
    /\ processed' = processed + 1
    /\ produced' = produced \cup {<<cur, i>>}
    /\ stale' = IF plugins[i] \in wrote THEN stale ELSE stale \cup {<<cur, i>>}
    /\ UNCHANGED <<file, failed, empty>>

(* Mutants: the failed file stays; one failure clears the image's files. *)
JudgeEmptyKeeps ==
  \E i \in unjudged :
    /\ ~ValidJsonl(file[<<Dest(cur), plugins[i]>>])
    /\ Judge(i)
    /\ failed' = failed + 1
    /\ empty' = empty \cup {<<cur, i>>}
    /\ UNCHANGED <<file, processed, produced, stale>>
JudgeEmptyClears ==
  \E i \in unjudged :
    /\ ~ValidJsonl(file[<<Dest(cur), plugins[i]>>])
    /\ Judge(i)
    /\ file' = [o \in Output |-> IF o[1] = Dest(cur) THEN NoFile ELSE file[o]]
    /\ failed' = failed + 1
    /\ empty' = empty \cup {<<cur, i>>}
    /\ UNCHANGED <<processed, produced, stale>>

JudgeEmpty ==
  \E i \in unjudged :
    /\ ~ValidJsonl(file[<<Dest(cur), plugins[i]>>])
    /\ Judge(i)
    /\ file' = [file EXCEPT ![<<Dest(cur), plugins[i]>>] = NoFile]
    /\ failed' = failed + 1
    /\ empty' = empty \cup {<<cur, i>>}
    /\ UNCHANGED <<processed, produced, stale>>

(* Mutants: one failure is tolerated; what was already done is forgotten. *)
ExitCodeTolerant == IF failed > 1 /\ processed = 0 /\ skipped = 0 THEN 1 ELSE 0
ExitCodeForgetful == IF failed > 0 /\ processed = 0 THEN 1 ELSE 0

(* The exit code main() derives from the counters. *)
ExitCode ==
  IF failed > 0 /\ processed = 0 /\ skipped = 0 THEN 1 ELSE 0

(* Mutant: an empty mount is waited for. *)
ReportWaiting ==
  /\ pc = "loop"
  /\ left = {} /\ found # {}
  /\ ExitWith(ExitCode, TRUE)

Report ==
  /\ pc = "loop"
  /\ left = {}
  /\ ExitWith(ExitCode, TRUE)

(* makedirs(dest), opening the log, starting the process, the last line of the
   log once piiat_mem has ended, or os.remove raises OSError: nothing catches
   it, so Python prints a traceback and exits 1.                            *)
Uncaught ==
  /\ \/ pc = "loop" /\ left # {}
     \/ pc = "spawn"
     \/ pc = "judge" /\ unjudged = todo
     \/ /\ pc = "judge"
        /\ \E i \in unjudged :
             /\ \A j \in unjudged : i <= j
             /\ file[<<Dest(cur), plugins[i]>>].data = "junk"
  /\ ExitWith(1, FALSE)

(* The container is killed: orchestrator and piiat_mem stop together. *)
Kill ==
  /\ pc # "idle"
  /\ ExitWith(Killed, FALSE)

(* The steps the orchestrator takes by itself. *)
Program ==
  \/ ConfigError \/ Discover \/ BeginImage \/ Spawn
  \/ JudgeValid \/ JudgeEmpty \/ Report

Next == Start \/ Program \/ Uncaught \/ PluginWrites \/ PiiatMemExits \/ Kill

Spec == Init /\ [][Next]_vars

(* The orchestrator keeps running.  Nothing is assumed of what may go wrong, nor
   of piiat_mem, which is waited for without a timeout.                      *)
FairSpec == Spec /\ WF_vars(Program)

-----------------------------------------------------------------------------
(* Properties *)

TypeOK ==
  /\ file \in [Output -> Content]
  /\ legacy \subseteq Output
  /\ pc \in {"idle", "check", "loop", "spawn", "run", "judge"}
  /\ force \in BOOLEAN
  /\ plugins \in Seq(PluginName)
  /\ found \subseteq Image /\ left \subseteq found
  /\ cur \in found \cup {NoImage}
  /\ todo \subseteq Position /\ unjudged \subseteq todo
  /\ processed \in Nat /\ skipped \in Nat /\ failed \in Nat
  /\ produced \subseteq found \X Position
  /\ empty \subseteq found \X Position
  /\ kept \subseteq found \X Position
  /\ stale \subseteq produced
  /\ exit \in {Running, Killed, 0, 1, 2}
  /\ summary \in BOOLEAN
  /\ runs \in Nat
  /\ wrote \subseteq PluginName
  /\ invoked \subseteq found
  /\ allDone \in BOOLEAN

(* A run that got through its walk: its summary is not an "error". *)
Complete == pc = "idle" /\ summary /\ exit # 2

(* Output that counts as done is never lost or replaced, across kills, aborts
   and later invocations: the only step that touches a valid file is the
   piiat_mem process of its own folder, and that one either was asked to redo
   it (PIIAT_FORCE) or has itself created it.  It is about the todo list and
   the clean-up of failed outputs in process().                              *)
DoneStaysDone ==
  [][\A o \in Output :
       ValidJsonl(file[o]) /\ file'[o] # file[o]
         => /\ pc = "run"
            /\ o[1] = Dest(cur)
            /\ force \/ o[2] \in wrote]_vars

(* The batch implements the ledger of done outputs: without PIIAT_FORCE an
   invocation only adds to it.  A file piiat_mem is still writing is entered
   when that process ends, or dies with the container.                      *)
InFlight(o) == pc = "run" /\ o[1] = Dest(cur) /\ o[2] \in wrote
Done == {o \in Output : ValidJsonl(file[o]) /\ ~InFlight(o)}
Ledger == INSTANCE OutputLedger WITH done <- Done, forced <- force
LedgerSpec == Ledger!Spec

(* The three counters of the summary account for every requested plugin of
   every image found, once each.                                            *)
SummaryAddsUp ==
  Complete => processed + skipped + failed = Cardinality(found) * Len(plugins)

(* As long as no two images share an output folder, every verdict still holds
   when the run ends: what was counted as produced or skipped has valid
   output, and what was counted as failed has no file left.                 *)
FoldersDistinct == \A i, j \in Image : Dest(i) = Dest(j) => i = j
VerdictsHold ==
  FoldersDistinct =>
    /\ \A v \in produced \cup kept : PluginDone(v[1], plugins[v[2]])
    /\ \A v \in empty : file[<<Dest(v[1]), plugins[v[2]]>>] = NoFile

(* Exit code 1 with a summary is only given when nothing asked for has valid
   output afterwards, whether two images share a folder or not.             *)
ExitOneMeansNothing ==
  Complete /\ exit = 1 =>
    \A img \in found, i \in Position :
      /\ ~ValidJsonl(file[<<Dest(img), plugins[i]>>])
      /\ force \/ ~PluginDone(img, plugins[i])

(* Exit code 0 over a mount that has images means some requested output is
   there, as long as no two images share a folder.                          *)
ExitZeroMeansSomething ==
  FoldersDistinct /\ Complete /\ exit = 0 /\ found # {} =>
    \E img \in found, i \in Position : PluginDone(img, plugins[i])

(* A fully idempotent re-run starts no piiat_mem process and exits 0: once all
   output is done, whatever the runs that made it went through, an invocation
   without PIIAT_FORCE leaves the images alone.                              *)
IdempotentRerun ==
  allDone /\ ~force =>
    /\ invoked = {}
    /\ Complete => exit = 0 /\ processed = 0 /\ failed = 0

(* Every invocation ends, unless one piiat_mem process never does: the wait in
   run_piiat_mem, which has no timeout, is the only place where the walk over
   any images and plugins can stay for ever.                                 *)
RunEnds == pc = "check" ~> (pc = "idle" \/ [](pc = "run"))

(* The module docstring (lines 45-46): images keep distinct output.  Whatever
   is counted as skipped or produced for an image was computed from it.     *)
OutputOfItsImage ==
  \A v \in produced \cup kept :
    LET o == <<Dest(v[1]), plugins[v[2]]>> IN
    o \in legacy \/ file[o].owner = v[1]

(* The module docstring (lines 50-51): "processed" is the outputs newly
   produced.  Without PIIAT_FORCE no file of an earlier run is counted.      *)
ProcessedIsNew == ~force => stale = {}

(* The module docstring (lines 66-67): failed outputs are never counted as
   done.  What a run skips is output some piiat_mem process finished.       *)
SkippedIsFull ==
  \A v \in kept :
    LET o == <<Dest(v[1]), plugins[v[2]]>> IN
    o \in legacy \/ file[o].data = "full"
=============================================================================
