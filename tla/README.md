# EZTools-Docker in TLA+

EZTools-Docker packages Windows forensics parsers as hardened containers. Most
of what it runs is its own code: twelve Go parsers, a Python orchestrator for
memory images, a launcher and a build script. This directory specifies those
programs in TLA+. TLC checks the specifications on small instances; TLAPS proves
the central properties for every value of the constants.

    tlc -config PiiatBatch_safety.cfg MCPiiatBatch     # one run
    tlapm PiiatBatchProofs.tla                         # one module of proofs

Paths below are relative to the repository.

## 1. The system

### Components

| Component | Source | State it keeps | Operations |
|---|---|---|---|
| piiat-mem batch | `piiat-mem/piiat_mem_batch.py` | the output tree under `/out` (outlives the container); the summary of one invocation | walk the images, decide which plugins lack output, run one piiat_mem process per image, judge each output file, report, exit |
| gorb, gomft, gole, gojle, goprefetch, goevtx | `<tool>/main.go` | the output file, counters, the exit code; goevtx also an XML sidecar with a buffer | collect inputs, open the output, parse and emit one input after the other, flush, exit; gojle walks the DestList stream of a jump list and the LNK streams beside it |
| gore, gosbe, goamcache, goappcompat | `<tool>/main.go` | the same, plus open files, recovered copies in the work directory, `TMPDIR`, `os.Stdout` | the same; open a hive, replay its transaction logs, fall back, clean up; gore and gosbe walk keys and bags recursively |
| gowxt | `gowxt/main.go` | the same, plus copies of databases in the work directory | the same; copy a database with its sidecars, open the copy, clean up |
| goese | `goese/main.go` | an output tree of tables, two failure counters | find databases, name their directories, choose tables, dump each to a file |
| gore's default batch | `gore/batch/default.reb` | none (data) | |
| eztools-all launcher | `eztools-all/launcher/main.go` | a copy of the tool below `$TMPDIR`, which may outlive the launch | choose the tool, clear and fill the run directory, exec |
| build-all.sh | `build-all.sh` | docker images | choose and build images in order |
| container images | `*/Dockerfile`, `hardening/harden.yml` | none | declarative: read-only root, uid 2000, tmpfs |

### How they interact

The parsers do not talk to each other: a caller runs one container at a time
over an evidence mount. What couples the steps is state on disk and in the
process environment:

- One invocation of the batch reads the output tree that earlier ones left. The
  batch and piiat_mem, a pinned upstream tool, share the files
  `<dest>/plugins/<plugin>.jsonl`: piiat_mem writes them, the batch judges,
  removes and skips them. The batch ignores piiat_mem's exit code.
- The inputs of one parser run share one writer (its error is sticky, and
  `csv.Writer` reports it late), three counters and the exit code.
- The hives of one run share `TMPDIR`, `os.Stdout`, a size-limited tmpfs and the
  descriptor table with a library (`regparser.RecoverHive`).
- The databases of one gowxt run, and of successive runs over one work
  directory, share the names of their working copies.
- The databases of one goese run share a namespace of output directories.
- The events of a goevtx run go to two outputs that fail independently, one of
  them through a buffer that only a deferred call flushes.
- Launches that share a `$TMPDIR` share the run directory of a tool.
- The entries of a jump list share the namespace of its LNK streams.

### What is hard about it

Nothing here is multi-threaded. The hard behaviours are crash and restart
(a killed container leaves half of a step on disk), partial failure (one plugin,
file, table, hive, log or write of several fails), stale state (a file of an
earlier run taken for this run's), late errors (a buffered CSV writer, a deferred
flush), naming (two inputs whose names fold to one output) and untrusted numbers
(lengths, offsets, list positions and instants read from the evidence). `PROJECT.json` lists the
hazards, each at its line, with the properties that would catch it going wrong.

### What makes each component correct

- *Batch*: finished output is never lost or recomputed unless that is asked
  for; the summary's counters and verdicts agree with the tree; the exit code
  says what the docstring says; a re-run over finished output does nothing;
  output is computed from its own image; every invocation ends, unless the
  piiat_mem process it waits for never does.
- *Parsers*: exit code 0 only if everything owed was written; 2 only if the
  rest was; no gaps in the output; an empty run is told apart from a good one.
- *Registry tools*: nothing leaks from one hive to the next; records come from
  the recovered hive exactly when there is one; a fallback is noted.
- *gowxt*: rows come from the database's own whole copy; the work directory is
  left clean.
- *goese*: what was reported as dumped stays in the tree; every requested table
  is dumped or reported.
- *goevtx*: what is lost is counted; the sidecar holds a prefix of the JSONL
  stream, all of it after exit code 0; exit code 2 still delivers the rest.
- *gojle*: no slice leaves the stream, no entry is lost in silence, parsing ends,
  an entry's CreatedOn comes from its own LNK stream.
- *gore, gosbe*: each row owed is emitted once; paths are those of the keys and
  bags, joined from the names of their own items, positions those of MRUListEx.
- *launcher*: what runs from `$TMPDIR` is whole and of this image, and what
  launches of uid 2000 left there never makes one fail.
- *Instants*: what is shown is the instant that was stored, in whatever form, in
  the unit in which the tool prints it.

## 2. The modules

| Module | Models | Checked by | Proofs |
|---|---|---|---|
| `OutputLedger` | the batch's promise: a ledger of finished outputs | as a property of PiiatBatch | |
| `PiiatBatch` | the orchestrator and, as its environment, piiat_mem | `MCPiiatBatch` | `PiiatBatchProofs` |
| `ToolTraits`, `ToolRun` | one run of any of the eleven parsers | `MCToolRun` | `ToolRunProofs` |
| `HiveReplay` | how four tools open and release a hive and its logs | `MCHiveReplay` | `HiveReplayProofs` |
| `WxtWorkdir` | gowxt's working copies, over several runs | `MCWxtWorkdir` | `DirectoryProofs` |
| `GoeseDump` | a goese run that writes to a directory | `MCGoeseDump` | `GoeseDumpProofs` |
| `EvtxRun` | goevtx's two outputs | `MCEvtxRun` | `EvtxRunProofs` |
| `JumpList` | gojle's DestList parser and the search for LNK streams | `MCJumpList` | `EvidenceProofs` |
| `RegistryWalk` | gore's and gosbe's recursions over a hive | `MCRegistryWalk` | `RegistryWalkProofs` |
| `Launcher` | the entry point of the all-in-one image, over several launches | `MCLauncher` | `DirectoryProofs` |
| `Instants` | the conversions of points in time of gorb, gojle, gowxt, goevtx | `MCInstants` | `EvidenceProofs` |

A proof module that is about two modules extends both; that is why `Launcher` and
`Instants` name their `Init`, `Next` and type invariant after themselves.

`PROJECT.json` maps each definition to the lines it models. Definitions whose
comment begins with "Mutant" are plausible bugs: the definition they vary is
exchanged for them to show that a property notices.

### PiiatBatch

One action per step of `process()` and `main()`: `Start` (the environment is
read), `ConfigError`, `Discover`, `BeginImage` (makedirs and the todo list),
`Spawn`, `PluginWrites`/`PiiatMemExits` (the external tool), `JudgeValid`,
`JudgeEmpty`, `Report`. `Uncaught` is an `OSError` in a call nothing guards
(makedirs, opening the log, starting the process, the log's last line after
piiat_mem has ended, `os.remove`), which ends the program with a traceback and
code 1; it cannot happen while the batch waits for piiat_mem. `Kill` may happen anywhere; it stops the container, batch and piiat_mem
together. The output tree (`file`, `legacy`) survives `Start`; the rest is reset.

A file's content is "absent", "junk", "partial" or "full": `_valid_jsonl` tells
the first two from the last two and, looking at one line, cannot tell "partial"
from "full". Each content carries the image it was computed from, which the code
never sees. `wrote`, `stale`, `kept`, `invoked` and `allDone` are history.

`PluginWrites` may leave any content for any plugin it was given, any number of
times or never. It is assumed to write to no other path and never to remove a
file.

`OutputLedger` has two variables, the finished outputs and whether the
invocation is forced; only a forced invocation may strike an output out.
`PiiatBatch` implements it with `done <- Done`, where `Done` are the valid files
but those piiat_mem is writing at that moment: they enter the ledger when it
ends, or dies.

### ToolTraits and ToolRun

The `main()` functions of gorb, gomft, gole, gojle, goprefetch, goevtx, gore,
gosbe, goamcache, goappcompat and gowxt are one program with small differences.
`ToolTraits` has one record per tool with these differences; `ToolRun` is the
program: `Collect`, `OpenOut`, one of `PassOver`, `FailInput` or `BeginInput`
per input, then `Emit`, `EmitFails`, `ParserFails`, `EndInput`, and `Finish`
(flush, the writer's error, the exit code in the order of the tests). The
libraries that parse a format are abstracted to the kind a file has for the
tool: good, damaged, locked, foreign, without the tool's key, hidden in an
unreadable directory.

`DiskChanges` fills and frees the output's disk at any step. `json.Encoder`
writes at once, `csv.Writer` to a buffer that `Emit` may or may not pass on;
both keep their first error (`broken`), which is why a freed disk does not help.

### HiveReplay

`openHive` (gore, gosbe, goamcache) and `openHiveReader`/`recoverHive`
(goappcompat), step by step, with every error path: `OpenFiles`, `Redirect`,
`RecoverHive` (external; it succeeds or fails), `Restore`, `NewRegistry`,
`RegistryFails`, `Cleanup`. `open`, `copies`, `tmpdir` and `muted` are the
resources of the process; the four tools differ in who sets `TMPDIR`, whether
stdout is muted, and when and under which flags a fallback is noted. It is
assumed that `RecoverHive` leaves no file when it fails, and that a file this
process created can be removed.

### WxtWorkdir

`copyForWork`, `openActivitiesDB` and its cleanup, for the databases of a run in
path order and for runs one after the other over a work directory that persists.
`Kill` ends a run anywhere. A copy may fail to begin or break off; for the
database itself that means the immutable fallback, for a sidecar nothing.
`orphaned` is history: the base names under which a killed run left a copy, or a
part of one, until a copy of that name is closed and so removed.

### GoeseDump

The scan, `dbSubdir` with its counter, the table selection (`-t`, aliases,
system tables), `os.Create` and the rows of each table, both failure counters
and the exit code. Names are short sequences of characters, since the naming
rules (`safeName`, the "-n" suffix) are what decides whether files collide.
`NamesApart` is what the naming rules need to keep files apart and do not ensure
themselves: no database is called as another one of its kind with a number
behind it, and no two tables of a database fold to one name. Left out: `--list`
and output to stdout, which leave nothing behind; the "_" between kind and name
of a directory, which is always there; letter case, which the look-ups ignore.

### EvtxRun

`ToolRun` has goevtx's selection of inputs and exit codes; this module has what
becomes of the events. A log is the sequence of what `parseFile` meets: records,
and torn chunks and records that do not render, which are dropped and counted. A
record is the pair of its log and its place. The JSONL encoder writes at once and
keeps its first error (`jbroken`), which ends the log (`EmitFails`) and not the
run. The sidecar goes through a `bufio.Writer` whose errors nobody reads
(`xbroken`): `EmitXML` keeps the record in the buffer or passes on any beginning
of it, in part when the disk is full. `Finish` returns from `main` and so runs
the deferred `</Events>` and flush; `FinishFailed` is `os.Exit(2)`, which does
not. `DiskChanges` fills and frees either disk at any step, `Kill` ends the run.

### JumpList

One round of `parseDestList`'s loop per action, by how it ends: `ReadEntry`,
`LengthCut`, `PathCut`, `EndOfList`. The stream is bytes; the control depends on
its length, the two numbers of the header and the path length at an offset,
which are constants (`Length`, `Declared`, `Chars`), arbitrary in the theorems. `reach` is
the end of the furthest slice taken. `Written` lists the entries that were really
written into the stream: the code does not know them, `NoShortList` and
`WholeIsParsed` compare with them. `Enrich` looks for each entry's LNK stream
under the two names the code tries; a name is identified with the number its
digits spell in base 16.

### RegistryWalk

The recursions as a stack of frames, one per call under way, each with the tasks
it has left: for gore (`KeyTasks`) the values that match, the row for an empty
key, and the subkeys; for gosbe (`BagTasks`) the slots, each with the bag below.
`Descend` is the recursive call, `Return` its end, `EmitFails` a failed write,
which unwinds everything. Names are values with the number they spell
(`NumberOf`): "1" and "01" are one slot, of which the code's maps keep the last.
Shell items are abstracted to the name they decode to, or none. Hives are
arbitrary graphs of keys. What every sound hive is has names of its own:
`SiblingsApart` (under one key no two subkeys have one name; the registry looks
subkeys up by name) and `NoCycles` (no key is below itself). `EachRowOnce`,
`AbsolutePathHolds` and `PositionsAreTheLists` look a row's key up by the names of
its path, so they are proved from `SiblingsApart`, the first also from `NoCycles`.

### Launcher

`Choose` finds the tool and decides whether it runs from `$TMPDIR`; `Remove` and
`RemoveFails` are `os.RemoveAll`, file by file, which may fail on any directory,
be it empty; `CopyFile` and `CopyFails` are `os.CopyFS`, which opens with
`O_EXCL`; then `FindDLL`, which may not be able to read the directory, and `Exec`. `Restart` ends
or kills a launch at any point and starts the next, of any image, over the same
`$TMPDIR`. The first launch may meet a copy that the build left there: the
Dockerfile's smoke test runs the launcher, as root, without a tmpfs. `rooted` are
the run directories that are root's for that reason; uid 2000 can remove nothing
from them, so a launch of that tool ends at `RemoveFails`. `fault` is history: a
system call of this launch failed for a reason of its own (a disk, a directory
that cannot be read or removed, dotnet). `RemoveFails` on a directory of root's
does not count as one.

### Instants

The conversions as operators, applied by one action to every input, and what is
printed of their results: gorb whole seconds (`DeletedOn`: `time.RFC3339`), gojle
whole milliseconds (`DotnetDate`: `UnixMilli`), gowxt the seconds it has computed,
goevtx seconds and nanoseconds (`RFC3339Nano`); how a date is spelled is left out. Go's `/` and
`%` round towards zero, which matters before 1970 and 1601 (`Quot`, `Rem`);
differences wrap at 64 bits (`Wrap`). The units (ticks per second, milliseconds per second, the gap from
1601 to 1970, the boundary above which gowxt takes a number for a FILETIME) are
constants, so that TLC can enumerate everything with small ones and the theorems
hold for the code's. A float of goevtx is a number of fractions of a nanosecond
(`Fine`); what `float64` itself rounds is left out.

## 3. The runs

| Run | Instance | Shows |
|---|---|---|
| `piiat_safety` | two images of one basename in two directories, two plugins, two requests (with a repeated and an invalid name; with no valid name), two invocations, under fairness | counters, verdicts and exit codes agree with the tree; finished output stays and stays with its image; the refinement of OutputLedger; an invocation ends or waits for piiat_mem for ever |
| `tool_all` | all eleven tools, two files of every kind, up to two records each, any disk | exit codes 0 and 2, no gaps, no silent empty run |
| `goese_safety` | four databases: two of one name, two whose names fold to one; system, GUID and plain tables; no `-t`, two tables, one table twice | dumped tables stay; everything requested is accounted for |
| `wxt_safety` | three databases, two of one base name, all combinations of sidecars that matter, two runs | own whole copy, own sidecars and a clean work directory, but where a killed run left a copy |
| `hive_safety` | four tools, two hives, any logs | no leak between hives; the right file; gore's and gosbe's notes |
| `evtx_streams` | two logs of up to three items, two disks, any kill | losses are counted; the sidecar is a prefix, complete after exit code 0; the rest is emitted |
| `jump_list` | DestList streams of versions 1 to 4 with up to two entries, cut after every character or with slack behind, any declared number up to 3, junk lengths; under fairness | no overrun, no silent loss, whole streams parse, parsing ends |
| `registry_rows` | gore: batches of three keys, recursive, named, absent, unfit, one below another; gosbe: three levels of bags, names of one number, undecoded items, lists short, unterminated or repeating; any failing write | each row once; paths of the items' own names; positions |
| `launcher_restarts` | two tools of two images, every spelling and override, three launches, any kill or failure, with what a build may have left | whole and own copies; failures only for cause |
| `instants` | a second of 5 ms, 10 ticks and 20 ns, 1970 thirty seconds after 1601, all numbers on both sides of every boundary, all pairs for durations | what is printed is the unit the instant lies in; seconds and FILETIMEs read the same |
| `piiat_truncated`, `jle_created` | | disagreements between a comment and the code, see section 6 |

TLAPS proves the type invariant of every module (section 5); the runs check only
two of them again, those of `GoeseDump` and `Launcher`, which say more than the
types of variables (a queue holds tables of the database at hand; past the
choice there is a tool). `MCGoeseDump` and `MCRegistryWalk` assert as assumptions
that their instances satisfy `NamesApart`, `SiblingsApart` and `NoCycles`, the
hypotheses of theorems.

### Why these bounds are enough

- *Two images, two plugins, two invocations* (`NumImages`, `PluginName`,
  `MaxRuns`). Every interaction of the batch is between a pair: an image and
  another, a plugin and another of the same process, an
  invocation and what the one before left. A third invocation meets the same
  kinds of files as the second. Images that share a folder are covered by the
  theorems, which hold for any paths.
- *Two files, two records* (`NumFiles`, `MaxRows`). A gap needs a record lost and
  one written behind it, in one input or in two; an exit code depends on which
  counters are zero. `MaxRows` bounds the records of a file.
- *Three databases in gowxt*: one that owns sidecars, one of the same name
  without, one of another name.
- *Four databases in goese*: collisions of names are between pairs; the SRUM pair
  has equal names, the SUM pair folds. The directory numbers have one digit
  (`Digits`), so a tree has at most nine databases.
- *Two hives*: the second meets what the first left behind.
- *Two logs of three items* (`NumLogs`, `MaxItems`): a loss and a record on either
  side of it, in one log or across two.
- *Two entries*: an entry that is cut, and one before it that is not. The lengths
  are the real ones; paths have one to four characters.
- *Four keys, three levels* (`Key`): a bag below a bag, two of one number side by
  side, a batch key below another one.
- *Three launches* (`MaxLaunches`): one that leaves something, one that is killed
  while it clears it, and one that meets the rest.
- *Small units*: the conversions are piecewise linear, and the inputs reach both
  sides of every boundary; the theorems have no such bound.

The theorems have none of these bounds.

Deadlock is not checked: each program ends, and a TLC instance ends with it
(`MaxRuns`, `MaxLaunches`). For the batch and the DestList parser, a liveness property says that the end
is reached.

### Fairness

`FairSpec` of `PiiatBatch` assumes `WF(Program)` only: the orchestrator, a running
process, takes its next step when it has one. `Program` is the steps the code
takes: reading the environment's requests, the walk, the judgements, the report.
It holds neither `Uncaught`, since nobody can rely on a failing system call, nor
`PiiatMemExits`: `subprocess.run` is called without a timeout
(`piiat_mem_batch.py:238`), so a plugin that hangs hangs the batch, and nothing in
the repository ends it. Nothing is assumed about `PluginWrites`, `Kill` or `Start`
either. `RunEnds` says what is then left: an invocation ends, or from some point on
waits for one piiat_mem process for ever; no other step of it can hold it up, and
no round of its loops can be repeated without end. `FairSpec` of `JumpList` assumes that the one
program there keeps running. The other modules state safety only.

## 4. The properties

**PiiatBatch.** `DoneStaysDone`: the only step that touches a valid output is the
piiat_mem process of its folder, forced or rewriting its own file. `LedgerSpec`:
refinement of `OutputLedger`. `VerdictsHold`, `SummaryAddsUp`,
`ExitZeroMeansSomething`, `ExitOneMeansNothing`, `ProcessedIsNew` (without
`PIIAT_FORCE`) and `IdempotentRerun` relate the summary and the exit code to the
tree that is left. `OutputOfItsImage`: nothing is counted for an image that was
computed from another. `RunEnds`: the one thing an invocation can wait for without
end is piiat_mem.

**ToolRun.** `ExitZeroMeansDelivered`, `OutputHasNoGaps`, `EmptyIsNoSuccess`
(goamcache), `FatalTwoDeliversTheRest` (the tools that end on a failed write).

**HiveReplay.** `NothingCarriedOver`, `ParsesTheRightFile`, `GoreNotesFallback`.

**WxtWorkdir.** `ReadsItsOwn` and `CleansUp` hold after a kill too: what a killed
run left excuses a foreign sidecar, or a file that stays, only under that base
name, and only until a copy of that name is closed. **GoeseDump.** `DumpedStaysThere`,
`AllAccountedFor`.

**EvtxRun.** `SidecarIsPrefix` relates the two outputs whatever happens to
either; `LossIsReported`: exit code 0 means that what is missing is exactly what
was counted; `RestIsEmitted` (exit code 2), `SidecarComplete` (exit code 0).
`JsonHasNoGap` is proved only.

**JumpList.** `NoOverrun`, `NoShortList` and `WholeIsParsed` (what a parse that
succeeds has; what must succeed), `ParseEnds`, `CreatedIsOwn` (which the code
breaks, section 6). `OffGrows` is proved only.

**RegistryWalk.** `EachRowOnce` defines the rows owed along whole trails of keys,
without the walk, and compares. `AbsolutePathHolds` compares each path with the
parent's row and the name that the hive has for the item; `PositionsAreTheLists`
covers lists of any shape.

**Launcher.** `RunsWhatItCopied`; `FailsForCause`: nothing that launches of uid
2000 left makes one fail. What the build left as root does, and is excepted by
name.

**Instants.** `FiletimeIsFloored` (the printed second of gorb and millisecond of
gojle are those the FILETIME lies in), `EitherFormIsRead`, `DurationIsElapsed`,
`NanosInRange`.

## 5. The proofs

| Theorems | Properties | Assume |
|---|---|---|
| `TypeCorrect`, `DoneOutputSurvives`, `BatchImplementsLedger`, `RerunIsIdempotent`, `VerdictsAreTrue` | `TypeOK`, `DoneStaysDone`, `LedgerSpec`, `IdempotentRerun`, `VerdictsHold` | `NumImagesAssumption`, `RequestsAssumption` |
| `CountedIsNew`, `OutputIsKeptDistinct`, `SummaryIsComplete`, `OneMeansNothing`, `ZeroMeansSomething` | `ProcessedIsNew`, `OutputOfItsImage` (for images with folders of their own), `SummaryAddsUp`, `ExitOneMeansNothing`, `ExitZeroMeansSomething` | the same |
| `ToolTypeCorrect`, `ZeroMeansDelivered`, `NoGapsInOutput`, `TwoDeliversTheRest`, `NoSilentSuccess` | `TypeOK`, `ExitZeroMeansDelivered`, `OutputHasNoGaps`, `FatalTwoDeliversTheRest`, `EmptyIsNoSuccess` | `ToolsAssumption` (tools are any trait records, not only the eleven), `NumFilesAssumption`, `MaxRowsAssumption` |
| `ReplayTypeCorrect`, `HivesAreIsolated`, `RightFileParsed`, `FallbacksAreNoted` | `TypeOK`, `NothingCarriedOver`, `ParsesTheRightFile`, `GoreNotesFallback` | `ToolAssumption`, `HivesAssumption` |
| `WorkdirTypeCorrect`, `RowsAreItsOwn`, `WorkdirIsCleaned` | `TypeOK`, `ReadsItsOwn`, `CleansUp` | `DbAssumption` |
| `EvtxTypeCorrect`, `SidecarLacksOnlyATail`, `JsonStreamHasNoGap`, `TheRestIsEmitted`, `ZeroClosesSidecar`, `EveryLossIsCounted` | `TypeOK`, `SidecarIsPrefix`, `JsonHasNoGap`, `RestIsEmitted`, `SidecarComplete`, `LossIsReported` | `NumLogsAssumption`, `MaxItemsAssumption` |
| `JumpListTypeCorrect`, `ParserStaysInside`, `NoEntryIsLost`, `EveryRoundMovesOn` | `TypeOK`, `NoOverrun`, `NoShortList`, `OffGrows` | `StreamAssumption`, `WrittenAssumption` (the format) |
| `WholeListsAreParsed` | `WholeIsParsed` | the same |
| `WalkTypeCorrect` | `TypeOK` | `NameAssumption`, `HiveAssumption`, `RootsAssumption` |
| `PathsFollowTheBags`, `PositionsHold`, `EveryRowOnce` | `AbsolutePathHolds`, `PositionsAreTheLists`, `EachRowOnce` | the same, and `SiblingsApart`; the last also `NoCycles` and finitely many keys |
| `DumpTypeCorrect` | `TypeOK` | `DbsAssumption` |
| `DumpedOutputSurvives`, `NothingIsMissing` | `DumpedStaysThere`, `AllAccountedFor` | the same, and `NamesApart` |
| `LauncherTypeCorrect`, `CopyIsTheTool`, `LeftoversDoNoHarm` | `LauncherTypeOK`, `RunsWhatItCopied`, `FailsForCause` | `NameAssumption`, `FileAssumption`, `BoundAssumption` |
| `ShownTypeCorrect`, `FiletimesAreFloored`, `EitherFormReads`, `DurationsAreElapsed`, `EventTimesAreNearest` | `TypeOK`, `FiletimeIsFloored`, `EitherFormIsRead`, `DurationIsElapsed`, `NanosInRange` | `UnitAssumption`, `InputAssumption` |

The assumptions say what kind of value a constant is; TLC evaluates them in
every run. The arguments:

- *PiiatBatch.* `DoneStaysDone` is not inductive by itself: that
  `PluginWrites` only touches what was not done needs the fact that a plugin in
  `todo` without force either lacked valid output when `BeginImage` looked and
  still does, or was written by this process (`wrote`). The inductive invariant
  carries this from `BeginImage` through the run, and `NewInv` on to the
  judgement. The refinement maps every
  action to `Invoke`, `Enter`, `Strike` or a stutter; `PiiatMemExits` and `Kill`
  enter what the process wrote. `VerdictsHold` needs that an image whose turn is
  over shares no folder with the current one, which is its hypothesis.
  `CountInv` says where the counters stand at each point of the walk: the images
  behind it, times the length of the plugin list, less what is not judged yet.
  `NothingInv` is what makes exit code 1 truthful even for images that share a
  folder: as long as nothing was produced or skipped, valid output is only where
  the present process works, under a name whose verdict is still due.
- *ToolRun.* `OutputHasNoGaps` speaks of the file, but a flush moves the whole
  buffer into it, so the invariant asks the same of file and buffer together.
  For exit code 0 it adds two loop invariants: what the inputs behind us owe is
  in file or buffer unless a write failed (`OwedIsWritten`), and the bad ones
  among them were passed over or counted (`BadIsFailed`); `Stages` adds that a
  broken writer means a failed input or exit 1.
- *HiveReplay.* `NothingCarriedOver` holds between hives only because of what
  holds inside `openHive`; `Held` lists, for each place of the program, exactly
  which files are open and which copy exists.
- *WxtWorkdir.* `CleansUp` is about moments when no copy is open. `OthersAreDebris`
  says of every other moment that a file in the work directory is part of the
  copy at hand, the rest of one that broke off, or under an orphaned name.
- *EvtxRun.* `SidecarFollows` ties the sidecar's file and buffer, together, to the
  JSONL stream as long as no flush has failed; the prefix property alone says
  nothing about the buffer. `JsonIsMet` and `LogsAreWhole` say what of the
  evidence lies behind the program, `LossInv` that the counters are the
  cardinality of what was dropped there.
- *JumpList.* `NoOverrun` rests on the loop's conditions alone. For `NoShortList`,
  `Placed` says that the next entry is looked for where the format has put it:
  by induction over the rounds, the program's `NextOff` is the format's
  `EntryEnd`. `WholeListsAreParsed` adds `OnTrack`: as long as entries are left,
  the one due fits into a whole stream, so neither cut can happen. The prover has
  no induction over data; where a fact about all positions of a sequence is needed
  here and below, the proof takes the least position where it fails (`LeastNat`,
  from the well-foundedness of the naturals) and looks at the one before it.
- *RegistryWalk.* That a row continues the path of the row it hangs on is a fact
  about rows emitted long before; `RInv` keeps it for every call on the stack
  (`CallOK`): the item's row comes before the descent into its bag. `TrailInv`
  puts every call and every row at a key which a trail from its root leads to, by
  the names of its path; `SiblingsApart` makes that trail the only one
  (`TrailsAgree`), so the key that `PositionsAreTheLists` and `AbsolutePathHolds` look
  up by names (`KeyOfTrail`) is the one whose values and MRUListEx the program
  read. `PathInv` says of every row that its path is that of the row it hangs on
  and the name of the item its trail leads to. For `EveryRowOnce`, a task *covers* its own
  row, or, if it is a descent, all places below the key it descends to. `OnceInv`:
  a place owed by the roots so far was emitted or is covered; what is covered was
  not emitted and is covered by one task of one call only; no place was emitted
  twice. A descent hands over what its task covered to the tasks of the new call
  (`FirstTasksCover`, `ChildCovers`), which share it out (`TasksApart`). At the end
  no task is left. `NoCycles` is needed only because `Owed` speaks of trails no
  longer than there are keys (`ShortTrails`).
- *GoeseDump.* `FileInv`: where a file lies tells which database and table it
  belongs to. That is what `NamesApart` and the counters `used` are for (`SubInv`:
  no two databases of a run are given one directory); then os.Create truncates
  only the table's own file. `TurnInv` says which databases and tables are behind
  the program, `ReportInv` and `CountInv` that each of them was dumped or reported
  and that the counters are zero only if nothing was.
- *Launcher.* In the middle of a copy, what the run directory holds is exactly
  what is no longer in `uncopied`; it was empty before the copy began, whatever
  was there before, which is why leftovers that can be removed neither survive nor
  make `os.CopyFS` fail.
- *Instants.* Go's rounding towards zero is described by two lemmas on `Quot` and
  `Rem`; each conversion then is linear arithmetic. `Floored` divides out the
  nanoseconds of a tick: a FILETIME that is u units and a rest in nanoseconds lies
  in unit u in ticks as well.

Only model-checked: `RunEnds` and `ParseEnds`, since liveness is beyond the prover.
Every safety property the passing runs check is stated by a theorem;
`OutputOfItsImage`, `VerdictsHold` and `ExitZeroMeansSomething` for images that
share no folder, and those above under the hypotheses named there.

## 6. Where comments and code disagree

Two runs end in a counterexample to what a comment says:

- `piiat_truncated`: a file cut short by a kill has a first line that parses and
  is skipped by every later run ("Empty/failed outputs are removed, never counted
  as done").
- `jle_created`: gojle looks for an entry's LNK stream under the entry's number in
  decimal before the one in hexadecimal (`gojle/main.go:250-252`). Entry 10 takes
  the stream "10", which is entry 16's, for its own "a".

Seen while modelling, and part of the models, without a run of their own:

- `clean_name` folds `/` and blank to `_`, so `a/x` and `a_x` share a folder, and
  the second image is skipped on the first one's output
  (`piiat_mem_batch.py:167`; docstring: "keep distinct output").
- Under `PIIAT_FORCE` a plugin that writes nothing is counted as "newly
  produced" on the file of an earlier run (`piiat_mem_batch.py:307`).
- An uncaught `OSError` exits 1, the code documented for "produced nothing",
  whatever was produced (`piiat_mem_batch.py:291`).
- Six tools count a failed write as a failed input; the writer's error is sticky,
  and the run exits 2 without the rest (headers: "the rest still emitted").
- Under `-d` a file that cannot be opened fails the header test and is passed
  over in silence, and the run can exit 0, "every $MFT parsed"
  (`gomft/main.go:291` and the other header-gated tools).
- gorb exits 1 after a scan that found nothing, which its comment calls "not an
  error on its own" (`gorb/main.go:288-292`).
- gojle drops CustomDestinations files below `-d` without the note its header
  promises (`gojle/main.go:293`). A version 1 stream whose last path has fewer
  than three characters ends before the 120 bytes the loop asks for, and a header
  that declares no entries is not compared with what was found.
- goevtx's exit code 2 is `os.Exit`, which skips the deferred flush: the sidecar
  lacks its buffered end and `</Events>` (`goevtx/main.go:395`).
- goevtx under `-q` exits 0 after a lossy run without a word: the counts of dropped
  chunks and records are printed with the progress (`goevtx/main.go:378`, `:386`),
  while the comment on `parseFile` says that a lossy parse "is reported rather
  than passing silently as a clean run" (`goevtx/main.go:185-188`). `LossIsReported`
  is about runs without `-q`.
- goese `-d -t X` exits 0 when no database has a table X (`goese/main.go:442`).
  The "-2" for a second database `Current` is the directory of one called
  `Current-2`, whose dump truncates the other's (`goese/main.go:360`; comment on
  `dbSubdir`: "de-duplicated when an image holds several"). The hypothesis
  `NamesApart` rules that out, and cannot be dropped.
- gowxt ignores a failed copy of a `-wal` and notes nothing (`gowxt/main.go:244`);
  after a killed run, a database may be copied beside another one's sidecars, if
  it has the base name of the copy that was left and no such sidecar of its own.
- goamcache and goappcompat fall back to the committed hive in silence under `-q`;
  under `-d` they take a `.LOG` file that begins with `regf` for a hive.
- gore, gosbe and goamcache replay logs without muting stdout, where their
  records may go; goappcompat mutes it for that reason (`gore/main.go:447`).
- The all-in-one image's smoke test, run as root without a tmpfs, leaves a run
  directory in the image, which uid 2000 cannot clear when a container is started
  without a tmpfs on `/tmp`.

## 7. What is not modelled

- The libraries behind the parsers (go-ntfs, golnk, mscfb, regparser, SQLite,
  go-ese, evtx), Volatility and piiat_mem: not in the repository; they are the
  nondeterministic environment of the models. A panic inside a parser is assumed
  not to happen.
- Conversions of fields into records that keep no state: gorb's record layout, the
  decoders of goamcache and goappcompat (with the choice of the current control
  set), shell items, gowxt's payloads, the mapping of parsed structures to JSON.
- goese's enrichment of rows from `SruDbIdMapTable`, `--list`, output to stdout;
  two tables of one database whose names fold to one.
- `PIIAT` pass-through mode, usage errors, progress output.
- Two containers over one output directory, or two launches over one `/tmp`, at
  the same time.
- A gowxt work directory that is the input's own directory; `os.Remove` that fails.
- `build-all.sh`, a straight-line script without state, and gore's default batch,
  which is data.
- Dockerfiles and `harden.yml`: declarative; the read-only root, the writable tmpfs
  and the uid they provide are assumptions here.

## 8. Plan

Written so far, in this order because the batch holds the only state that
outlives a container: OutputLedger, PiiatBatch, ToolRun, HiveReplay, WxtWorkdir,
GoeseDump, EvtxRun, JumpList, RegistryWalk, Launcher, Instants, and the proofs
above. What is left:

1. `RecycleRecord` (`gorb/main.go:54-150`): the two layouts of a $I file against a
   reference definition, cut at every offset, in the manner of `JumpList`.
2. goese's enrichment (`SruDbIdMapTable`) and its stream to stdout.
3. Overlapping batches over one output tree.
