--------------------------- MODULE ToolRunProofs ---------------------------
(***************************************************************************)
(* Proofs about ToolRun, for every set of tools, any number of files and   *)
(* any number of records in them.  TLC checks the same properties on small *)
(* instances.                                                              *)
(***************************************************************************)
EXTENDS ToolRun, TLAPS

(* What the run's control guarantees at its stages. *)
Stages ==
  /\ pc # "done" <=> exit = Running
  /\ pc \in {"collect", "open"} => out = {} /\ buf = {} /\ ~broken /\ failed = {}
  /\ pc = "open" => left = Collected
  /\ pc \in {"collect", "open", "next"} => row = 0
  /\ pc = "emit" => /\ at \notin left /\ \A j \in left : at < j
                    /\ Fails(at) => FailsMidway(at)
  /\ ~csv => buf = {}
  /\ broken => failed # {} \/ exit = 1
  /\ broken /\ tool.write = "fatal" => exit = 1
  /\ tool \in Tools

(* An input whose turn has come is accounted for: what it owes was written,
   unless a write failed, or it is among the failed ones.                    *)
Looping == pc \in {"next", "emit"}
Came(i) == i \in Collected /\ i \notin left
OwedIsWritten ==
  Looping /\ ~broken =>
    \A q \in Wanted : Came(q[1]) =>
      q \in out \cup buf \/ (pc = "emit" /\ q[1] = at /\ q[2] > row)
BadIsFailed ==
  Looping =>
    \A i \in Collected : Came(i) /\ Fails(i) =>
      MayPassOver(i) \/ i \in failed \/ (pc = "emit" /\ i = at)

(* The inductive invariant: what is behind the writer's buffer has no gap
   either, and the loop invariants above.                                    *)
IInv ==
  /\ TypeOK
  /\ Stages
  /\ OwedIsWritten
  /\ BadIsFailed
  /\ OutputHasNoGaps
  /\ NoGaps(out \cup buf)
  /\ ExitZeroMeansDelivered
  /\ FatalTwoDeliversTheRest

(* Every collected input is a file. *)
LEMMA CollectedAreFiles == Collected \subseteq File
  BY NumFilesAssumption DEF Collected, File

(* The records an input holds are within the bound. *)
LEMMA RowsType ==
  ASSUME TypeOK, NEW i \in File
  PROVE  Rows(i) \in 0 .. MaxRows
  BY MaxRowsAssumption DEF TypeOK, Rows

LEMMA InitIInv == Init => IInv
<1> SUFFICES ASSUME Init PROVE IInv
  OBVIOUS
<1>1. TypeOK
  <2>1. tool \in Trait
    BY ToolsAssumption DEF Init
  <2>2. csv \in BOOLEAN
    BY DEF Init
  <2>3. /\ dirMode \in BOOLEAN
        /\ kind \in [File -> Kind] /\ rowsOf \in [File -> 0 .. MaxRows]
    BY DEF Init
  <2>4. /\ pc = "collect" /\ left = {} /\ at = NoFile /\ row = 0
        /\ failed = {} /\ parsed = {} /\ entries = 0
        /\ out = {} /\ buf = {} /\ exit = Running
    BY DEF Init
  <2>5. broken \in BOOLEAN /\ diskFull \in BOOLEAN
    BY DEF Init
  <2>6. row \in 0 .. MaxRows /\ entries \in Nat
    BY <2>4, MaxRowsAssumption
  <2> QED
    BY <2>1, <2>2, <2>3, <2>4, <2>5, <2>6 DEF TypeOK
<1>2. Stages
  BY DEF Init, Stages, Running
<1> QED
  BY <1>1, <1>2 DEF Init, IInv, OwedIsWritten, BadIsFailed, Looping,
     OutputHasNoGaps, NoGaps, ExitZeroMeansDelivered, FatalTwoDeliversTheRest,
     ExitTwoDeliversTheRest, Running

(* A step leaves the settings of the run alone. *)
LEMMA SettingStays ==
  ASSUME [Next]_vars
  PROVE  /\ setting' = setting
         /\ Collected' = Collected
         /\ Wanted' = Wanted
         /\ \A i : Fails(i)' = Fails(i) /\ MayPassOver(i)' = MayPassOver(i)
                   /\ FailsMidway(i)' = FailsMidway(i)
<1>1. setting' = setting
  BY DEF Next, Program, vars, setting, Collect, OpenOut, PassOver, FailInput,
     BeginInput, Turn, Emit, EmitFails, ParserFails, EndInput, Finish,
     DiskChanges
<1>2. Collected' = Collected
  BY <1>1 DEF setting, Collected
<1> QED
  BY <1>1, <1>2 DEF setting, Wanted, Fails, MayPassOver, PassesOver, FailsMidway,
     LooksRight

(* What a turn does to the loop. *)
LEMMA TurnType ==
  ASSUME TypeOK, NEW i \in left, Turn(i)
  PROVE  /\ i \in Collected
         /\ left' \subseteq Collected /\ i \notin left'
         /\ \A j \in left' : i < j
<1>1. left \subseteq File
  BY CollectedAreFiles DEF TypeOK
<1> QED
  BY <1>1 DEF TypeOK, Turn, File

LEMMA NextType ==
  ASSUME IInv, [Next]_vars
  PROVE  TypeOK'
<1> USE SettingStays DEF IInv
<1> SUFFICES ASSUME Next PROVE TypeOK'
  BY DEF vars, TypeOK, setting
<1>0. /\ tool' \in Trait /\ dirMode' \in BOOLEAN /\ csv' \in BOOLEAN
      /\ kind' \in [File -> Kind] /\ rowsOf' \in [File -> 0 .. MaxRows]
  BY DEF TypeOK, setting
<1>1. CASE Collect
  BY <1>0, <1>1 DEF Collect, TypeOK, ExitWith
<1>2. CASE OpenOut
  BY <1>0, <1>2 DEF OpenOut, TypeOK, ExitWith
<1>3. CASE PassOver
  <2>1. PICK i \in left : PassOver!(i)
    BY <1>3 DEF PassOver
  <2> QED
    BY <1>0, <2>1, TurnType DEF Turn, TypeOK
<1>4. CASE FailInput
  <2>1. PICK i \in left : FailInput!(i)
    BY <1>4 DEF FailInput
  <2>2. i \in File
    BY CollectedAreFiles DEF TypeOK
  <2> QED
    BY <1>0, <2>1, <2>2, TurnType DEF Turn, TypeOK
<1>5. CASE BeginInput
  <2>1. PICK i \in left : BeginInput!(i)
    BY <1>5 DEF BeginInput
  <2>2. i \in Collected /\ i # NoFile
    BY <2>1, CollectedAreFiles DEF TypeOK, NoFile, File
  <2> QED
    BY <1>0, <2>1, <2>2, TurnType DEF Turn, TypeOK
<1>6. CASE Emit
  <2>1. at \in File
    BY <1>6, CollectedAreFiles DEF Emit, TypeOK
  <2>2. Rows(at) \in 0 .. MaxRows
    BY <2>1, RowsType
  <2>3. row' \in 1 .. MaxRows
    BY <1>6, <2>2, MaxRowsAssumption DEF Emit, TypeOK
  <2>4. Current \in Record
    BY <1>6, <2>1, <2>3 DEF Current, Record, Emit
  <2>5. out' \subseteq Record /\ buf' \subseteq Record
    BY <1>6, <2>4 DEF Emit, WriteOk, TypeOK
  <2>6. row' \in 0 .. MaxRows
    BY <2>3, MaxRowsAssumption
  <2> QED
    BY <1>0, <1>6, <2>5, <2>6 DEF Emit, TypeOK
<1>7. CASE EmitFails
  <2>1. at \in File
    BY <1>7, CollectedAreFiles DEF EmitFails, TypeOK
  <2> QED
    BY <1>0, <1>7, <2>1, MaxRowsAssumption DEF EmitFails, ExitWith, GiveUp, TypeOK
<1>8. CASE ParserFails
  <2>1. at \in File
    BY <1>8, CollectedAreFiles DEF ParserFails, TypeOK
  <2> QED
    BY <1>0, <1>8, <2>1, MaxRowsAssumption DEF ParserFails, GiveUp, TypeOK
<1>9. CASE EndInput
  <2>1. entries' \in Nat
    BY <1>9, MaxRowsAssumption DEF EndInput, TypeOK
  <2> QED
    BY <1>0, <1>9, <2>1, MaxRowsAssumption DEF EndInput, TypeOK
<1>10. CASE Finish
  BY <1>0, <1>10 DEF Finish, ExitWith, ExitCode, TypeOK
<1>11. CASE DiskChanges
  BY <1>0, <1>11 DEF DiskChanges, TypeOK
<1> QED
  BY <1>1, <1>2, <1>3, <1>4, <1>5, <1>6, <1>7, <1>8, <1>9, <1>10, <1>11
  DEF Next, Program

LEMMA NextStages ==
  ASSUME IInv, [Next]_vars
  PROVE  Stages'
<1> USE SettingStays DEF IInv, Stages, setting
<1> SUFFICES ASSUME Next PROVE Stages'
  BY DEF vars
<1>1. CASE Collect
  BY <1>1 DEF Collect, ExitWith, Running
<1>2. CASE OpenOut
  BY <1>2 DEF OpenOut, ExitWith, Running
<1>3. CASE PassOver
  BY <1>3 DEF PassOver, Turn
<1>4. CASE FailInput
  BY <1>4 DEF FailInput, Turn
<1>5. CASE BeginInput
  <2>1. PICK i \in left : BeginInput!(i)
    BY <1>5 DEF BeginInput
  <2> QED
    BY <2>1, TurnType DEF Turn
<1>6. CASE Emit
  BY <1>6 DEF Emit, WriteOk
<1>7. CASE EmitFails
  BY <1>7 DEF EmitFails, ExitWith, GiveUp, Running
<1>8. CASE ParserFails
  BY <1>8 DEF ParserFails, GiveUp
<1>9. CASE EndInput
  BY <1>9 DEF EndInput
<1>10. CASE Finish
  BY <1>10 DEF Finish, ExitWith, ExitCode, Running
<1>11. CASE DiskChanges
  BY <1>11 DEF DiskChanges
<1> QED
  BY <1>1, <1>2, <1>3, <1>4, <1>5, <1>6, <1>7, <1>8, <1>9, <1>10, <1>11
  DEF Next, Program

(* Of what a collected input owes, nothing is owed by one that fails. *)
LEMMA OwedIsGood ==
  ASSUME TypeOK, NEW q \in Wanted
  PROVE  /\ q[1] \in Collected /\ q[1] \in File /\ q[2] \in 1 .. MaxRows
         /\ kind[q[1]] = "good" /\ q[2] <= Rows(q[1])
         /\ ~Fails(q[1]) /\ ~MayPassOver(q[1])
  BY DEF Wanted, Record, Rows, Fails, MayPassOver, PassesOver, LooksRight

LEMMA NextOwed ==
  ASSUME IInv, [Next]_vars
  PROVE  OwedIsWritten'
<1> USE SettingStays DEF IInv, Looping, Came
<1> SUFFICES ASSUME Next PROVE OwedIsWritten'
  BY DEF vars, OwedIsWritten
<1> SUFFICES ASSUME Looping', ~broken', NEW q \in Wanted, Came(q[1])'
             PROVE  (q \in out \cup buf \/ (pc = "emit" /\ q[1] = at /\ q[2] > row))'
  BY DEF OwedIsWritten
<1>0. /\ q[1] \in Collected /\ q[1] \in File /\ q[2] \in 1 .. MaxRows
      /\ kind[q[1]] = "good" /\ q[2] <= Rows(q[1])
      /\ ~Fails(q[1]) /\ ~MayPassOver(q[1])
  BY OwedIsGood
<1>1. CASE Collect
  BY <1>1 DEF Collect, ExitWith
<1>2. CASE OpenOut
  BY <1>2 DEF OpenOut, ExitWith, Stages
<1>3. CASE PassOver
  BY <1>0, <1>3 DEF PassOver, Turn, OwedIsWritten
<1>4. CASE FailInput
  BY <1>0, <1>4 DEF FailInput, Turn, OwedIsWritten
<1>5. CASE BeginInput
  <2>1. PICK i \in left : BeginInput!(i)
    BY <1>5 DEF BeginInput
  <2>2. CASE q[1] = i
    BY <1>0, <2>1, <2>2 DEF Turn, Stages
  <2>3. CASE q[1] # i
    BY <2>1, <2>3 DEF Turn, OwedIsWritten
  <2> QED
    BY <2>2, <2>3
<1>6. CASE Emit
  <2>1. row \in Nat /\ row' = row + 1
    BY <1>6, MaxRowsAssumption DEF Emit, TypeOK
  <2>2. (out \cup buf)' = (out \cup buf) \cup {Current}
    BY <1>6 DEF Emit, WriteOk
  <2>3. CASE q \in out \cup buf
    BY <2>2, <2>3
  <2>4. CASE q \notin out \cup buf
    <3>1. q[1] = at /\ q[2] > row
      BY <1>6, <2>4 DEF Emit, OwedIsWritten
    <3>2. q[2] = row + 1 => q = Current
      BY <3>1 DEF Current, Wanted, Record
    <3> QED
      BY <1>0, <1>6, <2>1, <2>2, <3>1, <3>2 DEF Emit
  <2> QED
    BY <2>3, <2>4
<1>7. CASE EmitFails
  BY <1>7 DEF EmitFails
<1>8. CASE ParserFails
  BY <1>0, <1>8 DEF ParserFails, GiveUp, OwedIsWritten, FailsMidway
<1>9. CASE EndInput
  <2>1. row \in Nat
    BY MaxRowsAssumption DEF TypeOK
  <2> QED
    BY <1>0, <1>9, <2>1 DEF EndInput, OwedIsWritten
<1>10. CASE Finish
  BY <1>10 DEF Finish, ExitWith
<1>11. CASE DiskChanges
  BY <1>11 DEF DiskChanges, OwedIsWritten
<1> QED
  BY <1>1, <1>2, <1>3, <1>4, <1>5, <1>6, <1>7, <1>8, <1>9, <1>10, <1>11
  DEF Next, Program

LEMMA NextBad ==
  ASSUME IInv, [Next]_vars
  PROVE  BadIsFailed'
<1> USE SettingStays DEF IInv, Looping, Came
<1> SUFFICES ASSUME Next PROVE BadIsFailed'
  BY DEF vars, BadIsFailed
<1> SUFFICES ASSUME Looping', NEW i \in Collected, Came(i)', Fails(i)
             PROVE  (MayPassOver(i) \/ i \in failed \/ (pc = "emit" /\ i = at))'
  BY DEF BadIsFailed
<1>1. CASE Collect
  BY <1>1 DEF Collect, ExitWith
<1>2. CASE OpenOut
  BY <1>2 DEF OpenOut, ExitWith, Stages
<1>3. CASE PassOver
  BY <1>3 DEF PassOver, Turn, BadIsFailed
<1>4. CASE FailInput
  BY <1>4 DEF FailInput, Turn, BadIsFailed
<1>5. CASE BeginInput
  BY <1>5 DEF BeginInput, Turn, BadIsFailed
<1>6. CASE Emit
  BY <1>6 DEF Emit, BadIsFailed
<1>7. CASE EmitFails
  BY <1>7 DEF EmitFails, ExitWith, GiveUp, BadIsFailed
<1>8. CASE ParserFails
  BY <1>8 DEF ParserFails, GiveUp, BadIsFailed
<1>9. CASE EndInput
  BY <1>9 DEF EndInput, BadIsFailed, Stages
<1>10. CASE Finish
  BY <1>10 DEF Finish, ExitWith
<1>11. CASE DiskChanges
  BY <1>11 DEF DiskChanges, BadIsFailed
<1> QED
  BY <1>1, <1>2, <1>3, <1>4, <1>5, <1>6, <1>7, <1>8, <1>9, <1>10, <1>11
  DEF Next, Program

(* A record the writer takes closes no gap behind it: all that comes before it
   was taken already.                                                        *)
LEMMA EmitLeavesNoGap ==
  ASSUME IInv, Emit
  PROVE  NoGaps((out \cup buf) \cup {Current})
<1>1. SUFFICES ASSUME NEW q \in Wanted, Before(q, Current)
               PROVE  q \in out \cup buf
  BY DEF IInv, NoGaps
<1>2. /\ q[1] \in Collected /\ q[1] \in File /\ q[2] \in 1 .. MaxRows
  BY OwedIsGood DEF IInv
<1>3. at \in File /\ row \in Nat
  BY CollectedAreFiles, MaxRowsAssumption DEF IInv, TypeOK, Emit
<1>4. q[1] < at \/ (q[1] = at /\ q[2] < row + 1)
  BY <1>1 DEF Before, Current
<1>5. q[1] \notin left
  <2>1. \A j \in left : at < j
    BY DEF IInv, Stages, Emit
  <2>2. at \notin left
    BY DEF IInv, Stages, Emit
  <2> QED
    BY <1>2, <1>3, <1>4, <2>1, <2>2 DEF File
<1>6. ~broken /\ Looping
  BY DEF Emit, WriteOk, Looping
<1> QED
  BY <1>2, <1>3, <1>4, <1>5, <1>6 DEF IInv, OwedIsWritten, Came, File

LEMMA NextNoGaps ==
  ASSUME IInv, [Next]_vars
  PROVE  OutputHasNoGaps' /\ NoGaps(out \cup buf)'
<1> USE SettingStays DEF IInv
<1> DEFINE Same == out' = out /\ buf' = buf
<1>1. ASSUME Same
      PROVE  OutputHasNoGaps' /\ NoGaps(out \cup buf)'
  BY <1>1 DEF OutputHasNoGaps, NoGaps
<1>2. CASE Emit
  <2>1. NoGaps((out \cup buf) \cup {Current})
    BY <1>2, EmitLeavesNoGap
  <2>2. (out \cup buf)' = (out \cup buf) \cup {Current}
    BY <1>2 DEF Emit, WriteOk
  <2>3. out' = out \/ out' = (out \cup buf) \cup {Current}
    BY <1>2 DEF Emit, WriteOk, Stages
  <2> QED
    BY <2>1, <2>2, <2>3 DEF OutputHasNoGaps, NoGaps
<1>3. CASE Finish
  <2>1. Same \/ (out' = out \cup buf /\ buf' = {})
    BY <1>3 DEF Finish
  <2> QED
    BY <1>1, <2>1 DEF OutputHasNoGaps, NoGaps
<1>4. CASE UNCHANGED vars
  BY <1>1, <1>4 DEF vars
<1>5. ASSUME Next, ~Emit, ~Finish
      PROVE  Same
  BY <1>5 DEF Next, Program, Collect, OpenOut, PassOver, FailInput, BeginInput,
     Turn, EmitFails, ParserFails, EndInput, DiskChanges
<1> HIDE DEF Same
<1> QED
  BY <1>1, <1>2, <1>3, <1>4, <1>5

LEMMA NextExitZero ==
  ASSUME IInv, [Next]_vars
  PROVE  ExitZeroMeansDelivered'
<1> USE SettingStays DEF IInv
<1>1. CASE Finish
  <2> SUFFICES ASSUME exit' = 0
               PROVE  /\ Wanted \subseteq out'
                      /\ \A i \in Collected : Fails(i) => MayPassOver(i)
    BY DEF ExitZeroMeansDelivered
  <2>1. failed = {} /\ out' = out \cup buf /\ left = {} /\ pc = "next"
    BY <1>1 DEF Finish, ExitWith, ExitCode
  <2>2. ~broken
    BY <2>1 DEF Stages, Running
  <2> QED
    BY <2>1, <2>2, OwedIsGood DEF OwedIsWritten, BadIsFailed, Looping, Came
<1>2. CASE ~Finish
  <2>1. UNCHANGED vars \/ exit' # 0
    BY <1>2 DEF Next, Program, vars, Stages, Running, Collect, OpenOut, PassOver,
       FailInput, BeginInput, Turn, Emit, EmitFails, GiveUp, ExitWith,
       ParserFails, EndInput, DiskChanges
  <2> QED
    BY <2>1 DEF ExitZeroMeansDelivered, vars
<1> QED
  BY <1>1, <1>2

LEMMA NextExitTwo ==
  ASSUME IInv, [Next]_vars
  PROVE  FatalTwoDeliversTheRest'
<1> USE SettingStays DEF IInv, setting
<1> SUFFICES ASSUME tool.write = "fatal", exit' = 2
             PROVE  Wanted \subseteq out'
  BY DEF FatalTwoDeliversTheRest, ExitTwoDeliversTheRest
<1>1. CASE Finish
  <2>1. out' = out \cup buf /\ left = {} /\ pc = "next"
    BY <1>1 DEF Finish, ExitWith
  <2>2. ~broken
    BY <2>1 DEF Stages, Running
  <2> QED
    BY <2>1, <2>2, OwedIsGood DEF OwedIsWritten, Looping, Came
<1>2. CASE ~Finish
  <2>1. UNCHANGED vars \/ exit' # 2
    BY <1>2 DEF Next, Program, vars, Stages, Running, Collect, OpenOut, PassOver,
       FailInput, BeginInput, Turn, Emit, EmitFails, GiveUp, ExitWith,
       ParserFails, EndInput, DiskChanges
  <2> QED
    BY <2>1 DEF FatalTwoDeliversTheRest, ExitTwoDeliversTheRest, vars
<1> QED
  BY <1>1, <1>2

LEMMA Inductive == IInv /\ [Next]_vars => IInv'
  BY NextType, NextStages, NextOwed, NextBad, NextNoGaps, NextExitZero,
     NextExitTwo DEF IInv

(* Every variable keeps its type: ToolRun's TypeOK. *)
THEOREM ToolTypeCorrect == Spec => []TypeOK
  BY InitIInv, Inductive, PTL DEF Spec, IInv

(* Exit code 0 means that every record owed is in the output file, for every
   tool: main()'s counters and the writers' deferred errors miss no loss.     *)
THEOREM ZeroMeansDelivered == Spec => []ExitZeroMeansDelivered
  BY InitIInv, Inductive, PTL DEF Spec, IInv

(* The output file has no gap in any state, so a run that ends early, or is
   killed, leaves the records of a beginning of the inputs.                   *)
THEOREM NoGapsInOutput == Spec => []OutputHasNoGaps
  BY InitIInv, Inductive, PTL DEF Spec, IInv

(* The tools that end on a failed write (gorb, gole, gojle, goprefetch and
   goappcompat) keep what their header says of exit code 2: all inputs but the
   failed ones are emitted in full.                                           *)
THEOREM TwoDeliversTheRest == Spec => []FatalTwoDeliversTheRest
  BY InitIInv, Inductive, PTL DEF Spec, IInv

-----------------------------------------------------------------------------
(* Whoever has counted a record has given it to the writer. *)
SomeInv ==
  /\ entries > 0 \/ row > 0 => out \cup buf # {}
  /\ EmptyIsNoSuccess

LEMMA NextSome ==
  ASSUME IInv, SomeInv, [Next]_vars
  PROVE  SomeInv'
<1> USE SettingStays DEF IInv, SomeInv, setting
<1>0. entries \in Nat /\ row \in Nat
  BY MaxRowsAssumption DEF TypeOK
<1>1. CASE Finish
  <2>1. /\ (out \cup buf)' = out \cup buf
        /\ UNCHANGED <<entries, row>>
    BY <1>1 DEF Finish
  <2>2. ASSUME tool.noRecords, exit' = 0 PROVE out' # {}
    <3>1. entries # 0 /\ out' = out \cup buf
      BY <1>1, <2>2 DEF Finish, ExitWith, ExitCode
    <3> QED
      BY <1>0, <3>1
  <2> QED
    BY <2>1, <2>2 DEF EmptyIsNoSuccess
<1>2. CASE ~Finish /\ Next
  <2>1. exit' # 0
    BY <1>2 DEF Next, Program, Stages, Running, Collect, OpenOut, PassOver,
       FailInput, BeginInput, Turn, Emit, EmitFails, GiveUp, ExitWith,
       ParserFails, EndInput, DiskChanges
  <2>2. CASE Emit
    <3>1. (out \cup buf)' = (out \cup buf) \cup {Current}
      BY <2>2 DEF Emit, WriteOk
    <3> QED
      BY <2>1, <3>1 DEF EmptyIsNoSuccess
  <2>3. CASE ~Emit
    <3>1. UNCHANGED <<out, buf>>
      BY <1>2, <2>3 DEF Next, Program, Collect, OpenOut, PassOver, FailInput,
         BeginInput, Turn, EmitFails, ParserFails, EndInput, DiskChanges
    <3>2. row' > 0 => row > 0
      BY <1>0, <1>2, <2>3 DEF Next, Program, Collect, OpenOut, PassOver, FailInput,
         BeginInput, Turn, EmitFails, GiveUp, ParserFails, EndInput, DiskChanges
    <3>3. entries' > 0 => entries > 0 \/ row > 0
      BY <1>0, <1>2, <2>3 DEF Next, Program, Collect, OpenOut, PassOver, FailInput,
         BeginInput, Turn, EmitFails, GiveUp, ParserFails, EndInput, DiskChanges
    <3> QED
      BY <2>1, <3>1, <3>2, <3>3 DEF EmptyIsNoSuccess
  <2> QED
    BY <2>2, <2>3
<1>3. CASE UNCHANGED vars
  BY <1>3 DEF vars, EmptyIsNoSuccess
<1> QED
  BY <1>1, <1>2, <1>3

(* goamcache, the tool with a test for it, never exits 0 over an empty output:
   the counter it looks at counts nothing the writer lost.                    *)
THEOREM NoSilentSuccess == Spec => []EmptyIsNoSuccess
<1>1. Init => SomeInv
  BY DEF Init, SomeInv, EmptyIsNoSuccess, Running
<1>2. SomeInv => EmptyIsNoSuccess
  BY DEF SomeInv
<1> QED
  BY <1>1, <1>2, NextSome, InitIInv, Inductive, PTL DEF Spec
=============================================================================
