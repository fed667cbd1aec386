-------------------------- MODULE PiiatBatchProofs --------------------------
(***************************************************************************)
(* Theorems about PiiatBatch for every corpus, plugin list and number of   *)
(* invocations, checked by TLAPS.                                          *)
(***************************************************************************)
EXTENDS PiiatBatch, FiniteSetTheorems, TLAPS

(* An image's output folder is one of the folders. *)
LEMMA DestType == ASSUME NEW img \in Image PROVE Dest(img) \in Folder
  BY DEF Folder

(* The todo list of an image, and what it leaves out, can be counted. *)
LEMMA PositionsAreCountable ==
  ASSUME NEW s \in Seq(PluginName), NEW S \in SUBSET DOMAIN s
  PROVE  IsFiniteSet(S) /\ Cardinality(S) \in Nat
<1>1. DOMAIN s = 1 .. Len(s) /\ Len(s) \in Nat
  OBVIOUS
<1>2. IsFiniteSet(DOMAIN s)
  BY <1>1, FS_Interval
<1>3. IsFiniteSet(S)
  BY <1>2, FS_Subset
<1>4. QED
  BY <1>3, FS_CardinalityType

(* The pair of the current image's folder and a plugin it has to run is one
   an output file can exist for.                                            *)
LEMMA CurrentOutput ==
  ASSUME TypeOK, cur \in found, NEW i \in todo
  PROVE  <<Dest(cur), plugins[i]>> \in Output /\ plugins[i] \in PluginName
<1>1. plugins[i] \in PluginName
  BY DEF TypeOK, Position
<1>2. Dest(cur) \in Folder
  BY DestType DEF TypeOK
<1>3. QED
  BY <1>1, <1>2 DEF Output

-----------------------------------------------------------------------------
(* No image is known before discovery; while an image has its turn the
   orchestrator knows which; and piiat_mem is never started, nor its output
   judged, for an empty plugin list.                                        *)
TurnInv ==
  /\ pc = "check" => found = {} /\ processed = 0 /\ failed = 0
  /\ pc \in {"spawn", "run", "judge"} => cur \in found /\ todo # {}
  /\ pc \in {"spawn", "run"} => unjudged = todo
  /\ pc = "spawn" => wrote = {}
  /\ pc = "judge" => unjudged # {}

(* Without PIIAT_FORCE, a file the piiat_mem process of this image may write
   but has not written yet has no valid content.                            *)
TodoInv ==
  pc \in {"spawn", "run"} /\ ~force =>
    \A i \in todo :
      plugins[i] \in wrote \/ ~ValidJsonl(file[<<Dest(cur), plugins[i]>>])

IInv == TypeOK /\ TurnInv /\ TodoInv

-----------------------------------------------------------------------------
LEMMA InitIInv == Init => IInv
<1> SUFFICES ASSUME Init PROVE IInv
  OBVIOUS
<1>1. TypeOK
  <2>1. file \in [Output -> Content]
    BY DEF Init, Content, NoFile, Data
  <2>2. plugins \in Seq(PluginName)
    BY DEF Init
  <2>3. QED
    BY <2>1, <2>2 DEF Init, TypeOK, Running, NoImage
<1>2. TurnInv /\ TodoInv
  BY DEF Init, TurnInv, TodoInv
<1>3. QED
  BY <1>1, <1>2 DEF IInv

(* Ending an invocation keeps the types: the code it ends with is an exit
   code, or that of a killed container.                                     *)
LEMMA ExitType ==
  ASSUME TypeOK, NEW code \in {Killed, 0, 1, 2}, NEW printed \in BOOLEAN,
         ExitWith(code, printed)
  PROVE  TypeOK' /\ pc' = "idle"
BY DEF ExitWith, TypeOK, treeVars, configVars, counters, Position, Output

(* Every step keeps the types. *)
LEMMA NextType == TypeOK /\ TurnInv /\ [Next]_vars => TypeOK'
<1> SUFFICES ASSUME TypeOK, TurnInv, [Next]_vars PROVE TypeOK'
  OBVIOUS
<1>1. CASE Start
  <2>1. plugins' \in Seq(PluginName)
    BY <1>1, RequestsAssumption DEF Start
  <2>2. (file \in [Output -> Content])' /\ (legacy \subseteq Output)'
    BY <1>1 DEF Start, TypeOK, treeVars, Output
  <2>3. /\ pc' = "check" /\ force' \in BOOLEAN
        /\ found' = {} /\ left' = {} /\ cur' = NoImage
        /\ todo' = {} /\ unjudged' = {}
        /\ processed' = 0 /\ skipped' = 0 /\ failed' = 0
        /\ produced' = {} /\ empty' = {} /\ kept' = {} /\ stale' = {}
        /\ exit' = Running /\ summary' = FALSE
        /\ wrote' = {} /\ invoked' = {} /\ allDone' = FALSE
    BY <1>1 DEF Start
  <2>4. runs' \in Nat
    BY <1>1 DEF Start, TypeOK
  <2>5. QED
    BY <2>1, <2>2, <2>3, <2>4 DEF TypeOK
<1>2. CASE ConfigError
  BY <1>2, ExitType DEF ConfigError
<1>3. CASE Discover
  <2>1. PICK S \in SUBSET Image : found' = S /\ left' = S
    BY <1>3 DEF Discover
  <2>2. found = {}
    BY <1>3 DEF Discover, TurnInv
  <2>3. allDone' \in BOOLEAN
    BY <1>3 DEF Discover
  <2>4. QED
    BY <1>3, <2>1, <2>2, <2>3 DEF Discover, TypeOK, treeVars, counters, Position, Output
<1>4. CASE BeginImage
  <2>1. skipped' \in Nat
    <3>1. Position \ todo' \in SUBSET Position
      OBVIOUS
    <3>2. Cardinality(Position \ todo') \in Nat
      BY <3>1, PositionsAreCountable DEF TypeOK, Position
    <3>3. QED
      BY <1>4, <3>2 DEF BeginImage, TypeOK
  <2>2. QED
    BY <1>4, <2>1 DEF BeginImage, Todo, TypeOK, treeVars, configVars, Position,
                       Output
<1>5. CASE Spawn
  BY <1>5 DEF Spawn, TypeOK, TurnInv, treeVars, configVars, counters, Position,
              Output
<1>6. CASE PluginWrites
  <2>1. PICK i \in todo, d \in Data \ {"absent"} :
           /\ file' = [file EXCEPT ![<<Dest(cur), plugins[i]>>] =
                                       [data |-> d, owner |-> cur]]
           /\ wrote' = wrote \cup {plugins[i]}
    BY <1>6 DEF PluginWrites
  <2>2. cur \in found /\ cur \in Image
    BY <1>6 DEF PluginWrites, TurnInv, TypeOK
  <2>3. [data |-> d, owner |-> cur] \in Content
    BY <2>2 DEF Content
  <2>4. file' \in [Output -> Content] /\ wrote' \subseteq PluginName
    BY <2>1, <2>2, <2>3, CurrentOutput DEF TypeOK
  <2>5. QED
    BY <1>6, <2>4 DEF PluginWrites, TypeOK, configVars, counters, Position, Output
<1>7. CASE PiiatMemExits
  BY <1>7 DEF PiiatMemExits, TypeOK, treeVars, configVars, counters, Position,
              Output
<1>8. CASE JudgeValid
  <2>1. PICK i \in unjudged :
           /\ Judge(i)
           /\ processed' = processed + 1
           /\ produced' = produced \cup {<<cur, i>>}
           /\ stale' = IF plugins[i] \in wrote THEN stale
                                               ELSE stale \cup {<<cur, i>>}
           /\ UNCHANGED <<file, failed, empty>>
    BY <1>8 DEF JudgeValid
  <2>2. pc = "judge" /\ cur \in found /\ i \in Position
    BY <2>1 DEF Judge, TurnInv, TypeOK
  <2>3. QED
    BY <2>1, <2>2 DEF Judge, TypeOK, configVars, Position, Output
<1>9. CASE JudgeEmpty
  <2>1. PICK i \in unjudged :
           /\ Judge(i)
           /\ file' = [file EXCEPT ![<<Dest(cur), plugins[i]>>] = NoFile]
           /\ failed' = failed + 1
           /\ empty' = empty \cup {<<cur, i>>}
           /\ UNCHANGED <<processed, produced, stale>>
    BY <1>9 DEF JudgeEmpty
  <2>2. pc = "judge" /\ cur \in found /\ i \in Position
    BY <2>1 DEF Judge, TurnInv, TypeOK
  <2>3. NoFile \in Content
    BY DEF NoFile, Content, Data
  <2>4. file' \in [Output -> Content]
    BY <2>1, <2>3 DEF TypeOK
  <2>5. QED
    BY <2>1, <2>2, <2>4 DEF Judge, TypeOK, configVars, Position, Output
<1>10. CASE Report
  <2>1. ExitCode \in {0, 1}
    BY DEF ExitCode
  <2>2. QED
    BY <1>10, <2>1, ExitType DEF Report
<1>11. CASE Uncaught
  BY <1>11, ExitType DEF Uncaught
<1>12. CASE Kill
  BY <1>12, ExitType DEF Kill
<1>13. CASE UNCHANGED vars
  BY <1>13 DEF vars, TypeOK, Position, Output
<1>14. QED
  BY <1>1, <1>2, <1>3, <1>4, <1>5, <1>6, <1>7, <1>8, <1>9, <1>10, <1>11,
     <1>12, <1>13 DEF Next, Program

(* The orchestrator's own steps keep TurnInv. *)
LEMMA NextTurn == TypeOK /\ TurnInv /\ [Next]_vars => TurnInv'
<1> SUFFICES ASSUME TypeOK, TurnInv, [Next]_vars PROVE TurnInv'
  OBVIOUS
<1>1. CASE Start
  BY <1>1 DEF Start, TurnInv
<1>2. CASE ConfigError \/ Report \/ Uncaught \/ Kill
  <2>1. pc' = "idle"
    BY <1>2 DEF ConfigError, Report, Uncaught, Kill, ExitWith
  <2>2. QED
    BY <2>1 DEF TurnInv
<1>3. CASE Discover
  BY <1>3 DEF Discover, TurnInv
<1>4. CASE BeginImage
  BY <1>4 DEF BeginImage, TurnInv, TypeOK, configVars
<1>5. CASE Spawn \/ PluginWrites \/ PiiatMemExits
  BY <1>5 DEF Spawn, PluginWrites, PiiatMemExits, TurnInv, configVars, counters
<1>6. CASE JudgeValid \/ JudgeEmpty
  BY <1>6 DEF JudgeValid, JudgeEmpty, Judge, TurnInv, configVars
<1>7. CASE UNCHANGED vars
  BY <1>7 DEF vars, TurnInv
<1>8. QED
  BY <1>1, <1>2, <1>3, <1>4, <1>5, <1>6, <1>7 DEF Next, Program

(* What the todo list says about the files holds until piiat_mem writes. *)
LEMMA NextTodo == TypeOK /\ TurnInv /\ TodoInv /\ [Next]_vars => TodoInv'
<1> SUFFICES ASSUME TypeOK, TurnInv, TodoInv, [Next]_vars PROVE TodoInv'
  OBVIOUS
<1>1. CASE Start \/ Discover \/ PiiatMemExits
  BY <1>1 DEF Start, Discover, PiiatMemExits, TodoInv
<1>2. CASE ConfigError \/ Report \/ Uncaught \/ Kill
  <2>1. pc' = "idle"
    BY <1>2 DEF ConfigError, Report, Uncaught, Kill, ExitWith
  <2>2. QED
    BY <2>1 DEF TodoInv
<1>3. CASE BeginImage
  <2>1. todo' = {i \in Position : force \/ ~PluginDone(cur', plugins[i])}
    BY <1>3 DEF BeginImage, Todo
  <2>2. ~force => \A i \in todo' : ~ValidJsonl(file[<<Dest(cur'), plugins[i]>>])
    BY <2>1 DEF PluginDone
  <2>3. UNCHANGED <<file, force, plugins>>
    BY <1>3 DEF BeginImage, treeVars, configVars
  <2>4. QED
    BY <2>2, <2>3 DEF TodoInv, Dest
<1>4. CASE Spawn
  BY <1>4 DEF Spawn, TodoInv, treeVars, configVars, Dest
<1>5. CASE PluginWrites
  <2>1. PICK j \in todo, d \in Data \ {"absent"} :
           /\ file' = [file EXCEPT ![<<Dest(cur), plugins[j]>>] =
                                       [data |-> d, owner |-> cur]]
           /\ wrote' = wrote \cup {plugins[j]}
    BY <1>5 DEF PluginWrites
  <2>2. /\ pc = "run" /\ pc' = "run"
        /\ UNCHANGED <<force, plugins, todo, cur>>
    BY <1>5 DEF PluginWrites, configVars
  <2>3. SUFFICES ASSUME ~force, NEW i \in todo, plugins[i] \notin wrote'
                 PROVE  ~ValidJsonl(file'[<<Dest(cur), plugins[i]>>])
    BY <2>2 DEF TodoInv, Dest
  <2>4. plugins[i] # plugins[j] /\ plugins[i] \notin wrote
    BY <2>1, <2>3
  <2>5. <<Dest(cur), plugins[i]>> \in Output
    BY <2>2, CurrentOutput DEF TurnInv
  <2>6. file'[<<Dest(cur), plugins[i]>>] = file[<<Dest(cur), plugins[i]>>]
    BY <2>1, <2>4, <2>5 DEF TypeOK
  <2>7. QED
    BY <2>2, <2>3, <2>4, <2>6 DEF TodoInv
<1>6. CASE JudgeValid \/ JudgeEmpty
  BY <1>6 DEF JudgeValid, JudgeEmpty, Judge, TodoInv
<1>7. CASE UNCHANGED vars
  BY <1>7 DEF vars, TodoInv, Dest
<1>8. QED
  BY <1>1, <1>2, <1>3, <1>4, <1>5, <1>6, <1>7 DEF Next, Program

LEMMA Inductive == IInv /\ [Next]_vars => IInv'
  BY NextType, NextTurn, NextTodo DEF IInv

LEMMA AlwaysIInv == Spec => []IInv
  BY InitIInv, Inductive, PTL DEF Spec

(* Every variable of the batch keeps its type, for any corpus and any sequence
   of invocations, kills and aborts.                                        *)
THEOREM TypeCorrect == Spec => []TypeOK
<1>1. IInv => TypeOK
  BY DEF IInv
<1>2. QED
  BY <1>1, AlwaysIInv, PTL

-----------------------------------------------------------------------------
(* A step that changes a file is piiat_mem writing it, or the clean-up of a
   file that is not valid.                                                  *)
LEMMA WhoTouchesFiles ==
  ASSUME IInv, [Next]_vars, NEW o \in Output, file'[o] # file[o],
         ValidJsonl(file[o])
  PROVE  /\ PluginWrites /\ pc = "run" /\ o[1] = Dest(cur)
         /\ force \/ o[2] \in wrote
<1>1. CASE PluginWrites
  <2>1. PICK j \in todo, d \in Data \ {"absent"} :
           file' = [file EXCEPT ![<<Dest(cur), plugins[j]>>] =
                                    [data |-> d, owner |-> cur]]
    BY <1>1 DEF PluginWrites
  <2>2. pc = "run"
    BY <1>1 DEF PluginWrites
  <2>3. o = <<Dest(cur), plugins[j]>>
    BY <2>1 DEF IInv, TypeOK
  <2>4. force \/ plugins[j] \in wrote
    BY <2>2, <2>3 DEF IInv, TodoInv
  <2>5. QED
    BY <1>1, <2>2, <2>3, <2>4
<1>2. CASE JudgeEmpty
  <2>1. PICK i \in unjudged :
           /\ ~ValidJsonl(file[<<Dest(cur), plugins[i]>>])
           /\ file' = [file EXCEPT ![<<Dest(cur), plugins[i]>>] = NoFile]
    BY <1>2 DEF JudgeEmpty
  <2>2. o = <<Dest(cur), plugins[i]>>
    BY <2>1 DEF IInv, TypeOK
  <2>3. QED
    BY <2>1, <2>2
<1>3. CASE \/ Start \/ ConfigError \/ Discover \/ BeginImage \/ Spawn
           \/ JudgeValid \/ Report \/ Uncaught \/ PiiatMemExits \/ Kill
           \/ UNCHANGED vars
  <2>1. file' = file
    BY <1>3 DEF Start, ConfigError, Discover, BeginImage, Spawn, JudgeValid,
                Report, Uncaught, PiiatMemExits, Kill, ExitWith, treeVars, vars
  <2>2. QED
    BY <2>1
<1>4. QED
  BY <1>1, <1>2, <1>3 DEF Next, Program

(* Output that counts as done is never lost or replaced unless PIIAT_FORCE
   asks for it: for any number of images, even ones sharing a folder, and any
   sequence of invocations, aborts and kills.                               *)
THEOREM DoneOutputSurvives == Spec => DoneStaysDone
<1>1. IInv /\ [Next]_vars =>
        [\A o \in Output :
           ValidJsonl(file[o]) /\ file'[o] # file[o]
             => /\ pc = "run"
                /\ o[1] = Dest(cur)
                /\ force \/ o[2] \in wrote]_vars
  BY WhoTouchesFiles
<1>2. QED
  BY <1>1, AlwaysIInv, PTL DEF Spec, DoneStaysDone

-----------------------------------------------------------------------------
(* What is in flight changes only in the two steps around piiat_mem's run. *)
LEMMA LedgerStep == IInv /\ [Next]_vars => [Ledger!Next]_(Ledger!vars)
<1> SUFFICES ASSUME IInv, [Next]_vars PROVE [Ledger!Next]_(Ledger!vars)
  OBVIOUS
<1> USE DEF Ledger!Next, Ledger!vars, Ledger!Invoke, Ledger!Enter, Ledger!Strike
<1>1. CASE Start
  <2>1. Done' = Done
    BY <1>1 DEF Start, treeVars, Done, InFlight
  <2>2. force' \in BOOLEAN
    BY <1>1 DEF Start
  <2>3. QED
    BY <2>1, <2>2
<1>2. CASE \/ ConfigError \/ Discover \/ BeginImage \/ JudgeValid
           \/ (Spawn /\ wrote = {}) \/ UNCHANGED vars
  <2>1. force' = force
    BY <1>2 DEF ConfigError, Discover, BeginImage, JudgeValid, Judge, Spawn,
                ExitWith, configVars, vars
  <2>2. Done' = Done
    <3>1. CASE UNCHANGED vars
      BY <3>1 DEF vars, Done, InFlight, Dest
    <3>2. CASE Spawn /\ wrote = {}
      BY <3>2 DEF Spawn, treeVars, Done, InFlight
    <3>3. CASE ConfigError \/ Discover \/ BeginImage \/ JudgeValid
      <4>1. file' = file /\ pc # "run" /\ pc' # "run"
        BY <3>3 DEF ConfigError, Discover, BeginImage, JudgeValid, Judge,
                    ExitWith, treeVars
      <4>2. QED
        BY <4>1 DEF Done, InFlight
    <3>4. QED
      BY <1>2, <3>1, <3>2, <3>3
  <2>3. QED
    BY <2>1, <2>2
<1>3. CASE Report \/ Uncaught \/ Kill \/ PiiatMemExits
  <2>1. file' = file /\ force' = force /\ pc' # "run"
    BY <1>3 DEF Report, Uncaught, Kill, PiiatMemExits, ExitWith, treeVars,
                configVars
  <2>2. Done' = Done \cup {o \in Output : ValidJsonl(file[o])}
    BY <2>1 DEF Done, InFlight
  <2>3. {o \in Output : ValidJsonl(file[o])} \in SUBSET Output
    OBVIOUS
  <2>4. QED
    BY <2>1, <2>2, <2>3
<1>4. CASE JudgeEmpty
  <2>1. PICK i \in unjudged :
           /\ ~ValidJsonl(file[<<Dest(cur), plugins[i]>>])
           /\ file' = [file EXCEPT ![<<Dest(cur), plugins[i]>>] = NoFile]
    BY <1>4 DEF JudgeEmpty
  <2>2. pc = "judge" /\ pc' # "run" /\ force' = force
    BY <1>4 DEF JudgeEmpty, Judge, configVars
  <2>3. ~ValidJsonl(NoFile)
    BY DEF ValidJsonl, NoFile
  <2>4. \A o \in Output : ValidJsonl(file'[o]) <=> ValidJsonl(file[o])
    BY <2>1, <2>3 DEF IInv, TypeOK
  <2>5. Done' = Done
    BY <2>2, <2>4 DEF Done, InFlight
  <2>6. QED
    BY <2>2, <2>5
<1>5. CASE PluginWrites
  <2>1. PICK j \in todo, d \in Data \ {"absent"} :
           /\ file' = [file EXCEPT ![<<Dest(cur), plugins[j]>>] =
                                       [data |-> d, owner |-> cur]]
           /\ wrote' = wrote \cup {plugins[j]}
    BY <1>5 DEF PluginWrites
  <2> DEFINE out == <<Dest(cur), plugins[j]>>
  <2>2. pc = "run" /\ pc' = "run" /\ force' = force /\ cur' = cur
    BY <1>5 DEF PluginWrites, configVars
  <2>3. out \in Output
    BY <2>2, CurrentOutput DEF IInv, TurnInv
  <2>4. \A o \in Output \ {out} : file'[o] = file[o]
    BY <2>1 DEF IInv, TypeOK
  <2>5. \A o \in Output : InFlight(o)' <=> InFlight(o) \/ o = out
    <3>1. TAKE o \in Output
    <3>2. o = <<o[1], o[2]>>
      BY DEF Output
    <3>3. Dest(cur)' = Dest(cur)
      BY <2>2 DEF Dest
    <3>4. QED
      BY <2>1, <2>2, <3>2, <3>3 DEF InFlight
  <2>6. Done' = Done \ {out}
    BY <2>4, <2>5 DEF Done
  <2>7. out \in Done => force
    <3>1. SUFFICES ASSUME out \in Done PROVE force
      OBVIOUS
    <3>2. ValidJsonl(file[out]) /\ plugins[j] \notin wrote
      BY <2>2, <3>1 DEF Done, InFlight
    <3>3. QED
      BY <2>2, <3>2 DEF IInv, TodoInv
  <2>8. QED
    <3>1. CASE out \in Done
      BY <2>2, <2>6, <2>7, <3>1
    <3>2. CASE out \notin Done
      BY <2>2, <2>6, <3>2
    <3>3. QED
      BY <3>1, <3>2
<1>6. CASE Spawn /\ wrote # {}
  <2>1. FALSE
    BY <1>6 DEF Spawn, IInv, TurnInv
  <2>2. QED
    BY <2>1
<1>7. QED
  BY <1>1, <1>2, <1>3, <1>4, <1>5, <1>6 DEF Next, Program

(* The batch implements the ledger: without PIIAT_FORCE the set of done
   outputs only grows, whatever is killed and whenever.                     *)
THEOREM BatchImplementsLedger == Spec => LedgerSpec
<1>1. Init => Ledger!Init
  <2>1. Init => \A o \in Output : ~ValidJsonl(file[o])
    BY DEF Init, ValidJsonl, NoFile
  <2>2. Init => Done = {}
    BY <2>1 DEF Done
  <2>3. Init => force \in BOOLEAN
    BY DEF Init
  <2>4. QED
    BY <2>2, <2>3 DEF Ledger!Init
<1>2. IInv /\ [Next]_vars => [Ledger!Next]_(Ledger!vars)
  BY LedgerStep
<1>3. QED
  BY <1>1, <1>2, AlwaysIInv, PTL DEF Spec, LedgerSpec, Ledger!Spec

-----------------------------------------------------------------------------
(* An invocation that finds everything done, and is not forced to redo it,
   never leaves the image loop for piiat_mem.                               *)
RerunInv ==
  allDone /\ ~force =>
    /\ pc \in {"idle", "loop"}
    /\ invoked = {} /\ processed = 0 /\ failed = 0
    /\ Complete => exit = 0
    /\ \A img \in found, i \in Position : PluginDone(img, plugins[i])

LEMMA NextRerun == IInv /\ RerunInv /\ [Next]_vars => RerunInv'
<1> SUFFICES ASSUME IInv, RerunInv, [Next]_vars, (allDone /\ ~force)'
             PROVE  (/\ pc \in {"idle", "loop"}
                     /\ invoked = {} /\ processed = 0 /\ failed = 0
                     /\ Complete => exit = 0
                     /\ \A img \in found, i \in Position :
                          PluginDone(img, plugins[i]))'
  BY DEF RerunInv
<1>1. CASE Start
  BY <1>1 DEF Start
<1>2. CASE Discover
  <2>1. \A img \in found', i \in Position : PluginDone(img, plugins[i])
    BY <1>2 DEF Discover
  <2>2. /\ UNCHANGED <<file, legacy, plugins, processed, failed, invoked>>
        /\ pc = "check" /\ pc' = "loop"
    BY <1>2 DEF Discover, treeVars, counters
  <2>3. invoked = {} /\ processed = 0 /\ failed = 0
    BY <2>2 DEF IInv, TypeOK, TurnInv
  <2>4. QED
    BY <2>1, <2>2, <2>3 DEF Position, PluginDone, Complete, Dest
<1>3. CASE ~(Start \/ Discover)
  <2>1. UNCHANGED <<allDone, force, plugins, found>>
    BY <1>3 DEF Next, Program, ConfigError, BeginImage, Spawn, JudgeValid,
                JudgeEmpty, Judge, Report, Uncaught, Kill, ExitWith,
                PluginWrites, PiiatMemExits, configVars, vars
  <2>2. /\ pc \in {"idle", "loop"}
        /\ invoked = {} /\ processed = 0 /\ failed = 0
        /\ Complete => exit = 0
        /\ \A img \in found, i \in Position : PluginDone(img, plugins[i])
    BY <2>1 DEF RerunInv
  <2>3. BeginImage \/ Report \/ Uncaught \/ Kill \/ UNCHANGED vars
    BY <1>3, <2>2 DEF Next, Program, ConfigError, Spawn, JudgeValid,
                      JudgeEmpty, Judge, PluginWrites, PiiatMemExits
  <2>4. UNCHANGED <<file, legacy, processed, failed, invoked>>
    BY <2>3 DEF BeginImage, Report, Uncaught, Kill, ExitWith, treeVars,
                counters, vars
  <2>5. (\A img \in found, i \in Position : PluginDone(img, plugins[i]))'
    BY <2>1, <2>2, <2>4 DEF PluginDone, Position, Dest
  <2>6. pc' \in {"idle", "loop"}
    <3>1. CASE BeginImage
      <4>1. PICK img \in left :
              todo' = {i \in Position : force \/ ~PluginDone(img, plugins[i])}
        BY <3>1 DEF BeginImage, Todo
      <4>2. img \in found
        BY <4>1 DEF IInv, TypeOK
      <4>3. todo' = {}
        BY <2>1, <2>2, <4>1, <4>2
      <4>4. QED
        BY <3>1, <4>3 DEF BeginImage
    <3>2. CASE Report \/ Uncaught \/ Kill \/ UNCHANGED vars
      BY <2>2, <3>2 DEF Report, Uncaught, Kill, ExitWith, vars
    <3>3. QED
      BY <2>3, <3>1, <3>2
  <2>7. (Complete => exit = 0)'
    <3>1. CASE BeginImage
      <4>1. pc' = "loop"
        BY <2>6, <3>1 DEF BeginImage
      <4>2. QED
        BY <4>1 DEF Complete
    <3>2. CASE Report
      BY <2>2, <3>2 DEF Report, ExitWith, ExitCode, Complete
    <3>3. CASE Uncaught \/ Kill
      BY <3>3 DEF Uncaught, Kill, ExitWith, Complete
    <3>4. CASE UNCHANGED vars
      BY <2>2, <3>4 DEF vars, Complete
    <3>5. QED
      BY <2>3, <3>1, <3>2, <3>3, <3>4
  <2>8. QED
    BY <2>2, <2>4, <2>5, <2>6, <2>7
<1>4. QED
  BY <1>1, <1>2, <1>3

(* A re-run over complete output starts no piiat_mem and exits 0, however the
   output came to be complete.                                              *)
THEOREM RerunIsIdempotent == Spec => []IdempotentRerun
<1>1. Init => RerunInv
  BY DEF Init, RerunInv
<1>2. RerunInv => IdempotentRerun
  BY DEF RerunInv, IdempotentRerun
<1>3. QED
  BY <1>1, <1>2, NextRerun, AlwaysIInv, PTL DEF Spec

-----------------------------------------------------------------------------
(* Why a verdict stays true: its image had its turn and gets no second one;
   only the process of an image writes that image's folder; and the plugins
   skipped for an image are not among those its process was given.          *)
Verdicts == produced \cup kept \cup empty
VerdictInv ==
  /\ cur \notin left
  /\ \A v \in Verdicts : v[1] \notin left
  /\ \A v \in produced \cup empty : v[1] = cur => pc \notin {"spawn", "run"}
  /\ \A v \in kept :
       v[1] = cur /\ pc \in {"spawn", "run", "judge"} =>
         \A i \in todo : plugins[i] # plugins[v[2]]
  /\ \A v \in produced \cup kept : PluginDone(v[1], plugins[v[2]])
  /\ \A v \in empty : file[<<Dest(v[1]), plugins[v[2]]>>] = NoFile

(* A verdict's image and position are what they should be. *)
LEMMA VerdictType ==
  ASSUME TypeOK, NEW v \in Verdicts
  PROVE  /\ v[1] \in found /\ v[1] \in Image /\ v[2] \in Position
         /\ v = <<v[1], v[2]>>
         /\ <<Dest(v[1]), plugins[v[2]]>> \in Output
<1>1. v \in found \X Position
  BY DEF TypeOK, Verdicts
<1>2. v[1] \in Image /\ plugins[v[2]] \in PluginName
  BY <1>1 DEF TypeOK, Position
<1>3. Dest(v[1]) \in Folder
  BY <1>2, DestType
<1>4. QED
  BY <1>1, <1>2, <1>3 DEF Output

(* piiat_mem writing for the current image leaves every verdict true. *)
LEMMA WriteKeepsVerdicts ==
  ASSUME FoldersDistinct, IInv, VerdictInv, PluginWrites
  PROVE  VerdictInv'
<1>1. PICK j \in todo, d \in Data \ {"absent"} :
         file' = [file EXCEPT ![<<Dest(cur), plugins[j]>>] =
                                  [data |-> d, owner |-> cur]]
  BY DEF PluginWrites
<1>2. /\ pc = "run" /\ pc' = "run" /\ cur \in Image
      /\ UNCHANGED <<legacy, plugins, left, cur, todo, produced, kept, empty>>
  BY DEF PluginWrites, configVars, counters, IInv, TurnInv, TypeOK
<1>3. ASSUME NEW v \in Verdicts
      PROVE  file'[<<Dest(v[1]), plugins[v[2]]>>] =
             file[<<Dest(v[1]), plugins[v[2]]>>]
  <2>1. v[1] \in Image /\ <<Dest(v[1]), plugins[v[2]]>> \in Output
    BY <1>3, VerdictType DEF IInv
  <2>2. v[1] # cur \/ plugins[v[2]] # plugins[j]
    BY <1>2 DEF VerdictInv, Verdicts
  <2>3. Dest(v[1]) # Dest(cur) \/ plugins[v[2]] # plugins[j]
    BY <1>2, <2>1, <2>2 DEF FoldersDistinct
  <2>4. QED
    BY <1>1, <2>1, <2>3 DEF IInv, TypeOK
<1>4. Verdicts' = Verdicts
  BY <1>2 DEF Verdicts
<1>5. \A v \in produced' \cup kept' : PluginDone(v[1], plugins[v[2]])'
  BY <1>2, <1>3 DEF VerdictInv, PluginDone, Verdicts, Dest
<1>6. \A v \in empty' : (file[<<Dest(v[1]), plugins[v[2]]>>] = NoFile)'
  BY <1>2, <1>3 DEF VerdictInv, Verdicts, Dest
<1>7. QED
  BY <1>2, <1>4, <1>5, <1>6 DEF VerdictInv

(* Judging an output adds a true verdict and leaves the others true. *)
LEMMA JudgeKeepsVerdicts ==
  ASSUME FoldersDistinct, IInv, VerdictInv, JudgeValid \/ JudgeEmpty
  PROVE  VerdictInv'
<1>1. /\ pc = "judge" /\ pc' \in {"judge", "loop"} /\ cur \in Image
      /\ UNCHANGED <<legacy, plugins, left, cur, todo, kept>>
  BY DEF JudgeValid, JudgeEmpty, Judge, configVars, IInv, TurnInv, TypeOK
<1>2. CASE JudgeValid
  <2>1. PICK i \in unjudged :
           /\ ValidJsonl(file[<<Dest(cur), plugins[i]>>])
           /\ produced' = produced \cup {<<cur, i>>}
           /\ file' = file /\ empty' = empty
    BY <1>2 DEF JudgeValid
  <2>2. Verdicts' = Verdicts \cup {<<cur, i>>}
    BY <1>1, <2>1 DEF Verdicts
  <2>3. PluginDone(cur, plugins[i])
    BY <2>1 DEF PluginDone
  <2>4. \A v \in produced' \cup kept' : PluginDone(v[1], plugins[v[2]])'
    BY <1>1, <2>1, <2>3 DEF VerdictInv, PluginDone, Dest
  <2>5. QED
    BY <1>1, <2>1, <2>2, <2>4 DEF VerdictInv, Dest
<1>3. CASE JudgeEmpty
  <2>1. PICK i \in unjudged :
           /\ ~ValidJsonl(file[<<Dest(cur), plugins[i]>>])
           /\ file' = [file EXCEPT ![<<Dest(cur), plugins[i]>>] = NoFile]
           /\ empty' = empty \cup {<<cur, i>>}
           /\ produced' = produced
    BY <1>3 DEF JudgeEmpty
  <2> DEFINE out == <<Dest(cur), plugins[i]>>
  <2>2. i \in todo /\ cur \in found
    BY <1>1 DEF IInv, TypeOK, TurnInv
  <2>3. out \in Output
    BY <2>2, CurrentOutput DEF IInv
  <2>4. \A o \in Output : file'[o] = IF o = out THEN NoFile ELSE file[o]
    BY <2>1 DEF IInv, TypeOK
  <2>5. Verdicts' = Verdicts \cup {<<cur, i>>}
    BY <1>1, <2>1 DEF Verdicts
  <2>6. ASSUME NEW v \in produced \cup kept
        PROVE  PluginDone(v[1], plugins[v[2]])'
    <3>1. PluginDone(v[1], plugins[v[2]])
      BY DEF VerdictInv
    <3>2. <<Dest(v[1]), plugins[v[2]]>> \in Output
      BY <2>6, VerdictType DEF IInv, Verdicts
    <3>3. ValidJsonl(file[<<Dest(v[1]), plugins[v[2]]>>])
            => file'[<<Dest(v[1]), plugins[v[2]]>>] =
               file[<<Dest(v[1]), plugins[v[2]]>>]
      BY <2>1, <2>4, <3>2
    <3>4. QED
      BY <1>1, <3>1, <3>3 DEF PluginDone, Dest
  <2>7. ASSUME NEW v \in empty'
        PROVE  (file[<<Dest(v[1]), plugins[v[2]]>>] = NoFile)'
    <3>1. CASE v = <<cur, i>>
      BY <1>1, <2>3, <2>4, <3>1 DEF Dest
    <3>2. CASE v \in empty
      <4>1. file[<<Dest(v[1]), plugins[v[2]]>>] = NoFile
        BY <3>2 DEF VerdictInv
      <4>2. <<Dest(v[1]), plugins[v[2]]>> \in Output
        BY <3>2, VerdictType DEF IInv, Verdicts
      <4>3. QED
        BY <1>1, <2>4, <4>1, <4>2 DEF Dest
    <3>3. QED
      BY <2>1, <2>7, <3>1, <3>2
  <2>8. QED
    BY <1>1, <2>1, <2>5, <2>6, <2>7 DEF VerdictInv
<1>4. QED
  BY <1>2, <1>3

(* The turn of a new image: what it skips is done, and no plugin name is both
   skipped and run.                                                         *)
LEMMA TurnKeepsVerdicts ==
  ASSUME IInv, VerdictInv, BeginImage
  PROVE  VerdictInv'
<1>1. PICK img \in left :
        /\ cur' = img
        /\ left' = left \ {img}
        /\ todo' = {i \in Position : force \/ ~PluginDone(img, plugins[i])}
        /\ kept' = kept \cup ({img} \X (Position \ todo'))
  BY DEF BeginImage, Todo
<1>2. UNCHANGED <<file, legacy, plugins, produced, empty>>
  BY DEF BeginImage, treeVars, configVars
<1>3. \A v \in Verdicts : v[1] # img
  BY DEF VerdictInv
<1>4. \A v \in kept' \ kept : v[1] = img /\ v[2] \in Position \ todo'
  BY <1>1
<1>5. \A k \in Position \ todo' : PluginDone(img, plugins[k])
  BY <1>1
<1>6. \A k \in Position \ todo', i \in todo' : plugins[i] # plugins[k]
  BY <1>1
<1>7. \A v \in produced' \cup kept' : PluginDone(v[1], plugins[v[2]])'
  <2>1. \A v \in produced' \cup kept' : PluginDone(v[1], plugins[v[2]])
    BY <1>2, <1>4, <1>5 DEF VerdictInv
  <2>2. QED
    BY <1>2, <2>1 DEF PluginDone, Dest
<1>8. \A v \in kept' : v[1] = cur' => \A i \in todo' : plugins'[i] # plugins'[v[2]]
  BY <1>1, <1>2, <1>3, <1>4, <1>6 DEF Verdicts
<1>9. \A v \in Verdicts' : v[1] \notin left'
  BY <1>1, <1>2, <1>4 DEF VerdictInv, Verdicts
<1>10. \A v \in produced' \cup empty' : v[1] # cur'
  BY <1>1, <1>2, <1>3 DEF Verdicts
<1>11. \A v \in empty' : (file[<<Dest(v[1]), plugins[v[2]]>>] = NoFile)'
  BY <1>2 DEF VerdictInv, Dest
<1>12. cur' \notin left'
  BY <1>1
<1>13. QED
  BY <1>7, <1>8, <1>9, <1>10, <1>11, <1>12 DEF VerdictInv

LEMMA NextVerdict ==
  FoldersDistinct /\ IInv /\ VerdictInv /\ [Next]_vars => VerdictInv'
<1> SUFFICES ASSUME FoldersDistinct, IInv, VerdictInv, [Next]_vars
             PROVE  VerdictInv'
  OBVIOUS
<1>1. CASE Start
  BY <1>1 DEF Start, VerdictInv, Verdicts
<1>2. CASE Discover
  <2>1. found = {}
    BY <1>2 DEF Discover, IInv, TurnInv
  <2>2. Verdicts = {} /\ cur = NoImage
    BY <2>1 DEF Verdicts, IInv, TypeOK
  <2>3. Verdicts' = {} /\ cur' = NoImage /\ left' \subseteq Image
    BY <1>2, <2>2 DEF Discover, Verdicts, counters
  <2>4. NoImage \notin Image
    BY NumImagesAssumption DEF NoImage, Image
  <2>5. QED
    BY <2>3, <2>4 DEF VerdictInv, Verdicts
<1>3. CASE BeginImage
  BY <1>3, TurnKeepsVerdicts
<1>4. CASE PluginWrites
  BY <1>4, WriteKeepsVerdicts
<1>5. CASE JudgeValid \/ JudgeEmpty
  BY <1>5, JudgeKeepsVerdicts
<1>6. CASE ConfigError \/ Spawn \/ PiiatMemExits \/ Report \/ Uncaught \/ Kill
  <2>1. UNCHANGED <<file, legacy, plugins, left, cur, todo, produced, kept, empty>>
    BY <1>6 DEF ConfigError, Spawn, PiiatMemExits, Report, Uncaught, Kill,
                ExitWith, treeVars, configVars, counters
  <2>2. /\ pc' \in {"spawn", "run"} => pc \in {"spawn", "run"}
        /\ pc' \in {"spawn", "run", "judge"} => pc \in {"spawn", "run", "judge"}
    BY <1>6 DEF ConfigError, Spawn, PiiatMemExits, Report, Uncaught, Kill, ExitWith
  <2>3. QED
    BY <2>1, <2>2 DEF VerdictInv, Verdicts, PluginDone, Dest
<1>7. CASE UNCHANGED vars
  BY <1>7 DEF vars, VerdictInv, Verdicts, PluginDone, Dest
<1>8. QED
  BY <1>1, <1>2, <1>3, <1>4, <1>5, <1>6, <1>7 DEF Next, Program

(* When no two images fold to one folder, every verdict of the summary is
   still true when the invocation ends: produced and skipped outputs have
   valid output, failed ones have no file.                                  *)
THEOREM VerdictsAreTrue == Spec => []VerdictsHold
<1>1. CASE FoldersDistinct
  <2>1. Init => VerdictInv
    BY DEF Init, VerdictInv, Verdicts
  <2>2. VerdictInv => VerdictsHold
    BY DEF VerdictInv, VerdictsHold
  <2>3. IInv /\ VerdictInv /\ [Next]_vars => VerdictInv'
    BY <1>1, NextVerdict
  <2>4. QED
    BY <2>1, <2>2, <2>3, AlwaysIInv, PTL DEF Spec
<1>2. CASE ~FoldersDistinct
  <2>1. VerdictsHold
    BY <1>2 DEF VerdictsHold
  <2>2. QED
    BY <2>1, PTL
<1>3. QED
  BY <1>1, <1>2
-----------------------------------------------------------------------------
(* Without PIIAT_FORCE, a valid file the batch is about to judge is one the
   process it waited for has written.                                       *)
NewInv ==
  ~force =>
    /\ stale = {}
    /\ pc = "judge" =>
         \A i \in unjudged :
           plugins[i] \in wrote \/ ~ValidJsonl(file[<<Dest(cur), plugins[i]>>])

LEMMA NextNew == IInv /\ NewInv /\ [Next]_vars => NewInv'
<1> SUFFICES ASSUME IInv, NewInv, [Next]_vars PROVE NewInv'
  OBVIOUS
<1>1. CASE Start
  BY <1>1 DEF Start, NewInv
<1>2. CASE ConfigError \/ Discover \/ BeginImage \/ Spawn \/ PluginWrites
           \/ Report \/ Uncaught \/ Kill
  <2>1. stale' = stale /\ force' = force /\ pc' # "judge"
    BY <1>2 DEF ConfigError, Discover, BeginImage, Spawn, PluginWrites, Report,
                Uncaught, Kill, ExitWith, counters, configVars
  <2> QED
    BY <2>1 DEF NewInv
<1>3. CASE PiiatMemExits
  <2>1. /\ pc = "run" /\ unjudged = todo
        /\ UNCHANGED <<stale, force, unjudged, plugins, wrote, file, cur>>
    BY <1>3 DEF PiiatMemExits, IInv, TurnInv, treeVars, counters, configVars
  <2> QED
    BY <2>1 DEF IInv, TodoInv, NewInv, Dest
<1>4. CASE JudgeValid
  <2>1. PICK i \in unjudged :
           /\ ValidJsonl(file[<<Dest(cur), plugins[i]>>])
           /\ pc = "judge" /\ unjudged' = unjudged \ {i}
           /\ stale' = IF plugins[i] \in wrote THEN stale ELSE stale \cup {<<cur, i>>}
           /\ UNCHANGED <<file, force, plugins, wrote, cur>>
    BY <1>4 DEF JudgeValid, Judge, configVars
  <2> QED
    BY <2>1 DEF NewInv, Dest
<1>5. CASE JudgeEmpty
  <2>1. PICK i \in unjudged :
           /\ pc = "judge" /\ unjudged' = unjudged \ {i}
           /\ file' = [file EXCEPT ![<<Dest(cur), plugins[i]>>] = NoFile]
           /\ UNCHANGED <<stale, force, plugins, wrote, cur>>
    BY <1>5 DEF JudgeEmpty, Judge, configVars
  <2>2. \A o \in Output : ValidJsonl(file'[o]) => ValidJsonl(file[o])
    BY <2>1 DEF IInv, TypeOK, ValidJsonl, NoFile
  <2>3. \A j \in unjudged : <<Dest(cur), plugins[j]>> \in Output
    BY <2>1, CurrentOutput DEF IInv, TypeOK, TurnInv
  <2> QED
    BY <2>1, <2>2, <2>3 DEF NewInv, Dest
<1>6. CASE UNCHANGED vars
  BY <1>6 DEF vars, NewInv, Dest
<1> QED
  BY <1>1, <1>2, <1>3, <1>4, <1>5, <1>6 DEF Next, Program

(* What a run without PIIAT_FORCE counts as newly produced, its own piiat_mem
   process wrote: no file of an earlier run is ever counted.                *)
THEOREM CountedIsNew == Spec => []ProcessedIsNew
<1>1. Init => NewInv
  BY DEF Init, NewInv
<1>2. NewInv => ProcessedIsNew
  BY DEF NewInv, ProcessedIsNew
<1> QED
  BY <1>1, <1>2, NextNew, AlwaysIInv, PTL DEF Spec

-----------------------------------------------------------------------------
(* A valid file was computed from an image of its folder. *)
OwnerInv ==
  \A o \in Output :
    ValidJsonl(file[o]) => file[o].owner \in Image /\ Dest(file[o].owner) = o[1]

LEMMA NextOwner == IInv /\ OwnerInv /\ [Next]_vars => OwnerInv'
<1> SUFFICES ASSUME IInv, OwnerInv, [Next]_vars PROVE OwnerInv'
  OBVIOUS
<1>1. CASE PluginWrites
  <2>1. PICK i \in todo, d \in Data \ {"absent"} :
           file' = [file EXCEPT ![<<Dest(cur), plugins[i]>>] =
                                    [data |-> d, owner |-> cur]]
    BY <1>1 DEF PluginWrites
  <2>2. cur \in Image
    BY <1>1 DEF PluginWrites, IInv, TurnInv, TypeOK
  <2> QED
    BY <2>1, <2>2 DEF IInv, TypeOK, OwnerInv, Dest
<1>2. CASE JudgeEmpty
  <2>1. PICK i \in unjudged :
           file' = [file EXCEPT ![<<Dest(cur), plugins[i]>>] = NoFile]
    BY <1>2 DEF JudgeEmpty
  <2>2. ~ValidJsonl(NoFile)
    BY DEF ValidJsonl, NoFile
  <2> QED
    BY <2>1, <2>2 DEF IInv, TypeOK, OwnerInv, Dest
<1>3. CASE \/ Start \/ ConfigError \/ Discover \/ BeginImage \/ Spawn
           \/ JudgeValid \/ Report \/ Uncaught \/ PiiatMemExits \/ Kill
           \/ UNCHANGED vars
  <2>1. file' = file
    BY <1>3 DEF Start, ConfigError, Discover, BeginImage, Spawn, JudgeValid,
                Report, Uncaught, PiiatMemExits, Kill, ExitWith, treeVars, vars
  <2> QED
    BY <2>1 DEF OwnerInv, Dest
<1> QED
  BY <1>1, <1>2, <1>3 DEF Next, Program

(* Images that fold to folders of their own are never credited with each
   other's output.                                                          *)
THEOREM OutputIsKeptDistinct == Spec => [](FoldersDistinct => OutputOfItsImage)
<1>1. CASE FoldersDistinct
  <2>1. Init => VerdictInv /\ OwnerInv
    BY DEF Init, VerdictInv, Verdicts, OwnerInv, ValidJsonl, NoFile
  <2>2. IInv /\ VerdictInv /\ OwnerInv => OutputOfItsImage
    <3> SUFFICES ASSUME IInv, VerdictInv, OwnerInv, NEW v \in produced \cup kept,
                        <<Dest(v[1]), plugins[v[2]]>> \notin legacy
                 PROVE  file[<<Dest(v[1]), plugins[v[2]]>>].owner = v[1]
      BY DEF OutputOfItsImage
    <3>1. ValidJsonl(file[<<Dest(v[1]), plugins[v[2]]>>])
      BY DEF VerdictInv, PluginDone
    <3>2. v[1] \in Image /\ <<Dest(v[1]), plugins[v[2]]>> \in Output
      BY VerdictType DEF IInv, Verdicts
    <3> QED
      BY <1>1, <3>1, <3>2 DEF OwnerInv, FoldersDistinct
  <2>3. IInv /\ VerdictInv /\ [Next]_vars => VerdictInv'
    BY <1>1, NextVerdict
  <2>4. (IInv /\ VerdictInv /\ OwnerInv => (FoldersDistinct => OutputOfItsImage))
    BY <2>2
  <2> QED
    BY <2>1, <2>3, <2>4, NextOwner, AlwaysIInv, PTL DEF Spec
<1>2. CASE ~FoldersDistinct
  <2>1. FoldersDistinct => OutputOfItsImage
    BY <1>2
  <2> QED
    BY <2>1, PTL
<1> QED
  BY <1>1, <1>2

-----------------------------------------------------------------------------
(* Where the three counters stand during the walk: the images whose turn came
   are accounted for but for what is not judged yet.                        *)
Counted == processed + skipped + failed
CountInv ==
  /\ pc = "check" => Counted = 0
  /\ pc = "loop" => Counted = Cardinality(found \ left) * Len(plugins)
  /\ pc \in {"spawn", "run", "judge"} =>
       Counted + Cardinality(unjudged) = Cardinality(found \ left) * Len(plugins)
  /\ SummaryAddsUp

LEMMA ImagesAreCountable ==
  ASSUME NEW S \in SUBSET Image
  PROVE  IsFiniteSet(S) /\ Cardinality(S) \in Nat
<1>1. IsFiniteSet(Image)
  BY NumImagesAssumption, FS_Interval DEF Image
<1>2. IsFiniteSet(S)
  BY <1>1, FS_Subset
<1> QED
  BY <1>2, FS_CardinalityType

(* The turn of one more image adds a plugin list's length. *)
LEMMA OneMoreTurn ==
  ASSUME NEW m \in Nat, NEW n \in Nat PROVE (m + 1) * n = (m * n) + n
  OBVIOUS

(* The turn of an image counts what it skips; the rest is left to judge. *)
LEMMA TurnCounts ==
  ASSUME TypeOK, CountInv, BeginImage
  PROVE  Counted' + Cardinality(todo') = Cardinality((found \ left)') * Len(plugins)
<1>1. PICK img \in left :
        /\ left' = left \ {img} /\ todo' = Todo(img)
        /\ skipped' = skipped + Cardinality(Position \ todo')
  BY DEF BeginImage
<1>2. /\ pc = "loop" /\ found' = found /\ plugins' = plugins
      /\ processed' = processed /\ failed' = failed
  BY DEF BeginImage, configVars
<1>3. found \ left \in SUBSET Image /\ img \in found \ left'
      /\ img \notin found \ left /\ (found \ left)' = (found \ left) \cup {img}
  BY <1>1, <1>2 DEF TypeOK
<1>4. PICK m \in Nat, n \in Nat : m = Cardinality(found \ left) /\ n = Len(plugins)
  BY <1>3, ImagesAreCountable DEF TypeOK
<1>5. Cardinality((found \ left)') = m + 1
  BY <1>3, <1>4, ImagesAreCountable, FS_AddElement
<1>6. PICK r \in Nat, t \in Nat : r = Cardinality(Position \ todo') /\ t = Cardinality(todo')
  <2>1. Position \ todo' \in SUBSET Position /\ todo' \in SUBSET Position
    BY <1>1 DEF Todo
  <2> QED
    BY <2>1, PositionsAreCountable DEF TypeOK, Position
<1>7. r + t = n
  <2>1. IsFiniteSet(Position) /\ todo' \in SUBSET Position
    BY <1>1, PositionsAreCountable DEF Todo, TypeOK, Position
  <2>2. Position = 1 .. n
    BY <1>4 DEF TypeOK, Position
  <2>3. Cardinality(1 .. n) = IF 1 > n THEN 0 ELSE n - 1 + 1
    BY FS_Interval
  <2>4. Cardinality(Position) = n
    BY <2>2, <2>3
  <2>5. Position \cap todo' = todo'
    BY <2>1
  <2>6. Cardinality(Position \ todo') = Cardinality(Position) - Cardinality(Position \cap todo')
    BY <2>1, FS_Difference
  <2> QED
    BY <1>6, <2>4, <2>5, <2>6
<1>8. Counted = m * n
  BY <1>2, <1>4 DEF CountInv
<1>9. Counted' = Counted + r
  BY <1>1, <1>2, <1>6 DEF Counted, TypeOK
<1>10. m * n \in Nat
  OBVIOUS
<1>11. Counted' + t = (m + 1) * n
  BY <1>7, <1>8, <1>9, <1>10, OneMoreTurn
<1> QED
  BY <1>4, <1>5, <1>6, <1>11

(* Every judgement moves one output from the unjudged to a counter. *)
LEMMA JudgementCounts ==
  ASSUME TypeOK, TurnInv, CountInv, JudgeValid \/ JudgeEmpty
  PROVE  /\ Counted' + Cardinality(unjudged') = Cardinality((found \ left)') * Len(plugins)
         /\ unjudged' = {} => Cardinality(unjudged') = 0
<1>1. PICK i \in unjudged :
        /\ pc = "judge" /\ unjudged' = unjudged \ {i}
        /\ UNCHANGED <<found, left, plugins, skipped>>
  BY DEF JudgeValid, JudgeEmpty, Judge, configVars
<1>2. /\ processed \in Nat /\ failed \in Nat /\ skipped \in Nat
      /\ \/ processed' = processed + 1 /\ failed' = failed
         \/ processed' = processed /\ failed' = failed + 1
  <2>1. CASE JudgeValid
    BY <2>1 DEF JudgeValid, TypeOK
  <2>2. CASE JudgeEmpty
    BY <2>2 DEF JudgeEmpty, TypeOK
  <2> QED
    BY <2>1, <2>2
<1>3. IsFiniteSet(unjudged) /\ Cardinality(unjudged) \in Nat
  BY PositionsAreCountable DEF TypeOK, Position
<1>4. Cardinality(unjudged') = Cardinality(unjudged) - 1
  BY <1>1, <1>3, FS_RemoveElement
<1>5. Counted + Cardinality(unjudged) = Cardinality(found \ left) * Len(plugins)
  BY <1>1 DEF CountInv
<1>6. Counted' = Counted + 1 /\ Counted \in Nat
  BY <1>1, <1>2 DEF Counted
<1>7. Counted' + Cardinality(unjudged') = Counted + Cardinality(unjudged)
  BY <1>3, <1>4, <1>6
<1>8. Cardinality((found \ left)') * Len(plugins) = Cardinality(found \ left) * Len(plugins)
  BY <1>1
<1> QED
  BY <1>5, <1>7, <1>8, FS_EmptySet

LEMMA NextCount == IInv /\ CountInv /\ [Next]_vars => CountInv'
<1> SUFFICES ASSUME IInv, CountInv, [Next]_vars PROVE CountInv'
  OBVIOUS
<1> USE DEF IInv
<1>1. CASE Start
  BY <1>1 DEF Start, CountInv, Counted, SummaryAddsUp, Complete
<1>2. CASE Discover
  <2>1. /\ pc = "check" /\ pc' = "loop" /\ found' = left' /\ plugins' = plugins
        /\ UNCHANGED <<processed, skipped, failed>>
    BY <1>2 DEF Discover, counters
  <2>2. Cardinality((found \ left)') = 0
    BY <2>1, FS_EmptySet
  <2>3. Len(plugins') \in Nat /\ 0 * Len(plugins') = 0
    BY <2>1 DEF TypeOK
  <2>4. Counted' = 0
    BY <2>1 DEF CountInv, Counted
  <2> QED
    BY <2>1, <2>2, <2>3, <2>4 DEF CountInv, SummaryAddsUp, Complete
<1>3. CASE BeginImage
  <2>1. /\ Counted' + Cardinality(todo') = Cardinality((found \ left)') * Len(plugins)
        /\ unjudged' = todo' /\ plugins' = plugins
        /\ pc' = IF todo' = {} THEN "loop" ELSE "spawn"
    BY <1>3, TurnCounts DEF BeginImage, configVars
  <2>2. Counted' \in Nat
    BY Inductive DEF Counted, TypeOK
  <2>3. todo' = {} => Counted' + Cardinality(todo') = Counted'
    BY <2>2, FS_EmptySet
  <2> QED
    BY <2>1, <2>3 DEF CountInv, SummaryAddsUp, Complete
<1>4. CASE JudgeValid \/ JudgeEmpty
  <2>1. /\ Counted' + Cardinality(unjudged') = Cardinality((found \ left)') * Len(plugins)
        /\ unjudged' = {} => Cardinality(unjudged') = 0
    BY <1>4, JudgementCounts
  <2>2. plugins' = plugins /\ pc' = IF unjudged' = {} THEN "loop" ELSE "judge"
    BY <1>4 DEF JudgeValid, JudgeEmpty, Judge, configVars
  <2>3. Counted' \in Nat
    BY Inductive DEF Counted, TypeOK
  <2>4. unjudged' = {} => Counted' + Cardinality(unjudged') = Counted'
    BY <2>1, <2>3
  <2> QED
    BY <2>1, <2>2, <2>4 DEF CountInv, SummaryAddsUp, Complete
<1>5. CASE Report
  <2>1. /\ pc = "loop" /\ pc' = "idle" /\ found \ left = found
        /\ UNCHANGED <<processed, skipped, failed, found, plugins>>
    BY <1>5 DEF Report, ExitWith, counters, configVars
  <2> QED
    BY <2>1 DEF CountInv, SummaryAddsUp, Counted
<1>6. CASE ConfigError \/ Uncaught \/ Kill
  <2>1. pc' = "idle" /\ ~Complete'
    BY <1>6 DEF ConfigError, Uncaught, Kill, ExitWith, Complete
  <2> QED
    BY <2>1 DEF CountInv, SummaryAddsUp
<1>7. CASE Spawn \/ PluginWrites \/ PiiatMemExits
  <2>1. /\ UNCHANGED <<processed, skipped, failed, found, left, plugins, unjudged>>
        /\ pc \in {"spawn", "run"} /\ pc' \in {"run", "judge"}
    BY <1>7 DEF Spawn, PluginWrites, PiiatMemExits, counters, configVars
  <2> QED
    BY <2>1 DEF CountInv, Counted, SummaryAddsUp, Complete
<1>8. CASE UNCHANGED vars
  BY <1>8 DEF vars, CountInv, Counted, SummaryAddsUp, Complete
<1> QED
  BY <1>1, <1>2, <1>3, <1>4, <1>5, <1>6, <1>7, <1>8 DEF Next, Program

LEMMA InitCount == Init => CountInv
  BY DEF Init, CountInv, SummaryAddsUp, Complete

(* The summary accounts for every requested plugin of every image found, once
   each: whatever was done before, a plugin named twice included.           *)
THEOREM SummaryIsComplete == Spec => []SummaryAddsUp
<1>1. CountInv => SummaryAddsUp
  BY DEF CountInv
<1> QED
  BY <1>1, InitCount, NextCount, AlwaysIInv, PTL DEF Spec

-----------------------------------------------------------------------------
(* While nothing was produced or skipped, an image whose turn came has valid
   output only where the process at hand works and the verdict is still due. *)
NothingInv ==
  /\ pc \in {"loop", "spawn", "run", "judge"} /\ processed = 0 /\ skipped = 0 =>
       \A img \in found \ left, i \in Position :
         /\ force \/ <<Dest(img), plugins[i]>> \notin legacy
         /\ ValidJsonl(file[<<Dest(img), plugins[i]>>]) =>
              /\ pc # "loop" /\ Dest(img) = Dest(cur)
              /\ \E j \in unjudged : plugins[j] = plugins[i]
  /\ ExitOneMeansNothing

(* An image that skips nothing runs everything. *)
LEMMA NothingSkipped ==
  ASSUME TypeOK, BeginImage, skipped' = 0
  PROVE  todo' = Position /\ skipped = 0
<1>1. todo' \in SUBSET Position /\ skipped' = skipped + Cardinality(Position \ todo')
  BY DEF BeginImage, Todo
<1>2. PICK S \in SUBSET Position : S = Position \ todo'
  BY <1>1
<1>3. IsFiniteSet(S) /\ Cardinality(S) \in Nat
  BY PositionsAreCountable DEF TypeOK, Position
<1>4. Cardinality(S) = 0 /\ skipped = 0
  BY <1>1, <1>2, <1>3 DEF TypeOK
<1>5. S = {}
  BY <1>3, <1>4, FS_EmptySet
<1> QED
  BY <1>1, <1>2, <1>4, <1>5

(* The turn of an image brings its own plugins, all still to be judged. *)
LEMMA TurnBringsNothing ==
  ASSUME IInv, NothingInv, BeginImage PROVE NothingInv'
<1>1. PICK img \in left : /\ cur' = img /\ left' = left \ {img} /\ todo' = Todo(img)
  BY DEF BeginImage
<1>2. /\ pc = "loop" /\ unjudged' = todo' /\ pc' = IF todo' = {} THEN "loop" ELSE "spawn"
      /\ UNCHANGED <<file, legacy, force, plugins, found, processed>>
  BY DEF BeginImage, treeVars, configVars
<1>3. ASSUME processed' = 0, skipped' = 0, NEW v \in (found \ left)', NEW i \in Position
      PROVE  /\ force \/ <<Dest(v), plugins[i]>> \notin legacy
             /\ ValidJsonl(file[<<Dest(v), plugins[i]>>]) =>
                  /\ pc' # "loop" /\ Dest(v) = Dest(img)
                  /\ \E j \in unjudged' : plugins[j] = plugins[i]
  <2>1. todo' = Position /\ skipped = 0 /\ processed = 0
    BY <1>2, <1>3, NothingSkipped DEF IInv
  <2>2. v = img \/ v \in found \ left
    BY <1>1, <1>2, <1>3
  <2>3. CASE v = img
    BY <1>1, <1>2, <2>1, <2>3 DEF Todo, PluginDone
  <2>4. CASE v \in found \ left
    BY <1>2, <2>1, <2>4 DEF NothingInv
  <2> QED
    BY <2>2, <2>3, <2>4
<1>4. ~Complete'
  BY <1>2 DEF Complete
<1>5. (pc \in {"loop", "spawn", "run", "judge"} /\ processed = 0 /\ skipped = 0 =>
        \A v \in found \ left, i \in Position :
          /\ force \/ <<Dest(v), plugins[i]>> \notin legacy
          /\ ValidJsonl(file[<<Dest(v), plugins[i]>>]) =>
               /\ pc # "loop" /\ Dest(v) = Dest(cur)
               /\ \E j \in unjudged : plugins[j] = plugins[i])'
  BY <1>1, <1>2, <1>3 DEF Position, Dest
<1> QED
  BY <1>4, <1>5 DEF NothingInv, ExitOneMeansNothing

(* A failed output is removed, and with it the last valid one of its name. *)
LEMMA FailureLeavesNothing ==
  ASSUME IInv, NothingInv, JudgeEmpty PROVE NothingInv'
<1>1. PICK i \in unjudged :
        /\ pc = "judge" /\ unjudged' = unjudged \ {i}
        /\ pc' = IF unjudged' = {} THEN "loop" ELSE "judge"
        /\ file' = [file EXCEPT ![<<Dest(cur), plugins[i]>>] = NoFile]
        /\ UNCHANGED <<processed, skipped, legacy, force, plugins, found, left, cur>>
  BY DEF JudgeEmpty, Judge, configVars
<1>2. ~ValidJsonl(NoFile)
  BY DEF ValidJsonl, NoFile
<1>3. ASSUME processed = 0, skipped = 0, NEW v \in found \ left, NEW k \in Position,
             ValidJsonl(file'[<<Dest(v), plugins[k]>>])
      PROVE  /\ pc' # "loop" /\ Dest(v) = Dest(cur)
             /\ \E j \in unjudged' : plugins[j] = plugins[k]
  <2>1. <<Dest(v), plugins[k]>> \in Output
    BY DestType DEF IInv, TypeOK, Position, Output
  <2>2. <<Dest(v), plugins[k]>> # <<Dest(cur), plugins[i]>>
        /\ ValidJsonl(file[<<Dest(v), plugins[k]>>])
    BY <1>1, <1>2, <1>3, <2>1 DEF IInv, TypeOK
  <2>3. Dest(v) = Dest(cur) /\ \E j \in unjudged : plugins[j] = plugins[k]
    BY <1>1, <1>3, <2>2 DEF NothingInv
  <2>4. \E j \in unjudged' : plugins[j] = plugins[k]
    BY <1>1, <2>2, <2>3
  <2> QED
    BY <1>1, <2>3, <2>4
<1>4. ~Complete'
  BY <1>1 DEF Complete
<1>5. \A v \in found \ left, k \in Position : processed = 0 /\ skipped = 0 =>
        force \/ <<Dest(v), plugins[k]>> \notin legacy
  BY <1>1 DEF NothingInv
<1> QED
  BY <1>1, <1>3, <1>4, <1>5 DEF NothingInv, ExitOneMeansNothing, Position, Dest

LEMMA NextNothing == IInv /\ NothingInv /\ [Next]_vars => NothingInv'
<1> SUFFICES ASSUME IInv, NothingInv, [Next]_vars PROVE NothingInv'
  OBVIOUS
<1>1. CASE Start
  BY <1>1 DEF Start, NothingInv, ExitOneMeansNothing, Complete
<1>2. CASE Discover
  BY <1>2 DEF Discover, NothingInv, ExitOneMeansNothing, Complete
<1>3. CASE BeginImage
  BY <1>3, TurnBringsNothing
<1>4. CASE JudgeEmpty
  BY <1>4, FailureLeavesNothing
<1>5. CASE JudgeValid
  <2>1. processed' = processed + 1 /\ processed \in Nat /\ pc' # "idle"
    BY <1>5 DEF JudgeValid, Judge, IInv, TypeOK
  <2>2. processed' # 0 /\ ~Complete'
    BY <2>1 DEF Complete
  <2> QED
    BY <2>2 DEF NothingInv, ExitOneMeansNothing
<1>6. CASE PluginWrites
  <2>1. PICK i \in todo, d \in Data \ {"absent"} :
          file' = [file EXCEPT ![<<Dest(cur), plugins[i]>>] = [data |-> d, owner |-> cur]]
    BY <1>6 DEF PluginWrites
  <2>2. /\ pc = "run" /\ pc' = "run" /\ unjudged = todo
        /\ UNCHANGED <<processed, skipped, legacy, force, plugins, found, left, cur, unjudged>>
    BY <1>6 DEF PluginWrites, counters, configVars, IInv, TurnInv
  <2>3. ASSUME processed = 0, skipped = 0, NEW v \in found \ left, NEW k \in Position,
               ValidJsonl(file'[<<Dest(v), plugins[k]>>])
        PROVE  Dest(v) = Dest(cur) /\ \E j \in unjudged : plugins[j] = plugins[k]
    <3>1. <<Dest(v), plugins[k]>> \in Output
      BY DestType DEF IInv, TypeOK, Position, Output
    <3>2. CASE <<Dest(v), plugins[k]>> = <<Dest(cur), plugins[i]>>
      BY <2>2, <3>2
    <3>3. CASE <<Dest(v), plugins[k]>> # <<Dest(cur), plugins[i]>>
      <4>1. file'[<<Dest(v), plugins[k]>>] = file[<<Dest(v), plugins[k]>>]
        BY <2>1, <3>1, <3>3 DEF IInv, TypeOK
      <4> QED
        BY <2>2, <2>3, <4>1 DEF NothingInv
    <3> QED
      BY <3>2, <3>3
  <2>4. \A v \in found \ left, k \in Position : processed = 0 /\ skipped = 0 =>
          force \/ <<Dest(v), plugins[k]>> \notin legacy
    BY <2>2 DEF NothingInv
  <2>5. ~Complete'
    BY <2>2 DEF Complete
  <2> QED
    BY <2>2, <2>3, <2>4, <2>5 DEF NothingInv, ExitOneMeansNothing, Position, Dest
<1>7. CASE Spawn \/ PiiatMemExits
  <2>1. /\ pc \in {"spawn", "run"} /\ pc' \in {"run", "judge"}
        /\ UNCHANGED <<processed, skipped, legacy, force, plugins, found, left, cur,
                       unjudged, file>>
    BY <1>7 DEF Spawn, PiiatMemExits, treeVars, counters, configVars
  <2>2. ~Complete'
    BY <2>1 DEF Complete
  <2> QED
    BY <2>1, <2>2 DEF NothingInv, ExitOneMeansNothing, Position, Dest
<1>8. CASE Report
  <2>1. /\ pc = "loop" /\ left = {} /\ pc' = "idle" /\ exit' = ExitCode
        /\ UNCHANGED <<legacy, force, plugins, found, file>>
    BY <1>8 DEF Report, ExitWith, treeVars, configVars
  <2>2. exit' = 1 => processed = 0 /\ skipped = 0
    BY <2>1 DEF ExitCode
  <2>3. exit' = 1 => \A img \in found, i \in Position :
          /\ ~ValidJsonl(file[<<Dest(img), plugins[i]>>])
          /\ force \/ <<Dest(img), plugins[i]>> \notin legacy
    BY <2>1, <2>2 DEF NothingInv
  <2> QED
    BY <2>1, <2>3 DEF NothingInv, ExitOneMeansNothing, PluginDone, Position, Dest
<1>9. CASE ConfigError \/ Uncaught \/ Kill
  <2>1. pc' = "idle" /\ ~Complete'
    BY <1>9 DEF ConfigError, Uncaught, Kill, ExitWith, Complete
  <2> QED
    BY <2>1 DEF NothingInv, ExitOneMeansNothing
<1>10. CASE UNCHANGED vars
  BY <1>10 DEF vars, NothingInv, ExitOneMeansNothing, Complete, PluginDone, Position, Dest
<1> QED
  BY <1>1, <1>2, <1>3, <1>4, <1>5, <1>6, <1>7, <1>8, <1>9, <1>10 DEF Next, Program

(* Exit code 1 with a summary is the truth about the output tree, whichever
   images share a folder.                                                   *)
THEOREM OneMeansNothing == Spec => []ExitOneMeansNothing
<1>1. Init => NothingInv
  BY DEF Init, NothingInv, ExitOneMeansNothing, Complete
<1>2. NothingInv => ExitOneMeansNothing
  BY DEF NothingInv
<1> QED
  BY <1>1, <1>2, NextNothing, AlwaysIInv, PTL DEF Spec

-----------------------------------------------------------------------------
(* A counter that is not zero has a verdict behind it, and the exit code of a
   summary is the counters'.                                                *)
CodeInv ==
  /\ processed > 0 => produced # {}
  /\ skipped > 0 => kept # {}
  /\ pc # "idle" => plugins # << >>
  /\ Complete => exit = ExitCode /\ plugins # << >>

LEMMA NextCode == IInv /\ CodeInv /\ [Next]_vars => CodeInv'
<1> SUFFICES ASSUME IInv, CodeInv, [Next]_vars PROVE CodeInv'
  OBVIOUS
<1>1. CASE Start
  BY <1>1, RequestsAssumption DEF Start, CodeInv, Complete
<1>2. CASE BeginImage
  <2>1. PICK img \in left :
          /\ skipped' = skipped + Cardinality(Position \ todo')
          /\ kept' = kept \cup ({img} \X (Position \ todo'))
    BY <1>2 DEF BeginImage
  <2>2. PICK S \in SUBSET Position : S = Position \ todo'
    OBVIOUS
  <2>3. IsFiniteSet(S) /\ Cardinality(S) \in Nat
    BY PositionsAreCountable DEF IInv, TypeOK, Position
  <2>4. S = {} => Cardinality(S) = 0
    BY FS_EmptySet
  <2>5. \A k \in S : <<img, k>> \in kept'
    BY <2>1, <2>2
  <2>6. skipped' > 0 => kept' # {}
    <3>1. CASE S = {}
      <4>1. skipped' = skipped /\ kept \subseteq kept'
        BY <2>1, <2>2, <2>4, <3>1 DEF IInv, TypeOK
      <4> QED
        BY <4>1 DEF CodeInv
    <3>2. CASE S # {}
      BY <2>5, <3>2
    <3> QED
      BY <3>1, <3>2
  <2>7. UNCHANGED <<processed, produced, plugins>> /\ pc = "loop" /\ pc' # "idle"
    BY <1>2 DEF BeginImage, configVars
  <2> QED
    BY <2>6, <2>7 DEF CodeInv, Complete
<1>3. CASE JudgeValid \/ JudgeEmpty
  <2>1. /\ pc = "judge" /\ pc' # "idle" /\ UNCHANGED <<skipped, kept, plugins>>
        /\ produced' # {} \/ UNCHANGED <<processed, produced>>
    BY <1>3 DEF JudgeValid, JudgeEmpty, Judge, configVars
  <2> QED
    BY <2>1 DEF CodeInv, Complete
<1>4. CASE Discover \/ Spawn \/ PluginWrites \/ PiiatMemExits
  <2>1. /\ pc # "idle" /\ pc' # "idle"
        /\ UNCHANGED <<processed, produced, skipped, kept, plugins>>
    BY <1>4 DEF Discover, Spawn, PluginWrites, PiiatMemExits, counters, configVars
  <2> QED
    BY <2>1 DEF CodeInv, Complete
<1>5. CASE Report
  <2>1. /\ pc = "loop" /\ exit' = ExitCode /\ pc' = "idle"
        /\ UNCHANGED <<processed, produced, skipped, failed, kept, plugins>>
    BY <1>5 DEF Report, ExitWith, counters, configVars
  <2> QED
    BY <2>1 DEF CodeInv, ExitCode
<1>6. CASE ConfigError \/ Uncaught \/ Kill
  <2>1. /\ pc' = "idle" /\ ~Complete'
        /\ UNCHANGED <<processed, produced, skipped, kept>>
    BY <1>6 DEF ConfigError, Uncaught, Kill, ExitWith, Complete, counters
  <2> QED
    BY <2>1 DEF CodeInv
<1>7. CASE UNCHANGED vars
  BY <1>7 DEF vars, CodeInv, Complete, ExitCode
<1> QED
  BY <1>1, <1>2, <1>3, <1>4, <1>5, <1>6, <1>7 DEF Next, Program

(* Exit code 0 over a mount with images means requested output is there, when
   every image has a folder of its own.                                     *)
THEOREM ZeroMeansSomething == Spec => []ExitZeroMeansSomething
<1>1. CASE FoldersDistinct
  <2>1. Init => VerdictInv /\ CodeInv
    BY DEF Init, VerdictInv, Verdicts, CodeInv, Complete
  <2>2. IInv /\ VerdictInv /\ CountInv /\ CodeInv => ExitZeroMeansSomething
    <3> SUFFICES ASSUME IInv, VerdictInv, CountInv, CodeInv, Complete, exit = 0, found # {}
                 PROVE  \E img \in found, i \in Position : PluginDone(img, plugins[i])
      BY DEF ExitZeroMeansSomething
    <3>1. PICK m \in Nat, n \in Nat : /\ m = Cardinality(found) /\ n = Len(plugins)
                                      /\ m > 0 /\ n > 0
      <4>1. found \in SUBSET Image
        BY DEF IInv, TypeOK
      <4>2. IsFiniteSet(found) /\ Cardinality(found) \in Nat
        BY <4>1, ImagesAreCountable
      <4>3. Cardinality(found) # 0
        BY <4>2, FS_EmptySet
      <4>4. Len(plugins) \in Nat /\ Len(plugins) # 0
        BY DEF IInv, TypeOK, CodeInv
      <4> QED
        BY <4>2, <4>3, <4>4
    <3>2. m * n > 0
      BY <3>1
    <3>3. processed + skipped + failed > 0
      BY <3>1, <3>2 DEF CountInv, SummaryAddsUp
    <3>4. processed \in Nat /\ skipped \in Nat /\ failed \in Nat
      BY DEF IInv, TypeOK
    <3>5. processed > 0 \/ skipped > 0
      BY <3>3, <3>4 DEF CodeInv, ExitCode
    <3>6. PICK v \in produced \cup kept : TRUE
      BY <3>5 DEF CodeInv
    <3>7. PluginDone(v[1], plugins[v[2]])
      BY <3>6 DEF VerdictInv
    <3> QED
      BY <3>6, <3>7, VerdictType DEF IInv, Verdicts
  <2>3. IInv /\ VerdictInv /\ [Next]_vars => VerdictInv'
    BY <1>1, NextVerdict
  <2> QED
    BY <2>1, <2>2, <2>3, InitCount, NextCount, NextCode, AlwaysIInv, PTL DEF Spec
<1>2. CASE ~FoldersDistinct
  <2>1. ExitZeroMeansSomething
    BY <1>2 DEF ExitZeroMeansSomething
  <2> QED
    BY <2>1, PTL
<1> QED
  BY <1>1, <1>2
=============================================================================
