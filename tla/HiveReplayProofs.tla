-------------------------- MODULE HiveReplayProofs --------------------------
(***************************************************************************)
(* Proofs about HiveReplay, for any set of the tools and any number of     *)
(* hives.                                                                  *)
(***************************************************************************)
EXTENDS HiveReplay, TLAPS

(* What is open, and whether a recovered copy exists, at each place of the
   program; and where TMPDIR and stdout are redirected.                      *)
Held ==
  /\ pc = "next" => open = {} /\ copies = {}
  /\ pc = "redirect" => open = {"hive"} \cup logs /\ copies = {}
  /\ pc = "recover" => open = {"hive"} \cup logs /\ copies = {}
  /\ pc = "restore" =>
       /\ open = {"hive"} \cup logs \cup (IF replayed THEN {"recovered"} ELSE {})
       /\ copies = IF replayed THEN {cur} ELSE {}
  /\ pc = "committed" => open = {"hive"} /\ copies = {} /\ ~replayed
  /\ pc = "recovered" => open = {"recovered"} /\ copies = {cur} /\ replayed
  /\ pc = "redirect" => ~replayed
Redirected ==
  pc \in {"next", "redirect", "committed", "recovered", "parse"} =>
    tmpdir = Given /\ ~muted

IInv == TypeOK /\ Held /\ Redirected /\ ParsesTheRightFile

-----------------------------------------------------------------------------

LEMMA InitIInv == Init => IInv
BY ToolAssumption, HivesAssumption
   DEF Init, IInv, TypeOK, Held, Redirected, ParsesTheRightFile, Given, Hive,
       NoHive, setting

LEMMA NotesType ==
  ASSUME TypeOK, pc # "next", NEW step PROVE NotedOn(step) \subseteq Hive
BY DEF TypeOK, NotedOn, Hive, NoHive

LEMMA SettingStays ==
  ASSUME [Next]_vars PROVE UNCHANGED setting
BY DEF Next, vars, OpenFiles, Redirect, RecoverHive, Restore, NewRegistry,
       RegistryFails, Cleanup

LEMMA NextType == TypeOK /\ [Next]_vars => TypeOK'
<1> SUFFICES ASSUME TypeOK, [Next]_vars PROVE TypeOK'
  OBVIOUS
<1>0. (tool \in AllTools /\ replay \in BOOLEAN /\ quiet \in BOOLEAN)'
  BY SettingStays DEF TypeOK, setting
<1>1. CASE OpenFiles
  <2>1. cur' \in Hive /\ cur' # NoHive
    BY <1>1, HivesAssumption DEF OpenFiles, TypeOK, Hive, NoHive
  <2>2. logs' \subseteq Log /\ open' \subseteq {"hive", "recovered"} \cup Log
    BY <1>1 DEF OpenFiles, TypeOK
  <2>3. pc' \in {"next", "committed", "redirect"}
    BY <1>1 DEF OpenFiles
  <2>4. UNCHANGED <<copies, tmpdir, muted, noted, parsedAs>>
        /\ replayed' = FALSE /\ source' = "none"
    BY <1>1 DEF OpenFiles
  <2>5. QED
    BY <1>0, <2>1, <2>2, <2>3, <2>4 DEF TypeOK
<1>2. CASE Redirect
  BY <1>0, <1>2 DEF Redirect, TypeOK
<1>3. CASE RecoverHive
  BY <1>0, <1>3 DEF RecoverHive, TypeOK, Hive, NoHive
<1>4. CASE Restore
  <2>1. noted' \subseteq Hive
    BY <1>4, NotesType DEF Restore
  <2>2. QED
    BY <1>0, <1>4, <2>1 DEF Restore, TypeOK, Given
<1>5. CASE NewRegistry
  <2>1. noted' \subseteq Hive
    BY <1>5, NotesType DEF NewRegistry
  <2>2. QED
    BY <1>0, <1>5, <2>1 DEF NewRegistry, TypeOK
<1>6. CASE RegistryFails
  BY <1>0, <1>6 DEF RegistryFails, TypeOK
<1>7. CASE Cleanup
  <2>1. noted' \subseteq Hive
    BY <1>7, NotesType DEF Cleanup, TypeOK
  <2>2. parsedAs' \in [Hive -> {"none", "committed", "fallback", "recovered"}]
    BY <1>7 DEF Cleanup, TypeOK, Hive, NoHive
  <2>3. QED
    BY <1>0, <1>7, <2>1, <2>2 DEF Cleanup, TypeOK
<1>8. CASE UNCHANGED vars
  BY <1>8 DEF vars, setting, TypeOK
<1>9. QED
  BY <1>1, <1>2, <1>3, <1>4, <1>5, <1>6, <1>7, <1>8 DEF Next

LEMMA NextHeld == IInv /\ [Next]_vars => Held'
<1> SUFFICES ASSUME IInv, [Next]_vars PROVE Held'
  OBVIOUS
<1>1. CASE OpenFiles
  BY <1>1 DEF OpenFiles, IInv, Held
<1>2. CASE Redirect
  BY <1>2 DEF Redirect, IInv, Held
<1>3. CASE RecoverHive
  BY <1>3 DEF RecoverHive, IInv, Held, TypeOK
<1>4. CASE Restore
  <2>1. logs \subseteq Log /\ "hive" \notin Log /\ "recovered" \notin Log
    BY DEF IInv, TypeOK, Log
  <2>2. open' = (IF replayed THEN {"recovered"} ELSE {"hive"})
    BY <1>4, <2>1 DEF Restore, IInv, Held
  <2>3. QED
    BY <1>4, <2>2 DEF Restore, IInv, Held
<1>5. CASE NewRegistry
  BY <1>5 DEF NewRegistry, IInv, Held
<1>6. CASE RegistryFails
  BY <1>6 DEF RegistryFails, IInv, Held
<1>7. CASE Cleanup
  BY <1>7 DEF Cleanup, IInv, ParsesTheRightFile, Held
<1>8. CASE UNCHANGED vars
  BY <1>8 DEF vars, setting, IInv, Held
<1>9. QED
  BY <1>1, <1>2, <1>3, <1>4, <1>5, <1>6, <1>7, <1>8 DEF Next

LEMMA NextRedirected == IInv /\ [Next]_vars => Redirected'
<1> SUFFICES ASSUME IInv, [Next]_vars PROVE Redirected'
  OBVIOUS
<1>0. Given' = Given
  BY SettingStays DEF setting, Given
<1>1. CASE Redirect
  BY <1>1 DEF Redirect, Redirected
<1>2. CASE Restore
  BY <1>0, <1>2 DEF Restore, Redirected
<1>3. CASE OpenFiles \/ RecoverHive
  BY <1>0, <1>3 DEF OpenFiles, RecoverHive, IInv, Redirected
<1>4. CASE NewRegistry \/ RegistryFails \/ Cleanup
  BY <1>0, <1>4 DEF NewRegistry, RegistryFails, Cleanup, IInv, Redirected
<1>5. CASE UNCHANGED vars
  BY <1>0, <1>5 DEF vars, IInv, Redirected
<1>6. QED
  BY <1>1, <1>2, <1>3, <1>4, <1>5 DEF Next

LEMMA NextParses == IInv /\ [Next]_vars => ParsesTheRightFile'
<1> SUFFICES ASSUME IInv, [Next]_vars PROVE ParsesTheRightFile'
  OBVIOUS
<1>1. CASE NewRegistry
  BY <1>1 DEF NewRegistry, IInv, Held, ParsesTheRightFile
<1>2. CASE UNCHANGED vars
  BY <1>2 DEF vars, IInv, ParsesTheRightFile
<1>3. CASE OpenFiles \/ Redirect \/ RecoverHive \/ Restore
  BY <1>3 DEF OpenFiles, Redirect, RecoverHive, Restore, ParsesTheRightFile
<1>4. CASE RegistryFails \/ Cleanup
  BY <1>4 DEF RegistryFails, Cleanup, ParsesTheRightFile
<1>5. QED
  BY <1>1, <1>2, <1>3, <1>4 DEF Next

LEMMA Inductive == Spec => []IInv
<1>1. IInv /\ [Next]_vars => IInv'
  BY NextType, NextHeld, NextRedirected, NextParses DEF IInv
<1>2. QED
  BY InitIInv, <1>1, PTL DEF Spec

-----------------------------------------------------------------------------

(* Every variable keeps its type. *)
THEOREM ReplayTypeCorrect == Spec => []TypeOK
<1>1. IInv => TypeOK
  BY DEF IInv
<1>2. QED
  BY <1>1, Inductive, PTL

(* Between two hives no file is open and no recovered copy is left, and once
   RecoverHive is behind them the TMPDIR and stdout of the process are what they
   were: openHive's error paths leak nothing into the next hive.                *)
THEOREM HivesAreIsolated == Spec => []NothingCarriedOver
<1>1. IInv => NothingCarriedOver
  BY DEF IInv, Held, Redirected, NothingCarriedOver
<1>2. QED
  BY <1>1, Inductive, PTL

(* Records are read from an open file, the recovered copy exactly when the logs
   were replayed.                                                             *)
THEOREM RightFileParsed == Spec => []ParsesTheRightFile
<1>1. IInv => ParsesTheRightFile
  BY DEF IInv
<1>2. QED
  BY <1>1, Inductive, PTL

-----------------------------------------------------------------------------
(* gore and gosbe have noted a fallback when they begin to emit the hive. *)
NotesInv ==
  tool \in {gore, gosbe} =>
    /\ \A h \in Hive : parsedAs[h] = "fallback" => h \in noted
    /\ pc = "parse" /\ FellBack => cur \in noted

LEMMA NextNotes == IInv /\ NotesInv /\ [Next]_vars => NotesInv'
<1> SUFFICES ASSUME IInv, NotesInv, [Next]_vars, tool \in {gore, gosbe}
             PROVE  NotesInv'
  BY SettingStays DEF NotesInv, setting
<1>0. \A step : noted \subseteq NotedOn(step)
  BY DEF NotedOn
<1>1. CASE OpenFiles \/ Redirect \/ RecoverHive \/ RegistryFails
  <2>1. UNCHANGED <<parsedAs, noted>> /\ pc' # "parse"
    BY <1>1 DEF OpenFiles, Redirect, RecoverHive, RegistryFails
  <2> QED
    BY <2>1 DEF NotesInv
<1>2. CASE Restore
  <2>1. parsedAs' = parsedAs /\ noted \subseteq noted' /\ pc' # "parse"
    BY <1>0, <1>2 DEF Restore
  <2> QED
    BY <2>1 DEF NotesInv
<1>3. CASE NewRegistry
  <2>1. UNCHANGED <<parsedAs, logs, replayed, cur>> /\ noted' = NotedOn("open")
    BY <1>3 DEF NewRegistry
  <2>2. tool.notedAt = "open" /\ tool.always
    BY DEF gore, gosbe
  <2>3. FellBack => cur \in noted'
    BY <2>1, <2>2 DEF NotedOn
  <2>4. noted \subseteq noted'
    BY <1>0, <2>1
  <2> QED
    BY <2>1, <2>3, <2>4 DEF NotesInv, FellBack
<1>4. CASE Cleanup
  <2>1. /\ pc = "parse" /\ pc' = "next" /\ noted \subseteq noted'
        /\ \/ parsedAs' = parsedAs
           \/ parsedAs' = [parsedAs EXCEPT ![cur] = IF FellBack THEN "fallback" ELSE source]
    BY <1>0, <1>4 DEF Cleanup
  <2>2. source # "fallback"
    BY DEF IInv, TypeOK
  <2>3. \A h \in Hive : parsedAs'[h] = "fallback" =>
          parsedAs[h] = "fallback" \/ (h = cur /\ FellBack)
    BY <2>1, <2>2 DEF IInv, TypeOK
  <2> QED
    BY <2>1, <2>3 DEF NotesInv
<1>5. CASE UNCHANGED vars
  BY <1>5 DEF vars, NotesInv, FellBack
<1> QED
  BY <1>1, <1>2, <1>3, <1>4, <1>5 DEF Next

(* gore and gosbe never take records from the committed hive in silence when
   its replay failed, whatever -q says.                                       *)
THEOREM FallbacksAreNoted == Spec => []GoreNotesFallback
<1>1. Init => NotesInv
  BY DEF Init, NotesInv
<1>2. NotesInv => GoreNotesFallback
  BY DEF NotesInv, GoreNotesFallback
<1> QED
  BY <1>1, <1>2, NextNotes, Inductive, PTL DEF Spec
=============================================================================
