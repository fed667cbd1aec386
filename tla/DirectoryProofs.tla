--------------------------- MODULE DirectoryProofs ---------------------------
(***************************************************************************)
(* Theorems about the directories below the temporary one that outlive a   *)
(* run: gowxt's work directory (WxtWorkdir), for any databases, base names *)
(* and sidecars, and the launcher's run directories (Launcher), for any    *)
(* images and tools.  The number of runs or launches is arbitrary.         *)
(***************************************************************************)
EXTENDS WxtWorkdir, Launcher, TLAPS

-----------------------------------------------------------------------------
(* WxtWorkdir *)

(* A copy that stderr has no note about is whole until it is closed. *)
OpensAWholeCopy ==
  pc \in {"sides", "open", "query"} /\ ~immutable =>
    work[Slot("")] = Copy(cur, TRUE)

(* What lies in the work directory is part of the copy at hand, the remains of a
   copy that broke off, or under a base name that a killed run was at.        *)
Debris(slot) == slot[2] = "" /\ ~work[slot].whole
OthersAreDebris ==
  \A slot \in DOMAIN work :
    work[slot] # NoFile =>
      \/ Debris(slot)
      \/ slot[1] \in orphaned
      \/ /\ pc \in {"sides", "open", "query"} /\ ~immutable
         /\ slot[1] = BaseOf[cur] /\ work[slot].owner = cur

(* The sources are opened instead of a copy only after CopyMainFails. *)
Flags == pc \in {"main", "sides"} => ~immutable

IInv == TypeOK /\ Flags /\ OpensAWholeCopy /\ OthersAreDebris

-----------------------------------------------------------------------------

LEMMA InitIInv == Init => IInv
<1> SUFFICES ASSUME Init PROVE IInv
  OBVIOUS
<1>1. TypeOK
  <2>1. NoFile \in Content
    BY DEF NoFile, Content
  <2>2. QED
    BY <2>1 DEF Init, TypeOK
<1>2. Flags /\ OpensAWholeCopy
  BY DEF Init, Flags, OpensAWholeCopy
<1>3. OthersAreDebris
  BY DEF Init, OthersAreDebris
<1>4. QED
  BY <1>1, <1>2, <1>3 DEF IInv

LEMMA SlotType ==
  ASSUME TypeOK, cur # NoDb, NEW s \in Suffix
  PROVE  Slot(s) \in DOMAIN work /\ Slot(s)[1] = BaseOf[cur] /\ Slot(s)[2] = s
BY DEF TypeOK, Slot, Base

LEMMA CleanedType == TypeOK => Cleaned \in [Base \X Suffix -> Content]
BY DEF TypeOK, Cleaned, Content, NoFile

LEMMA CopyFields ==
  ASSUME NEW d, NEW w \in BOOLEAN
  PROVE  Copy(d, w).owner = d /\ Copy(d, w).whole = w
BY DEF Copy

LEMMA NextType == TypeOK /\ [Next]_vars => TypeOK'
<1> SUFFICES ASSUME TypeOK, [Next]_vars PROVE TypeOK'
  OBVIOUS
<1>1. CASE Start
  BY <1>1 DEF Start, TypeOK
<1>2. CASE NextDb
  <2>1. cur' \in Db /\ cur' # NoDb /\ left' \subseteq Db
    BY <1>2, DbAssumption DEF NextDb, TypeOK, Db, NoDb
  <2>2. todo' \subseteq Side
    BY <1>2, <2>1, DbAssumption DEF NextDb
  <2>3. QED
    BY <1>2, <2>1, <2>2 DEF NextDb, TypeOK
<1>3. CASE End \/ SidesDone \/ Open
  BY <1>3 DEF End, SidesDone, Open, TypeOK
<1>4. CASE CopyMain
  <2>1. Copy(cur, TRUE) \in Content
    BY DEF TypeOK, Copy, Content
  <2>2. work' \in [Base \X Suffix -> Content]
    BY <1>4, <2>1 DEF CopyMain, TypeOK
  <2>3. QED
    BY <1>4, <2>2 DEF CopyMain, TypeOK
<1>5. CASE CopyMainFails
  <2>1. Copy(cur, FALSE) \in Content
    BY DEF TypeOK, Copy, Content
  <2>2. work' \in [Base \X Suffix -> Content]
    BY <1>5, <2>1 DEF CopyMainFails, TypeOK
  <2>3. QED
    BY <1>5, <2>2 DEF CopyMainFails, TypeOK
<1>6. CASE CopySide
  <2>1. \A whole \in BOOLEAN : Copy(cur, whole) \in Content
    BY DEF TypeOK, Copy, Content
  <2>2. work' \in [Base \X Suffix -> Content]
    BY <1>6, <2>1 DEF CopySide, TypeOK
  <2>3. QED
    BY <1>6, <2>2 DEF CopySide, TypeOK
<1>7. CASE Close
  BY <1>7, CleanedType DEF Close, TypeOK
<1>8. CASE Kill
  <2>1. orphaned' \subseteq Base
    <3>1. pc \in {"sides", "open", "query"} => BaseOf[cur] \in Base
      BY DEF TypeOK, Base
    <3>2. QED
      BY <1>8, <3>1 DEF Kill, TypeOK
  <2>2. QED
    BY <1>8, <2>1 DEF Kill, TypeOK
<1>9. CASE UNCHANGED vars
  BY <1>9 DEF vars, TypeOK
<1>10. QED
  BY <1>1, <1>2, <1>3, <1>4, <1>5, <1>6, <1>7, <1>8, <1>9 DEF Next

LEMMA NextFlags == Flags /\ [Next]_vars => Flags'
BY DEF Next, vars, Start, NextDb, End, CopyMain, CopyMainFails, CopySide,
       SidesDone, Open, Close, Kill, Flags

LEMMA NextWhole == IInv /\ [Next]_vars => OpensAWholeCopy'
<1> SUFFICES ASSUME IInv, [Next]_vars PROVE OpensAWholeCopy'
  OBVIOUS
<1>1. CASE CopyMain
  <2>1. Slot("") \in DOMAIN work
    BY <1>1, SlotType DEF CopyMain, IInv, TypeOK, Suffix
  <2>2. QED
    BY <1>1, <2>1 DEF CopyMain, OpensAWholeCopy, IInv, TypeOK, Slot
<1>2. CASE CopySide
  <2>1. work'[Slot("")] = work[Slot("")]
    <3>1. \A s \in Side : Slot(s) # Slot("")
      BY DEF Slot, Side
    <3>2. Slot("") \in DOMAIN work
      BY <1>2, SlotType DEF CopySide, IInv, TypeOK, Suffix
    <3>3. QED
      BY <1>2, <3>1, <3>2 DEF CopySide, IInv, TypeOK
  <2>2. QED
    BY <1>2, <2>1 DEF CopySide, IInv, OpensAWholeCopy, Slot
<1>3. CASE SidesDone \/ Open \/ UNCHANGED vars
  BY <1>3 DEF SidesDone, Open, vars, IInv, OpensAWholeCopy, Slot
<1>4. CASE CopyMainFails
  BY <1>4 DEF CopyMainFails, OpensAWholeCopy
<1>5. CASE Start \/ NextDb \/ End \/ Close \/ Kill
  BY <1>5 DEF Start, NextDb, End, Close, Kill, OpensAWholeCopy
<1>6. QED
  BY <1>1, <1>2, <1>3, <1>4, <1>5 DEF Next

LEMMA NextDebris == IInv /\ [Next]_vars => OthersAreDebris'
<1> SUFFICES ASSUME IInv, [Next]_vars,
                    NEW slot \in DOMAIN work', work'[slot] # NoFile
             PROVE  \/ slot[2] = "" /\ ~work'[slot].whole
                    \/ slot[1] \in orphaned'
                    \/ /\ pc' \in {"sides", "open", "query"} /\ ~immutable'
                       /\ slot[1] = BaseOf[cur'] /\ work'[slot].owner = cur'
  BY DEF OthersAreDebris, Debris
<1>0. DOMAIN work' = DOMAIN work /\ DOMAIN work = Base \X Suffix
  <2>1. TypeOK'
    BY NextType DEF IInv
  <2>2. QED
    BY <2>1 DEF IInv, TypeOK
<1>1. CASE Start \/ NextDb \/ End
  BY <1>0, <1>1 DEF Start, NextDb, End, IInv, OthersAreDebris, Debris
<1>2. CASE CopyMain
  <2>1. CASE slot = Slot("")
    BY <1>0, <1>2, <2>1 DEF CopyMain, IInv, Flags, Copy, Slot
  <2>2. CASE slot # Slot("")
    BY <1>0, <1>2, <2>2 DEF CopyMain, IInv, OthersAreDebris, Debris
  <2>3. QED
    BY <2>1, <2>2
<1>3. CASE CopyMainFails
  <2>1. CASE slot = Slot("") /\ work' # work
    <3>1. work'[slot] = Copy(cur, FALSE)
      BY <1>0, <1>3, <2>1 DEF CopyMainFails, IInv, TypeOK
    <3>2. slot[2] = ""
      BY <2>1 DEF Slot
    <3>3. QED
      BY <3>1, <3>2, CopyFields, Zenon
  <2>2. CASE slot # Slot("") \/ work' = work
    <3>1. work'[slot] = work[slot]
      BY <1>0, <1>3, <2>2 DEF CopyMainFails, IInv, TypeOK
    <3>2. pc = "main" /\ orphaned' = orphaned
      BY <1>3 DEF CopyMainFails
    <3>3. QED
      BY <1>0, <3>1, <3>2 DEF IInv, OthersAreDebris, Debris
  <2>3. QED
    BY <2>1, <2>2
<1>4. CASE CopySide
  <2>1. PICK s \in todo : \/ \E whole \in BOOLEAN :
                               work' = [work EXCEPT ![Slot(s)] = Copy(cur, whole)]
                          \/ work' = work
    BY <1>4 DEF CopySide
  <2>2. CASE slot = Slot(s) /\ work' # work
    <3>1. PICK whole \in BOOLEAN : work'[slot] = Copy(cur, whole)
      BY <1>0, <2>1, <2>2 DEF IInv, TypeOK
    <3>2. slot[1] = BaseOf[cur]
      BY <2>2 DEF Slot
    <3>3. pc' = "sides" /\ ~immutable' /\ cur' = cur
      BY <1>4 DEF CopySide, IInv, Flags
    <3>4. QED
      BY <3>1, <3>2, <3>3, CopyFields
  <2>3. CASE slot # Slot(s) \/ work' = work
    <3>1. work'[slot] = work[slot]
      BY <1>0, <2>1, <2>3 DEF IInv, TypeOK
    <3>2. UNCHANGED <<pc, immutable, cur, orphaned>>
      BY <1>4 DEF CopySide
    <3>3. QED
      BY <1>0, <3>1, <3>2 DEF IInv, OthersAreDebris, Debris
  <2>4. QED
    BY <2>2, <2>3
<1>5. CASE SidesDone \/ Open \/ UNCHANGED vars
  BY <1>0, <1>5 DEF SidesDone, Open, vars, IInv, OthersAreDebris, Debris
<1>6. CASE Close
  <2>1. CASE immutable
    BY <1>0, <1>6, <2>1 DEF Close, Cleaned, IInv, OthersAreDebris, Debris
  <2>2. CASE ~immutable
    BY <1>0, <1>6, <2>2 DEF Close, Cleaned, IInv, OthersAreDebris, Debris
  <2>3. QED
    BY <2>1, <2>2
<1>7. CASE Kill
  BY <1>0, <1>7 DEF Kill, IInv, OthersAreDebris, Debris
<1>8. QED
  BY <1>1, <1>2, <1>3, <1>4, <1>5, <1>6, <1>7 DEF Next

LEMMA Inductive == Spec => []IInv
<1>1. IInv /\ [Next]_vars => IInv'
  BY NextType, NextFlags, NextWhole, NextDebris DEF IInv
<1>2. QED
  BY InitIInv, <1>1, PTL DEF Spec

-----------------------------------------------------------------------------

(* Every variable keeps its type. *)
THEOREM WorkdirTypeCorrect == Spec => []TypeOK
<1>1. IInv => TypeOK
  BY DEF IInv
<1>2. QED
  BY <1>1, Inductive, PTL

(* The rows of a database are read from its own whole copy, whatever lies in the
   work directory.  Beside it is no sidecar of another database, but for a base
   name under which a killed run left one and no copy was closed since.       *)
THEOREM RowsAreItsOwn == Spec => []ReadsItsOwn
<1>1. IInv => ReadsItsOwn
  <2> SUFFICES ASSUME IInv, pc = "query", ~immutable PROVE
        /\ work[Slot("")] = Copy(cur, TRUE)
        /\ BaseOf[cur] \notin orphaned =>
             \A s \in Side : work[Slot(s)].owner \in {cur, NoDb}
    BY DEF ReadsItsOwn
  <2>1. work[Slot("")] = Copy(cur, TRUE)
    BY DEF IInv, OpensAWholeCopy
  <2>2. ASSUME BaseOf[cur] \notin orphaned, NEW s \in Side
        PROVE  work[Slot(s)].owner \in {cur, NoDb}
    <3>1. Slot(s) \in DOMAIN work /\ Slot(s)[1] = BaseOf[cur] /\ Slot(s)[2] = s /\ s # ""
      BY SlotType DEF IInv, TypeOK, Suffix, Side
    <3>2. CASE work[Slot(s)] = NoFile
      BY <3>2 DEF NoFile
    <3>3. CASE work[Slot(s)] # NoFile
      BY <2>2, <3>1, <3>3 DEF IInv, OthersAreDebris, Debris
    <3>4. QED
      BY <3>2, <3>3
  <2>3. QED
    BY <2>1, <2>2
<1>2. QED
  BY <1>1, Inductive, PTL

(* Between databases and between runs no copied database is in the work
   directory, but under a base name which a killed run was at.            *)
THEOREM WorkdirIsCleaned == Spec => []CleansUp
<1>1. IInv => CleansUp
  BY DEF IInv, OthersAreDebris, Debris, CleansUp
<1>2. QED
  BY <1>1, Inductive, PTL

-----------------------------------------------------------------------------
(* Launcher *)

(* A launch that got past its arguments has the tool that was asked for. *)
ToolIsAsked ==
  stage \in {"clear", "copy", "find", "exec", "running"} =>
    tool \in Tool /\ ToLower[tool] = ToLower[asked]

(* While the copy is made, the run directory holds what was copied so far, and
   when it is searched and the tool started, all of it; nothing else.        *)
HoldsExactly(files) ==
  \A f \in File : dst[RunDir][f] = IF f \in files THEN Whole ELSE Absent
CopyIsExact ==
  /\ stage = "clear" => copied
  /\ stage = "copy" => copied /\ HoldsExactly(FilesOf \ uncopied)
  /\ stage \in {"find", "exec"} /\ copied => HoldsExactly(FilesOf)

LInv == LauncherTypeOK /\ ToolIsAsked /\ CopyIsExact /\ FailsForCause

-----------------------------------------------------------------------------

LEMMA LauncherFacts ==
  /\ Files \in [Image \X Tool -> SUBSET File]
  /\ Dll \in [Tool -> File]
  /\ Nobody \notin Image /\ NoTool \notin Tool
BY NameAssumption, FileAssumption

(* A file of this image's is told apart from none. *)
LEMMA ContentFacts ==
  ASSUME image \in Image
  PROVE  /\ Whole \in FileContent /\ Whole # Absent
         /\ \A whole \in BOOLEAN : [of |-> image, whole |-> whole] \in FileContent
BY LauncherFacts DEF Whole, Absent, FileContent

(* The tool's run directory. *)
LEMMA RunDirFacts ==
  ASSUME LauncherTypeOK, tool \in Tool
  PROVE  /\ RunDir \in DOMAIN dst
         /\ dst[RunDir] \in [File -> FileContent \cup {Absent}]
         /\ FilesOf \in SUBSET File /\ Dll[tool] \in File
BY LauncherFacts DEF LauncherTypeOK, RunDir, FilesOf

(* What a step that writes one file of it leaves. *)
LEMMA WriteFacts ==
  ASSUME LauncherTypeOK, tool \in Tool, NEW f \in File,
         NEW c \in FileContent \cup {Absent},
         dst' = [dst EXCEPT ![RunDir][f] = c]
  PROVE  /\ dst' \in [{ToLower[t] : t \in Tool} -> [File -> FileContent \cup {Absent}]]
         /\ dst'[RunDir][f] = c
         /\ \A g \in File : g # f => dst'[RunDir][g] = dst[RunDir][g]
<1>1. RunDir \in DOMAIN dst /\ dst[RunDir] \in [File -> FileContent \cup {Absent}]
  BY RunDirFacts
<1>2. dst' = [dst EXCEPT ![RunDir] = [dst[RunDir] EXCEPT ![f] = c]]
  OBVIOUS
<1> QED
  BY <1>1, <1>2 DEF LauncherTypeOK

LEMMA InitLInv == LauncherInit => LInv
<1> SUFFICES ASSUME LauncherInit PROVE LInv
  OBVIOUS
<1>1. LauncherTypeOK
  <2>1. Whole \in FileContent
    BY ContentFacts DEF LauncherInit
  <2>2. dst \in [{ToLower[t] : t \in Tool} -> [File -> FileContent \cup {Absent}]]
    BY <2>1 DEF LauncherInit
  <2>3. launches \in 1 .. MaxLaunches
    BY BoundAssumption DEF LauncherInit
  <2> QED
    BY <2>2, <2>3 DEF LauncherInit, LauncherTypeOK
<1> QED
  BY <1>1 DEF LauncherInit, LInv, ToolIsAsked, CopyIsExact, FailsForCause

LEMMA RemoveLInv ==
  ASSUME LInv, Remove
  PROVE  LInv'
<1>1. tool \in Tool /\ image \in Image
  BY DEF LInv, LauncherTypeOK, Remove
<1>2. PICK f \in File : dst' = [dst EXCEPT ![RunDir][f] = Absent]
  BY DEF Remove, Holds
<1>3. dst' \in [{ToLower[t] : t \in Tool} -> [File -> FileContent \cup {Absent}]]
  BY <1>1, <1>2, WriteFacts DEF LInv
<1>4. LauncherTypeOK'
  BY <1>3 DEF LInv, LauncherTypeOK, Remove, chosen, FilesOf
<1> QED
  BY <1>4 DEF LInv, Remove, chosen, ToolIsAsked, CopyIsExact, FailsForCause

(* os.CopyFS never meets a file: the directory holds what it copied itself. *)
LEMMA CopyFileLInv ==
  ASSUME LInv, CopyFile
  PROVE  LInv'
<1>1. /\ tool \in Tool /\ image \in Image /\ uncopied \subseteq FilesOf
      /\ stage = "copy" /\ copied /\ HoldsExactly(FilesOf \ uncopied)
  BY DEF LInv, LauncherTypeOK, CopyFile, CopyIsExact
<1>2. FilesOf \in SUBSET File
  BY <1>1, RunDirFacts DEF LInv
<1>3. PICK f \in uncopied :
        IF dst[RunDir][f] = Absent
        THEN /\ dst' = [dst EXCEPT ![RunDir][f] = Whole]
             /\ uncopied' = uncopied \ {f}
             /\ UNCHANGED <<stage, code>>
        ELSE ExitWith(1) /\ UNCHANGED <<dst, uncopied>>
  BY DEF CopyFile
<1>4. f \in File /\ dst[RunDir][f] = Absent
  BY <1>1, <1>2 DEF HoldsExactly
<1>5. /\ dst' = [dst EXCEPT ![RunDir][f] = Whole] /\ uncopied' = uncopied \ {f}
      /\ stage' = stage /\ code' = code
  BY <1>3, <1>4
<1>6. UNCHANGED <<image, asked, override, tool, copied, rooted, fault, launches>>
  BY DEF CopyFile, chosen
<1>7. Whole \in FileContent
  BY <1>1, ContentFacts
<1>8. /\ dst' \in [{ToLower[t] : t \in Tool} -> [File -> FileContent \cup {Absent}]]
      /\ dst'[RunDir][f] = Whole
      /\ \A g \in File : g # f => dst'[RunDir][g] = dst[RunDir][g]
  BY <1>1, <1>4, <1>5, <1>7, WriteFacts DEF LInv
<1>9. LauncherTypeOK'
  BY <1>1, <1>5, <1>6, <1>8 DEF LInv, LauncherTypeOK, FilesOf
<1>10. HoldsExactly(FilesOf \ uncopied)'
  <2>1. RunDir' = RunDir /\ Whole' = Whole /\ FilesOf' = FilesOf
    BY <1>6 DEF RunDir, Whole, FilesOf
  <2>2. ASSUME NEW g \in File
        PROVE  dst'[RunDir][g] = IF g \in FilesOf \ (uncopied \ {f}) THEN Whole ELSE Absent
    BY <1>1, <1>3, <1>8 DEF HoldsExactly
  <2> QED
    BY <1>5, <2>1, <2>2 DEF HoldsExactly
<1> QED
  BY <1>1, <1>5, <1>6, <1>9, <1>10 DEF LInv, ToolIsAsked, CopyIsExact, FailsForCause

LEMMA CopyFailsLInv ==
  ASSUME LInv, CopyFails
  PROVE  LInv'
<1>1. tool \in Tool /\ image \in Image /\ uncopied \subseteq File
  BY DEF LInv, LauncherTypeOK, CopyFails
<1>2. PICK f \in uncopied, some \in BOOLEAN :
        dst' = [dst EXCEPT ![RunDir][f] =
                  IF some THEN [of |-> image, whole |-> FALSE] ELSE @]
  BY DEF CopyFails
<1>3. f \in File /\ dst[RunDir][f] \in FileContent \cup {Absent}
  BY <1>1, RunDirFacts DEF LInv
<1>4. PICK c \in FileContent \cup {Absent} : dst' = [dst EXCEPT ![RunDir][f] = c]
  <2>1. [of |-> image, whole |-> FALSE] \in FileContent
    BY <1>1, ContentFacts
  <2>2. CASE some
    BY <1>2, <2>1, <2>2
  <2>3. CASE ~some
    BY <1>2, <1>3, <2>3
  <2> QED
    BY <2>2, <2>3
<1>5. dst' \in [{ToLower[t] : t \in Tool} -> [File -> FileContent \cup {Absent}]]
  BY <1>1, <1>3, <1>4, WriteFacts DEF LInv
<1>6. LauncherTypeOK'
  BY <1>5 DEF LInv, LauncherTypeOK, CopyFails, chosen, ExitWith, FilesOf
<1> QED
  BY <1>6 DEF LInv, CopyFails, chosen, ExitWith, ToolIsAsked, CopyIsExact, FailsForCause

LEMMA UnpackLInv ==
  ASSUME LInv, Unpack
  PROVE  LInv'
<1>1. tool \in Tool /\ image \in Image
  BY DEF LInv, LauncherTypeOK, Unpack
<1>2. PICK f \in File, whole \in BOOLEAN :
        dst' = [dst EXCEPT ![RunDir][f] = [of |-> image, whole |-> whole]]
  BY DEF Unpack
<1>3. [of |-> image, whole |-> whole] \in FileContent
  BY <1>1, ContentFacts
<1>4. dst' \in [{ToLower[t] : t \in Tool} -> [File -> FileContent \cup {Absent}]]
  BY <1>1, <1>2, <1>3, WriteFacts DEF LInv
<1>5. LauncherTypeOK'
  BY <1>4 DEF LInv, LauncherTypeOK, Unpack, chosen, FilesOf
<1> QED
  BY <1>5 DEF LInv, Unpack, chosen, ToolIsAsked, CopyIsExact, FailsForCause

(* The copy begins in an empty directory. *)
LEMMA ClearedLInv ==
  ASSUME LInv, Cleared
  PROVE  LInv'
<1>1. tool \in Tool /\ copied
  BY DEF LInv, LauncherTypeOK, Cleared, CopyIsExact
<1>2. FilesOf \in SUBSET File
  BY <1>1, RunDirFacts DEF LInv
<1>3. /\ UNCHANGED <<image, asked, override, tool, copied, dst, rooted, fault, code, launches>>
      /\ stage = "clear" /\ stage' = "copy" /\ uncopied' = FilesOf
  BY DEF Cleared, chosen
<1>4. LauncherTypeOK'
  BY <1>1, <1>2, <1>3 DEF LInv, LauncherTypeOK, FilesOf
<1>5. HoldsExactly(FilesOf \ uncopied)'
  <2>1. \A f \in File : dst[RunDir][f] = Absent
    BY DEF Cleared, Holds
  <2> QED
    BY <1>3, <2>1 DEF HoldsExactly, RunDir, FilesOf
<1> QED
  BY <1>1, <1>3, <1>4, <1>5 DEF LInv, ToolIsAsked, CopyIsExact, FailsForCause

(* When the DLL is not found the image has none. *)
LEMMA FindDLLLInv ==
  ASSUME LInv, FindDLL
  PROVE  LInv'
<1>1. /\ tool \in Tool /\ image \in Image /\ stage = "find"
      /\ copied => HoldsExactly(FilesOf)
  BY DEF LInv, LauncherTypeOK, FindDLL, CopyIsExact
<1>2. UNCHANGED <<image, asked, override, tool, copied, dst, rooted, uncopied, launches>>
  BY DEF FindDLL, chosen
<1>3. ASSUME ~Found PROVE Dll[tool] \notin FilesOf
  <2>1. Whole # Absent /\ Dll[tool] \in File
    BY <1>1, ContentFacts, RunDirFacts DEF LInv
  <2> QED
    BY <1>1, <1>3, <2>1 DEF Found, Holds, HoldsExactly
<1>4. \/ Found /\ stage' = "exec" /\ code' = code /\ fault' = fault
      \/ ~Found /\ stage' = "over" /\ code' = 1 /\ fault' = fault
      \/ stage' = "over" /\ code' = 1 /\ fault' = TRUE
  BY DEF FindDLL, ExitWith
<1>5. LauncherTypeOK'
  <2>1. stage' \in {"exec", "over"} /\ code' \in {0, 1, 64} /\ fault' \in BOOLEAN
    BY <1>4 DEF LInv, LauncherTypeOK
  <2> QED
    BY <1>1, <1>2, <2>1 DEF LInv, LauncherTypeOK
<1>6. ToolIsAsked' /\ CopyIsExact'
  BY <1>1, <1>2, <1>4
  DEF LInv, ToolIsAsked, CopyIsExact, HoldsExactly, RunDir, FilesOf, Whole
<1>7. FailsForCause'
  BY <1>2, <1>3, <1>4 DEF FailsForCause, FilesOf
<1> QED
  BY <1>5, <1>6, <1>7 DEF LInv

LEMMA CopiedLInv ==
  ASSUME LInv, Copied
  PROVE  LInv'
<1>1. /\ UNCHANGED <<image, asked, override, tool, copied, dst, rooted, uncopied, fault, code, launches>>
      /\ stage = "copy" /\ stage' = "find" /\ uncopied = {}
  BY DEF Copied, chosen
<1>2. LauncherTypeOK'
  BY <1>1 DEF LInv, LauncherTypeOK, FilesOf
<1> QED
  BY <1>1, <1>2
  DEF LInv, ToolIsAsked, CopyIsExact, HoldsExactly, FailsForCause, RunDir, FilesOf, Whole

LEMMA ChooseLInv ==
  ASSUME LInv, Choose
  PROVE  LInv'
<1>1. PICK t \in Tool :
        /\ ToLower[t] = ToLower[asked]
        /\ tool' = t /\ copied' = FromTmp(t)
        /\ stage' = IF FromTmp(t) THEN "clear" ELSE "find"
  BY DEF Choose
<1>2. UNCHANGED <<image, asked, override, dst, rooted, uncopied, fault, code, launches>>
  BY DEF Choose
<1>3. FromTmp(t) \in BOOLEAN
  BY DEF FromTmp
<1>4. LauncherTypeOK'
  BY <1>1, <1>2, <1>3 DEF LInv, LauncherTypeOK
<1> QED
  BY <1>1, <1>2, <1>3, <1>4 DEF LInv, ToolIsAsked, CopyIsExact, FailsForCause

(* The steps that end the launch, or begin another. *)
LEMMA EndsLInv ==
  ASSUME LInv, Usage \/ UnknownTool \/ RemoveFails \/ Exec \/ Restart
  PROVE  LInv'
<1>1. CASE Usage \/ UnknownTool \/ RemoveFails
  <2>1. UNCHANGED <<image, asked, override, tool, copied, dst, rooted, uncopied, launches>>
    BY <1>1, Zenon DEF Usage, UnknownTool, RemoveFails, chosen
  <2>2. stage' = "over" /\ code' \in {0, 1, 64}
    BY <1>1 DEF Usage, UnknownTool, RemoveFails, ExitWith
  <2>3. fault' \in BOOLEAN
    BY <1>1 DEF Usage, UnknownTool, RemoveFails, LInv, LauncherTypeOK
  <2>4. code' = 1 => copied /\ (fault' \/ RunDir \in rooted)
    <3>1. CASE Usage \/ UnknownTool
      BY <3>1 DEF Usage, UnknownTool, ExitWith
    <3>2. CASE RemoveFails
      BY <3>2 DEF RemoveFails, LInv, CopyIsExact
    <3> QED
      BY <1>1, <3>1, <3>2
  <2>5. LauncherTypeOK'
    BY <2>1, <2>2, <2>3 DEF LInv, LauncherTypeOK
  <2>6. FailsForCause'
    BY <2>1, <2>4 DEF FailsForCause, RunDir
  <2> QED
    BY <2>2, <2>5, <2>6 DEF LInv, ToolIsAsked, CopyIsExact
<1>2. CASE Exec
  BY <1>2
  DEF LInv, Exec, ExitWith, chosen, LauncherTypeOK, FilesOf, ToolIsAsked, CopyIsExact,
      FailsForCause
<1>3. CASE Restart
  <2>1. /\ stage' = "start" /\ code' = 0 /\ tool' = NoTool /\ copied' \in BOOLEAN
        /\ uncopied' = {} /\ fault' \in BOOLEAN /\ dst' = dst /\ rooted' = rooted
        /\ image' \in Image /\ asked' \in Asked /\ override' \in Override
    BY <1>3 DEF Restart
  <2>2. launches' \in 1 .. MaxLaunches
    BY <1>3, BoundAssumption DEF LInv, LauncherTypeOK, Restart
  <2>3. LauncherTypeOK'
    BY <2>1, <2>2 DEF LInv, LauncherTypeOK
  <2> QED
    BY <2>1, <2>3 DEF LInv, ToolIsAsked, CopyIsExact, FailsForCause
<1> QED
  BY <1>1, <1>2, <1>3

LEMMA LauncherInductive == LauncherSpec => []LInv
<1>1. LInv /\ [LauncherNext]_launcherVars => LInv'
  <2>1. ASSUME LInv, UNCHANGED launcherVars PROVE LInv'
    <3>1. UNCHANGED <<image, asked, override, tool, copied, dst, rooted, uncopied, fault,
                      stage, code, launches>>
      BY <2>1 DEF launcherVars, chosen
    <3>2. LauncherTypeOK'
      BY <2>1, <3>1, Zenon DEF LInv, LauncherTypeOK, FilesOf
    <3>3. ToolIsAsked' /\ CopyIsExact' /\ FailsForCause'
      BY <2>1, <3>1, Zenon
      DEF LInv, ToolIsAsked, CopyIsExact, HoldsExactly, FailsForCause, RunDir, FilesOf, Whole
    <3> QED
      BY <3>2, <3>3 DEF LInv
  <2> QED
    BY <2>1, RemoveLInv, CopyFileLInv, CopyFailsLInv, UnpackLInv, ClearedLInv,
       FindDLLLInv, CopiedLInv, ChooseLInv, EndsLInv DEF LauncherNext
<1> QED
  BY <1>1, InitLInv, PTL DEF LauncherSpec

(* The variables keep their types, over any number of launches. *)
THEOREM LauncherTypeCorrect == LauncherSpec => []LauncherTypeOK
<1>1. LInv => LauncherTypeOK
  BY DEF LInv
<1> QED
  BY <1>1, LauncherInductive, PTL

(* Whatever earlier launches, of whatever images, left in $TMPDIR, and wherever
   they were killed: what is executed there is the tool that was asked for,
   every file of this image's and nothing else.                              *)
THEOREM CopyIsTheTool == LauncherSpec => []RunsWhatItCopied
<1>1. LInv => RunsWhatItCopied
  BY DEF LInv, ToolIsAsked, CopyIsExact, HoldsExactly, RunsWhatItCopied
<1> QED
  BY <1>1, LauncherInductive, PTL

(* No leftover of uid 2000's makes a launch fail: os.CopyFS never meets a file,
   and a DLL that is not found is one the image does not have.  Only what the
   build left as root does, by the removal.                                  *)
THEOREM LeftoversDoNoHarm == LauncherSpec => []FailsForCause
<1>1. LInv => FailsForCause
  BY DEF LInv
<1> QED
  BY <1>1, LauncherInductive, PTL
==============================================================================
