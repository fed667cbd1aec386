----------------------------- MODULE WxtWorkdir -----------------------------
(***************************************************************************)
(* gowxt's working copies (gowxt/main.go, openActivitiesDB, copyForWork,   *)
(* copyFile).  SQLite wants a writable place, so each database is copied   *)
(* with its -wal and -shm sidecars into the work directory and the copy is *)
(* opened.  The copy is named after the database's base name alone, and    *)
(* Windows gives every user's database the same one.                       *)
(*                                                                         *)
(* The work directory outlives a run that is killed, unless it is a tmpfs  *)
(* of the container.  A copy can fail at any point.                        *)
(***************************************************************************)
EXTENDS Naturals

CONSTANTS
  NumDbs,     \* databases of a run, in path order
  BaseOf,     \* BaseOf[d]: base name of d
  SidesOf,    \* SidesOf[d]: the sidecars that lie beside d
  MaxRuns     \* bound: runs over the work directory

Db == 1 .. NumDbs
NoDb == 0
Side == {"-wal", "-shm"}
Suffix == {""} \cup Side
Base == {BaseOf[d] : d \in Db}

ASSUME DbAssumption == NumDbs \in Nat /\ SidesOf \in [Db -> SUBSET Side]

VARIABLES
  work,       \* work[<<b, s>>]: what the work directory holds under b \o s
  pc,         \* where the program is
  left,       \* databases whose turn has not come
  cur,        \* the database at hand
  todo,       \* the sidecars not copied yet
  immutable,  \* was the source itself opened, read-only and immutable?
  runs,       \* runs so far
  \* History, which no action reads.
  orphaned    \* base names under which a killed run left a copy, or part of one

vars == <<work, pc, left, cur, todo, immutable, runs, orphaned>>

NoFile == [owner |-> NoDb, whole |-> FALSE]
Copy(d, w) == [owner |-> d, whole |-> w]
Content == [owner : Db \cup {NoDb}, whole : BOOLEAN]

Slot(s) == <<BaseOf[cur], s>>

-----------------------------------------------------------------------------

Init ==
  /\ work = [slot \in Base \X Suffix |-> NoFile]
  /\ pc = "idle"
  /\ left = {} /\ cur = NoDb /\ todo = {}
  /\ immutable = FALSE
  /\ runs = 0 /\ orphaned = {}

(* main starts; collectInputs has found some of the databases. *)
Start ==
  /\ pc = "idle" /\ runs < MaxRuns
  /\ runs' = runs + 1
  /\ left' \in SUBSET Db
  /\ pc' = "next"
  /\ UNCHANGED <<work, cur, todo, immutable, orphaned>>

NextDb ==
  /\ pc = "next"
  /\ \E d \in left :
       /\ \A e \in left : d <= e
       /\ left' = left \ {d}
       /\ cur' = d
  /\ todo' = SidesOf[cur']
  /\ immutable' = FALSE
  /\ pc' = "main"
  /\ UNCHANGED <<work, runs, orphaned>>

End ==
  /\ pc = "next" /\ left = {}
  /\ pc' = "idle"
  /\ UNCHANGED <<work, left, cur, todo, immutable, runs, orphaned>>

(* copyFile of the database itself. *)
CopyMain ==
  /\ pc = "main"
  /\ work' = [work EXCEPT ![Slot("")] = Copy(cur, TRUE)]
  /\ pc' = "sides"
  /\ UNCHANGED <<left, cur, todo, immutable, runs, orphaned>>

(* The work directory cannot be made or written to, or the copy breaks off: a
   note says that the source is opened instead, without its -wal.            *)
CopyMainFails ==
  /\ pc = "main"
  /\ \/ work' = work
     \/ work' = [work EXCEPT ![Slot("")] = Copy(cur, FALSE)]
  /\ immutable' = TRUE
  /\ pc' = "open"
  /\ UNCHANGED <<left, cur, todo, runs, orphaned>>

(* copyFile of a sidecar that is there, -wal first; its error is ignored. *)
CopySide ==
  /\ pc = "sides"
  /\ \E s \in todo :
       /\ "-wal" \in todo => s = "-wal"
       /\ todo' = todo \ {s}
       /\ \/ \E whole \in BOOLEAN :
               work' = [work EXCEPT ![Slot(s)] = Copy(cur, whole)]
          \/ work' = work
  /\ UNCHANGED <<pc, left, cur, immutable, runs, orphaned>>

SidesDone ==
  /\ pc = "sides" /\ todo = {}
  /\ pc' = "open"
  /\ UNCHANGED <<work, left, cur, todo, immutable, runs, orphaned>>

(* sql.Open and Ping succeed; the rows are read and emitted. *)
Open ==
  /\ pc = "open"
  /\ pc' = "query"
  /\ UNCHANGED <<work, left, cur, todo, immutable, runs, orphaned>>

(* Mutant: the sidecars of the copy are left behind. *)
CleanedMain ==
  IF immutable THEN work ELSE [work EXCEPT ![Slot("")] = NoFile]

(* cleanup: removes the copy and its sidecars, when the copy was opened. *)
Cleaned ==
  IF immutable THEN work
  ELSE [slot \in DOMAIN work |->
          IF slot[1] = BaseOf[cur] THEN NoFile ELSE work[slot]]

(* Mutant: a database that does not open is not cleaned up. *)
CloseUnclean ==
  /\ pc \in {"open", "query"}
  /\ work' = IF pc = "query" THEN Cleaned ELSE work
  /\ pc' = "next"
  /\ orphaned' = IF immutable THEN orphaned ELSE orphaned \ {BaseOf[cur]}
  /\ UNCHANGED <<left, cur, todo, immutable, runs>>

(* The end of parseDB, whether the query worked or failed; and the error path
   of openActivitiesDB, when the database cannot be opened.                  *)
Close ==
  /\ pc \in {"open", "query"}
  /\ work' = Cleaned
  /\ pc' = "next"
  /\ orphaned' = IF immutable THEN orphaned ELSE orphaned \ {BaseOf[cur]}
  /\ UNCHANGED <<left, cur, todo, immutable, runs>>

Kill ==
  /\ pc # "idle"
  /\ pc' = "idle"
  /\ orphaned' = IF pc \in {"sides", "open", "query"} /\ ~immutable
                 THEN orphaned \cup {BaseOf[cur]} ELSE orphaned
  /\ UNCHANGED <<work, left, cur, todo, immutable, runs>>

Next ==
  \/ Start \/ NextDb \/ End \/ CopyMain \/ CopyMainFails \/ CopySide
  \/ SidesDone \/ Open \/ Close \/ Kill

Spec == Init /\ [][Next]_vars

-----------------------------------------------------------------------------
(* Properties *)

TypeOK ==
  /\ work \in [Base \X Suffix -> Content]
  /\ pc \in {"idle", "next", "main", "sides", "open", "query"}
  /\ left \subseteq Db /\ cur \in Db \cup {NoDb}
  /\ pc \in {"main", "sides", "open", "query"} => cur # NoDb
  /\ todo \subseteq Side
  /\ immutable \in BOOLEAN
  /\ runs \in Nat /\ orphaned \subseteq Base

(* The database the rows are read from is the whole copy of the one at hand,
   under whatever name and after whatever an earlier run left.  A sidecar of
   another database lies beside it only if a killed run has left one under this
   base name, and no copy of that name was closed since.                      *)
ReadsItsOwn ==
  pc = "query" /\ ~immutable =>
    /\ work[Slot("")] = Copy(cur, TRUE)
    /\ BaseOf[cur] \notin orphaned =>
         \A s \in Side : work[Slot(s)].owner \in {cur, NoDb}

(* Between two databases and between runs the work directory holds no copied
   database: only what a copy that broke off, which stderr has a note about,
   left of it; and what a killed run left, until a copy of the same base name
   is closed.                                                                 *)
CleansUp ==
  pc \in {"next", "idle"} =>
    \A slot \in DOMAIN work :
      work[slot] # NoFile =>
        slot[1] \in orphaned \/ (slot[2] = "" /\ ~work[slot].whole)

=============================================================================
