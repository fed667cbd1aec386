--------------------------- MODULE GoeseDumpProofs ---------------------------
(***************************************************************************)
(* Theorems about GoeseDump, for any databases, tables, aliases and values *)
(* of -t.  That the output survives needs names that the naming rules keep *)
(* apart (NamesApart).                                                     *)
(***************************************************************************)
EXTENDS GoeseDump, WellFoundedInduction, TLAPS

-----------------------------------------------------------------------------
(* Sequences *)

LEMMA LeastNat ==
  ASSUME NEW S \in SUBSET Nat, S # {}
  PROVE  \E m \in S : \A k \in S : m <= k
<1> DEFINE less == OpToRel(<, Nat)
<1>1. IsWellFoundedOn(less, Nat)
  BY NatLessThanWellFounded
<1>2. less = {p \in Nat \X Nat : p[1] < p[2]}
  BY DEF OpToRel
<1> HIDE DEF less
<1>3. PICK m \in S : \A k \in S : ~ (<<k, m>> \in less)
  BY <1>1, WFMin, Zenon
<1>4. ASSUME NEW k \in S PROVE m <= k
  <2>1. <<k, m>> \notin less
    BY <1>3
  <2> QED
    BY <1>2, <2>1
<1> QED
  BY <1>4

(* The prefixes of Without, as a function of their length. *)
Prefixes(s, S, f) ==
  f = [i \in 0 .. Len(s) |->
         IF i = 0 THEN << >>
         ELSE IF s[i] \in S THEN f[i - 1] ELSE Append(f[i - 1], s[i])]

(* There is such a function: a shortest sequence without one would be one
   element longer than a sequence that has one.                              *)
LEMMA PrefixesExist ==
  ASSUME NEW X, NEW s \in Seq(X), NEW S
  PROVE  \E f : Prefixes(s, S, f)
<1> DEFINE Step(i, t) == IF s[i] \in S THEN t ELSE Append(t, s[i])
           Good(n, f) == \A i \in 0 .. n : f[i] = IF i = 0 THEN << >> ELSE Step(i, f[i - 1])
           bad == {n \in Nat : n <= Len(s) /\ ~ \E f \in [0 .. n -> Seq(X)] : Good(n, f)}
<1>0. Len(s) \in Nat /\ DOMAIN s = 1 .. Len(s)
  OBVIOUS
<1>1. bad = {}
  <2> SUFFICES ASSUME bad # {} PROVE FALSE
    OBVIOUS
  <2>1. PICK m \in bad : \A k \in bad : m <= k
    <3>1. bad \in SUBSET Nat
      OBVIOUS
    <3> HIDE DEF bad
    <3> QED
      BY <3>1, LeastNat
  <2>2. m \in Nat /\ m <= Len(s) /\ ~ \E f \in [0 .. m -> Seq(X)] : Good(m, f)
    OBVIOUS
  <2>3. CASE m = 0
    <3>1. [i \in 0 .. 0 |-> << >>] \in [0 .. m -> Seq(X)]
      BY <2>3
    <3>2. Good(m, [i \in 0 .. 0 |-> << >>])
      BY <2>3
    <3> QED
      BY <2>2, <3>1, <3>2
  <2>4. CASE m # 0
    <3>1. m - 1 \in Nat /\ m - 1 <= Len(s) /\ m - 1 \notin bad
      <4>1. m - 1 \in Nat /\ m - 1 <= Len(s) /\ ~ (m <= m - 1)
        BY <1>0, <2>2, <2>4
      <4> HIDE DEF bad
      <4> QED
        BY <2>1, <4>1
    <3>2. PICK f \in [0 .. m - 1 -> Seq(X)] : Good(m - 1, f)
      BY <3>1
    <3> DEFINE g == [i \in 0 .. m |-> IF i = m THEN Step(m, f[m - 1]) ELSE f[i]]
    <3>3. s[m] \in X /\ f[m - 1] \in Seq(X)
      BY <1>0, <2>2, <2>4, <3>1
    <3>4. Step(m, f[m - 1]) \in Seq(X)
      BY <3>3
    <3>5. g \in [0 .. m -> Seq(X)]
      BY <2>2, <3>2, <3>4
    <3>6. ASSUME NEW i \in 0 .. m
          PROVE  g[i] = IF i = 0 THEN << >> ELSE Step(i, g[i - 1])
      <4>1. CASE i = m
        BY <2>2, <2>4, <4>1
      <4>2. CASE i # m
        <5>1. i \in 0 .. m - 1 /\ g[i] = f[i] /\ (i # 0 => i - 1 \in 0 .. m /\ g[i - 1] = f[i - 1])
          BY <2>2, <4>2
        <5>2. f[i] = IF i = 0 THEN << >> ELSE Step(i, f[i - 1])
          BY <3>2, <5>1
        <5> QED
          BY <5>1, <5>2
      <4> QED
        BY <4>1, <4>2
    <3>7. Good(m, g)
      BY <3>6
    <3> QED
      BY <2>2, <3>5, <3>7
  <2> QED
    BY <2>3, <2>4
<1>2. PICK f \in [0 .. Len(s) -> Seq(X)] : Good(Len(s), f)
  <2>1. Len(s) \notin bad
    BY <1>1
  <2> QED
    BY <1>0, <2>1
<1>3. Prefixes(s, S, f)
  <2>1. \A i \in 0 .. Len(s) :
          f[i] = IF i = 0 THEN << >>
                 ELSE IF s[i] \in S THEN f[i - 1] ELSE Append(f[i - 1], s[i])
    BY <1>2
  <2>2. f = [i \in 0 .. Len(s) |-> f[i]]
    BY <1>2
  <2> QED
    BY <2>1, <2>2, Zenon DEF Prefixes
<1> QED
  BY <1>3

(* Without leaves a sequence of elements that are not in the set. *)
LEMMA WithoutFacts ==
  ASSUME NEW X, NEW s \in Seq(X), NEW S
  PROVE  Without(s, S) \in Seq(X \ S)
<1> DEFINE f == CHOOSE g : Prefixes(s, S, g)
<1>0. Len(s) \in Nat /\ DOMAIN s = 1 .. Len(s)
  OBVIOUS
<1>1. Prefixes(s, S, f)
  BY PrefixesExist, Zenon
<1>2. Without(s, S) = f[Len(s)]
  BY DEF Without, Prefixes
<1> HIDE DEF f
<1>3. \A i \in 0 .. Len(s) :
        f[i] = IF i = 0 THEN << >>
               ELSE IF s[i] \in S THEN f[i - 1] ELSE Append(f[i - 1], s[i])
  BY <1>1 DEF Prefixes
<1> DEFINE bad == {n \in Nat : n <= Len(s) /\ f[n] \notin Seq(X \ S)}
<1>4. bad = {}
  <2> SUFFICES ASSUME bad # {} PROVE FALSE
    OBVIOUS
  <2>1. PICK m \in bad : \A k \in bad : m <= k
    <3>1. bad \in SUBSET Nat
      OBVIOUS
    <3> HIDE DEF bad
    <3> QED
      BY <3>1, LeastNat
  <2>2. m \in Nat /\ m <= Len(s) /\ f[m] \notin Seq(X \ S)
    OBVIOUS
  <2>3. m # 0
    <3>1. f[0] = << >>
      BY <1>0, <1>3
    <3>2. << >> \in Seq(X \ S)
      OBVIOUS
    <3> QED
      BY <2>2, <3>1, <3>2, Zenon
  <2>4. f[m - 1] \in Seq(X \ S) /\ s[m] \in X
    <3>1. m - 1 \notin bad
      BY <2>1, <2>2, <2>3
    <3> QED
      BY <1>0, <2>2, <2>3, <3>1
  <2>5. f[m] = IF s[m] \in S THEN f[m - 1] ELSE Append(f[m - 1], s[m])
    BY <1>0, <1>3, <2>2, <2>3
  <2> QED
    BY <2>2, <2>4, <2>5
<1> QED
  BY <1>0, <1>2, <1>4

-----------------------------------------------------------------------------
(* Names *)

LEMMA SequenceWidens ==
  ASSUME NEW X, NEW Y, X \subseteq Y, NEW s \in Seq(X)
  PROVE  s \in Seq(Y)
OBVIOUS

(* What names are made of. *)
Char == STRING \cup {"SRUM", "SUM", "_", "-"} \cup {Digits[n] : n \in 1 .. 9}

LEMMA ConstantFacts ==
  /\ NumDbs \in Nat /\ NumDbs >= 1 /\ NumDbs <= 9
  /\ \A n \in 1 .. NumDbs : Digits[n] \in Char
  /\ \A n, m \in 1 .. NumDbs : Digits[n] = Digits[m] => n = m
  /\ \A d \in Db : /\ KindOf[d] \in Char /\ StemOf[d] \in Seq(Char)
                   /\ TablesOf[d] \in Seq(Seq(Char)) /\ Catalog(d) \subseteq Seq(Char)
<1>1. Len(Digits) = 9 /\ \A n \in 1 .. 9 : Digits[n] \in Char
  <2>1. Len(Digits) = 9
    BY DEF Digits
  <2> QED
    BY <2>1 DEF Char
<1>2. \A n, m \in 1 .. 9 : Digits[n] = Digits[m] => n = m
  BY DEF Digits
<1>3. NumDbs \in Nat /\ NumDbs >= 1 /\ NumDbs <= 9
  BY <1>1, DbsAssumption
<1>4. ASSUME NEW d \in Db
      PROVE  /\ KindOf[d] \in Char /\ StemOf[d] \in Seq(Char)
             /\ TablesOf[d] \in Seq(Seq(Char)) /\ Catalog(d) \subseteq Seq(Char)
  <2>1. StemOf[d] \in Seq(Char) /\ TablesOf[d] \in Seq(Seq(Char))
    <3>1. StemOf[d] \in Seq(STRING) /\ TablesOf[d] \in Seq(Seq(STRING))
      BY DbsAssumption
    <3>2. STRING \subseteq Char
      BY DEF Char
    <3>3. Seq(STRING) \subseteq Seq(Char)
      BY <3>2, SequenceWidens
    <3> QED
      BY <3>1, <3>2, <3>3, SequenceWidens
  <2>2. KindOf[d] \in Char
    <3>1. KindOf[d] \in {"SRUM", "SUM"}
      BY DbsAssumption
    <3> QED
      BY <3>1 DEF Char
  <2>4. ASSUME NEW i \in DOMAIN TablesOf[d] PROVE TablesOf[d][i] \in Seq(Char)
    BY <2>1
  <2> QED
    BY <2>1, <2>2, <2>4 DEF Catalog
<1> QED
  BY <1>1, <1>2, <1>3, <1>4

LEMMA SafeNameType ==
  ASSUME NEW name \in Seq(Char)
  PROVE  SafeName(name) \in Seq(Char)
<1>1. PICK bare : bare = Without(name, {"{", "}"})
  OBVIOUS
<1>2. bare \in Seq(Char)
  <2>1. bare \in Seq(Char \ {"{", "}"})
    BY <1>1, WithoutFacts
  <2> QED
    BY <2>1, SequenceWidens
<1>3. PICK folded : folded = {"/", "\\", " "}
  OBVIOUS
<1>4. [i \in DOMAIN bare |-> IF bare[i] \in folded THEN "_" ELSE bare[i]] \in Seq(Char)
  <2>1. Len(bare) \in Nat /\ DOMAIN bare = 1 .. Len(bare)
    BY <1>2
  <2>2. "_" \in Char
    BY DEF Char
  <2>3. \A i \in 1 .. Len(bare) : bare[i] \in Char
    BY <1>2
  <2>4. PICK n \in Nat : n = Len(bare)
    BY <2>1
  <2>5. [i \in 1 .. n |-> IF bare[i] \in folded THEN "_" ELSE bare[i]] \in [1 .. n -> Char]
    <3>1. \A i \in 1 .. n : (IF bare[i] \in folded THEN "_" ELSE bare[i]) \in Char
      BY <2>2, <2>3, <2>4
    <3> QED
      BY <3>1
  <2>6. [1 .. n -> Char] \subseteq Seq(Char)
    OBVIOUS
  <2> QED
    BY <2>1, <2>4, <2>5, <2>6
<1>5. CASE name \in DOMAIN Alias
  <2>1. SafeName(name) \in Seq(STRING)
    BY <1>5, DbsAssumption, Zenon DEF SafeName
  <2>2. STRING \subseteq Char
    BY DEF Char
  <2> QED
    BY <2>1, <2>2, SequenceWidens
<1>6. CASE name \notin DOMAIN Alias
  BY <1>1, <1>3, <1>4, <1>6, Zenon DEF SafeName
<1> QED
  BY <1>5, <1>6

LEMMA BaseNameType ==
  ASSUME NEW d \in Db
  PROVE  BaseName(d) \in Seq(Char)
<1>1. SafeName(StemOf[d]) \in Seq(Char) /\ KindOf[d] \in Char
  BY ConstantFacts, SafeNameType
<1>2. <<KindOf[d]>> \in Seq(Char)
  BY <1>1
<1> HIDE DEF SafeName
<1> QED
  BY <1>1, <1>2 DEF BaseName

(* A number behind a name can be read off again. *)
LEMMA NumberedNames ==
  ASSUME NEW s \in Seq(Char), NEW t \in Seq(Char), NEW a \in Char, NEW b \in Char,
         s \o <<"-", a>> = t \o <<"-", b>>
  PROVE  s = t /\ a = b
<1> DEFINE u == s \o <<"-", a>>
           v == t \o <<"-", b>>
<1>1. /\ Len(u) = Len(s) + 2 /\ \A i \in 1 .. Len(s) : u[i] = s[i]
      /\ u[Len(s) + 2] = a
  OBVIOUS
<1>2. /\ Len(v) = Len(t) + 2 /\ \A i \in 1 .. Len(t) : v[i] = t[i]
      /\ v[Len(t) + 2] = b
  OBVIOUS
<1>3. u = v
  OBVIOUS
<1>4. Len(s) \in Nat /\ Len(t) \in Nat
  OBVIOUS
<1> HIDE DEF u, v
<1>5. Len(s) = Len(t)
  BY <1>1, <1>2, <1>3, <1>4
<1>6. a = b /\ \A i \in 1 .. Len(s) : s[i] = t[i]
  BY <1>1, <1>2, <1>3, <1>5
<1> QED
  BY <1>5, <1>6

(* The directories of two databases, or of one under two numbers, differ. *)
LEMMA DirectoriesApart ==
  ASSUME NamesApart, NEW d \in Db, NEW e \in Db,
         NEW n \in 1 .. NumDbs, NEW m \in 1 .. NumDbs, DbSubdir(d, n) = DbSubdir(e, m)
  PROVE  BaseName(d) = BaseName(e) /\ n = m
<1>1. /\ BaseName(d) \in Seq(Char) /\ BaseName(e) \in Seq(Char)
      /\ Digits[n] \in Char /\ Digits[m] \in Char
      /\ Digits[n] = Digits[m] => n = m
      /\ NumDbs \in Nat
  BY BaseNameType, ConstantFacts
<1>2. /\ DbSubdir(d, n) = IF n = 1 THEN BaseName(d) ELSE BaseName(d) \o <<"-", Digits[n]>>
      /\ DbSubdir(e, m) = IF m = 1 THEN BaseName(e) ELSE BaseName(e) \o <<"-", Digits[m]>>
  BY DEF DbSubdir, BaseName
<1>3. CASE n = 1 /\ m = 1
  BY <1>2, <1>3
<1>4. CASE n = 1 /\ m # 1
  <2>1. m \in 2 .. NumDbs
    BY <1>1, <1>4
  <2> QED
    BY <1>2, <1>4, <2>1 DEF NamesApart
<1>5. CASE n # 1 /\ m = 1
  <2>1. n \in 2 .. NumDbs
    BY <1>1, <1>5
  <2> QED
    BY <1>2, <1>5, <2>1 DEF NamesApart
<1>6. CASE n # 1 /\ m # 1
  <2>1. BaseName(d) \o <<"-", Digits[n]>> = BaseName(e) \o <<"-", Digits[m]>>
    BY <1>2, <1>6
  <2>2. BaseName(d) = BaseName(e) /\ Digits[n] = Digits[m]
    BY <1>1, <2>1, NumberedNames
  <2> QED
    BY <1>1, <2>2
<1> QED
  BY <1>3, <1>4, <1>5, <1>6

(* What is selected is in the catalog. *)
LEMMA SelectedType ==
  ASSUME NEW d \in Db, NEW wants \in Requests
  PROVE  Selected(d, wants) \in Seq(Catalog(d))
<1>1. CASE wants = << >>
  <2>1. TablesOf[d] \in Seq(Catalog(d))
    <3>1. TablesOf[d] \in Seq(Seq(Char))
      BY ConstantFacts
    <3> QED
      BY <3>1 DEF Catalog
  <2> DEFINE System == {t \in Catalog(d) : SystemTable(t)}
  <2>2. Without(TablesOf[d], System) \in Seq(Catalog(d) \ System)
    <3> HIDE DEF System
    <3> QED
      BY <2>1, WithoutFacts
  <2>3. Without(TablesOf[d], System) \in Seq(Catalog(d))
    <3> HIDE DEF System
    <3> QED
      BY <2>2
  <2> QED
    BY <1>1, <2>3 DEF Selected, UserTables
<1>2. CASE wants # << >>
  <2> DEFINE all == {Resolve(wants[i]) : i \in DOMAIN wants}
  <2>1. Resolved(wants) \in Seq(all)
    <3>1. wants \in Seq(Seq(STRING))
      BY DbsAssumption
    <3> QED
      BY <3>1 DEF Resolved
  <2> HIDE DEF all
  <2>2. Without(Resolved(wants), all \ Catalog(d)) \in Seq(all \ (all \ Catalog(d)))
    BY <2>1, WithoutFacts
  <2>3. Without(Resolved(wants), all \ Catalog(d)) \in Seq(Catalog(d))
    BY <2>2
  <2> QED
    BY <1>2, <2>3 DEF Selected, all
<1> QED
  BY <1>1, <1>2

-----------------------------------------------------------------------------
(* The inductive invariant *)

(* A database and one of its tables. *)
Pairs == UNION {{d} \X Catalog(d) : d \in Db}
Entries == {NoFile} \cup [owner : Pairs, whole : BOOLEAN]
Busy == pc \in {"open", "tables", "rows"}

(* The kinds of values, and what the numbering of directories and databases
   needs to stay within them: databases come in their order, so at most one
   directory has been asked for, and one failure counted, for each so far.   *)
TypeInv ==
  /\ dirMode \in BOOLEAN /\ request \in Requests
  /\ pc \in {"scan", "next", "open", "tables", "rows", "done"}
  /\ found \subseteq Db /\ left \subseteq found /\ cur \in found \cup {NoDb}
  /\ refused \subseteq found
  /\ \A d \in left : cur < d
  /\ sub \in Subdirs
  /\ used \in [{BaseName(d) : d \in Db} -> Nat]
  /\ \A name \in DOMAIN used : used[name] <= cur
  /\ file \in [Subdirs \X FileNames -> Entries]
  /\ failedDbs \in Nat /\ failedDbs <= cur /\ failedTables \in Nat
  /\ exit \in {Running, 0, 1, 2}

(* The database at hand and its queue. *)
TurnInv ==
  /\ pc = "scan" => cur = NoDb /\ found = {}
  /\ Busy => cur \in found
  /\ pc = "open" => failedDbs < cur
  /\ queue # << >> => pc \in {"tables", "rows"} /\ queue \in Seq(Catalog(cur))
  /\ pc = "rows" => queue # << >> /\ file[Slot].owner = Table

(* Whose output a file is, by where it is: the directory is one its database
   was given, the name is the table's.                                       *)
FileInv ==
  /\ \A slot \in Subdirs \X FileNames : file[slot] # NoFile =>
       LET v == file[slot].owner
       IN  /\ v[1] \in found \ left
           /\ slot[2] = SafeName(v[2])
           /\ dirMode => \E n \in 1 .. used[BaseName(v[1])] : slot[1] = DbSubdir(v[1], n)
  /\ ~ dirMode => \A d, e \in found : d = e

(* The directory at hand holds files of the database at hand only. *)
SubInv ==
  Busy => /\ dirMode => /\ used[BaseName(cur)] # 0
                        /\ sub = DbSubdir(cur, used[BaseName(cur)])
          /\ \A slot \in Subdirs \X FileNames :
               file[slot] # NoFile /\ slot[1] = sub => file[slot].owner[1] = cur

(* What has been asked for and had its turn is reported one way or another;
   what is not reported yet is in the queue.                                 *)
Asked(d) == {Selected(d, request)[i] : i \in DOMAIN Selected(d, request)}
Reported(d, t) == <<d, t>> \in dumped \cup failed
ReportInv ==
  /\ dumped \subseteq Pairs
  /\ \A d \in found \ left : (Busy => d # cur) =>
       d \in refused \/ \A t \in Asked(d) : Reported(d, t)
  /\ pc \in {"tables", "rows"} =>
       \A t \in Asked(cur) : Reported(cur, t) \/ \E j \in DOMAIN queue : queue[j] = t

(* The counters and the exit code say what was reported. *)
CountInv ==
  /\ refused # {} => failedDbs > 0 \/ exit = 1
  /\ failed # {} => failedTables > 0
  /\ exit # Running => pc = "done"
  /\ exit \in {0, 2} => left = {} /\ exit = ExitCode

(* Where a table is written, and what is written about it. *)
LEMMA TableAtHand ==
  ASSUME TypeInv, TurnInv, pc \in {"tables", "rows"}, queue # << >>
  PROVE  /\ cur \in Db /\ queue \in Seq(Catalog(cur))
         /\ Head(queue) \in Catalog(cur) /\ Tail(queue) \in Seq(Catalog(cur))
         /\ Slot \in Subdirs \X FileNames /\ Table \in Pairs
<1>1. cur \in Db /\ queue \in Seq(Catalog(cur)) /\ sub \in Subdirs
  BY DEF TypeInv, TurnInv, Busy
<1>2. Head(queue) \in Catalog(cur) /\ Tail(queue) \in Seq(Catalog(cur))
  BY <1>1
<1>3. SafeName(Head(queue)) \in FileNames
  BY <1>1, <1>2 DEF FileNames
<1>4. Slot \in Subdirs \X FileNames
  BY <1>1, <1>3 DEF Slot
<1>5. Table \in Pairs
  BY <1>1, <1>2 DEF Table, Pairs
<1> QED
  BY <1>1, <1>2, <1>4, <1>5

LEMMA InitType == Init => TypeInv /\ TurnInv
<1> SUFFICES ASSUME Init PROVE TypeInv /\ TurnInv
  OBVIOUS
<1>1. << >> \in Subdirs /\ NoFile \in Entries
  BY DEF Subdirs, Entries
<1>2. used \in [{BaseName(d) : d \in Db} -> Nat] /\ \A name \in DOMAIN used : used[name] <= cur
  BY DEF Init, NoDb
<1>3. file \in [Subdirs \X FileNames -> Entries]
  BY <1>1 DEF Init
<1> QED
  BY <1>1, <1>2, <1>3 DEF Init, TypeInv, TurnInv, Busy, Running, NoDb

LEMMA NextType == TypeInv /\ TurnInv /\ [Next]_vars => TypeInv' /\ TurnInv'
<1> SUFFICES ASSUME TypeInv, TurnInv, [Next]_vars PROVE TypeInv' /\ TurnInv'
  OBVIOUS
<1> USE DEF Running, NoDb
<1>0. NumDbs \in Nat /\ Db \subseteq Nat /\ cur \in Nat /\ cur <= NumDbs
  BY ConstantFacts DEF TypeInv, Db
<1>1. CASE Scan
  <2>1. pc = "scan" /\ cur = NoDb /\ found = {} /\ queue = << >> /\ left' \subseteq Db /\ left' \subseteq found'
    BY <1>1 DEF Scan, TypeInv, TurnInv
  <2>2. found' \subseteq Db /\ refused' \subseteq found' /\ \A d \in left' : cur < d
    BY <1>0, <1>1, <2>1 DEF Scan, TypeInv, Db
  <2>3. TypeInv'
    BY <1>1, <2>1, <2>2 DEF Scan, TypeInv, ExitWith, setting
  <2>4. TurnInv'
    BY <1>1, <2>1 DEF Scan, TurnInv, Busy, ExitWith
  <2> QED
    BY <2>3, <2>4
<1>2. CASE NextDb
  <2>1. PICK d \in left : /\ \A e \in left : d <= e
                          /\ left' = left \ {d} /\ cur' = d
    BY <1>2 DEF NextDb
  <2>2. d \in Db /\ cur < d /\ d \in found /\ d \in Nat /\ d <= NumDbs /\ d >= 1
    BY <1>0, <2>1 DEF TypeInv, Db
  <2>3. /\ sub' \in Subdirs
        /\ used' \in [{BaseName(e) : e \in Db} -> Nat]
        /\ \A name \in DOMAIN used' : used'[name] <= d
    <3>1. CASE dirMode
      <4>1. /\ used' = [used EXCEPT ![BaseName(d)] = @ + 1]
            /\ sub' = DbSubdir(d, used'[BaseName(d)])
        BY <1>2, <2>1, <3>1 DEF NextDb
      <4>2. BaseName(d) \in {BaseName(e) : e \in Db}
        BY <2>2
      <4> DEFINE Bases == {BaseName(e) : e \in Db}
      <4> HIDE DEF Bases
      <4>3. used \in [Bases -> Nat] /\ BaseName(d) \in Bases /\ \A name \in Bases : used[name] <= cur
        BY <4>2 DEF TypeInv, Bases
      <4>4. /\ used' \in [Bases -> Nat]
            /\ \A name \in Bases : used'[name] <= d
            /\ used'[BaseName(d)] \in 1 .. NumDbs
        BY <1>0, <2>2, <4>1, <4>3
      <4>5. sub' \in Subdirs
        BY <2>2, <4>1, <4>4 DEF Subdirs
      <4> QED
        BY <4>4, <4>5 DEF Bases
    <3>2. CASE ~ dirMode
      <4>1. used' = used /\ sub' = << >>
        BY <1>2, <2>1, <3>2 DEF NextDb
      <4>2. \A name \in DOMAIN used : used[name] \in Nat /\ used[name] <= cur
        BY DEF TypeInv
      <4> QED
        BY <1>0, <2>2, <4>1, <4>2 DEF TypeInv, Subdirs
    <3> QED
      BY <3>1, <3>2 DEF TypeInv
  <2>4. \A e \in left' : d < e
    BY <1>0, <2>1, <2>2 DEF TypeInv
  <2>5. failedDbs < d /\ failedDbs \in Nat
    BY <1>0, <2>2 DEF TypeInv
  <2>6. /\ pc = "next" /\ pc' = "open" /\ queue' = queue
        /\ UNCHANGED <<dirMode, request, found, refused, failedDbs, file, failedTables, exit>>
    BY <1>2 DEF NextDb, setting
  <2>7. TypeInv'
    BY <2>1, <2>2, <2>3, <2>4, <2>5, <2>6 DEF TypeInv
  <2>8. TurnInv'
    BY <2>1, <2>2, <2>5, <2>6 DEF TurnInv, Busy
  <2> QED
    BY <2>7, <2>8
<1>3. CASE DbFails
  <2>1. pc = "open" /\ cur \in found /\ failedDbs < cur
    BY <1>3 DEF DbFails, TurnInv, Busy
  <2> QED
    BY <1>0, <1>3, <2>1 DEF DbFails, TypeInv, TurnInv, Busy, ExitWith, setting
<1>4. CASE SelectTables
  <2>1. pc = "open" /\ cur \in found /\ cur \in Db /\ request \in Requests
    BY <1>4 DEF SelectTables, TypeInv, TurnInv, Busy
  <2>2. queue' \in Seq(Catalog(cur))
    BY <1>4, <2>1, SelectedType DEF SelectTables
  <2> QED
    BY <1>4, <2>1, <2>2 DEF SelectTables, TypeInv, TurnInv, Busy, setting, dbVars
<1>5. CASE CreateFails
  <2>1. pc = "tables" /\ queue # << >> /\ queue' = Tail(queue) /\ pc' = "tables"
    BY <1>5 DEF CreateFails, FailTable
  <2>2. Tail(queue) \in Seq(Catalog(cur))
    BY <2>1, TableAtHand
  <2>3. TypeInv'
    BY <1>5, <2>1 DEF CreateFails, FailTable, TypeInv, setting, dbVars
  <2>4. TurnInv'
    BY <1>5, <2>1, <2>2 DEF CreateFails, FailTable, TurnInv, Busy, setting, dbVars
  <2> QED
    BY <2>3, <2>4
<1>6. CASE CreateFile
  <2>1. pc = "tables" /\ queue # << >> /\ queue' = queue /\ pc' = "rows"
    BY <1>6 DEF CreateFile
  <2>2. Slot \in Subdirs \X FileNames /\ Table \in Pairs
    BY <2>1, TableAtHand
  <2>3. file' = [file EXCEPT ![Slot] = [owner |-> Table, whole |-> FALSE]]
    BY <1>6 DEF CreateFile
  <2>4. [owner |-> Table, whole |-> FALSE] \in Entries
    BY <2>2 DEF Entries
  <2>5. file' \in [Subdirs \X FileNames -> Entries] /\ file'[Slot].owner = Table
    BY <2>2, <2>3, <2>4 DEF TypeInv
  <2>6. UNCHANGED <<Slot, Table>>
    BY <1>6 DEF CreateFile, Slot, Table, dbVars
  <2>7. TypeInv'
    BY <1>6, <2>1, <2>5 DEF CreateFile, TypeInv, setting, dbVars
  <2>8. TurnInv'
    BY <1>6, <2>1, <2>5, <2>6 DEF CreateFile, TurnInv, Busy, setting, dbVars
  <2> QED
    BY <2>7, <2>8
<1>7. CASE RowsFail
  <2>1. pc = "rows" /\ queue # << >> /\ queue' = Tail(queue) /\ pc' = "tables"
    BY <1>7 DEF RowsFail, FailTable, TurnInv
  <2>2. Tail(queue) \in Seq(Catalog(cur))
    BY <2>1, TableAtHand
  <2>3. TypeInv'
    BY <1>7, <2>1 DEF RowsFail, FailTable, TypeInv, setting, dbVars
  <2>4. TurnInv'
    BY <1>7, <2>1, <2>2 DEF RowsFail, FailTable, TurnInv, Busy, setting, dbVars
  <2> QED
    BY <2>3, <2>4
<1>8. CASE DumpTable
  <2>1. pc = "rows" /\ queue # << >> /\ queue' = Tail(queue) /\ pc' = "tables"
    BY <1>8 DEF DumpTable, TurnInv
  <2>2. /\ Tail(queue) \in Seq(Catalog(cur)) /\ Slot \in Subdirs \X FileNames
        /\ Table \in Pairs /\ file[Slot].owner = Table
    BY <2>1, TableAtHand DEF TurnInv
  <2>3. file' = [file EXCEPT ![Slot].whole = TRUE]
    BY <1>8 DEF DumpTable
  <2>4. file' \in [Subdirs \X FileNames -> Entries]
    <3>1. file[Slot] \in Entries
      BY <2>2 DEF TypeInv
    <3>2. file[Slot] # NoFile
      <4>1. NoDb \notin Db
        BY DEF Db
      <4>2. Table # NoFile.owner
        BY <2>1, <4>1, TableAtHand DEF Table, NoFile
      <4> QED
        BY <2>2, <4>2
    <3>3. [file[Slot] EXCEPT !.whole = TRUE] \in Entries
      BY <3>1, <3>2 DEF Entries
    <3> QED
      BY <2>2, <2>3, <3>3 DEF TypeInv
  <2> QED
    BY <1>8, <2>1, <2>2, <2>4 DEF DumpTable, TypeInv, TurnInv, Busy, setting, dbVars
<1>9. CASE EndDb
  BY <1>9 DEF EndDb, TypeInv, TurnInv, Busy, setting, dbVars
<1>10. CASE Finish
  BY <1>10 DEF Finish, TypeInv, TurnInv, Busy, setting, dbVars, ExitWith, ExitCode
<1>11. CASE UNCHANGED vars
  <2>1. UNCHANGED <<Slot, Table>>
    BY <1>11 DEF vars, dbVars, Slot, Table
  <2> QED
    BY <1>11, <2>1 DEF vars, setting, dbVars, TypeInv, TurnInv, Busy
<1> QED
  BY <1>1, <1>2, <1>3, <1>4, <1>5, <1>6, <1>7, <1>8, <1>9, <1>10, <1>11 DEF Next

LEMMA TypeInvariance == Spec => [](TypeInv /\ TurnInv)
BY InitType, NextType, PTL DEF Spec

LEMMA TypeInvGives == TypeInv /\ TurnInv => TypeOK
<1> SUFFICES ASSUME TypeInv, TurnInv PROVE TypeOK
  OBVIOUS
<1>0. NumDbs \in Nat /\ cur \in 0 .. NumDbs
  BY ConstantFacts DEF TypeInv, Db, NoDb
<1>1. \A i \in DOMAIN queue : queue[i] \in Catalog(cur)
  <2>1. CASE queue = << >>
    BY <2>1
  <2>2. CASE queue # << >>
    BY <2>2 DEF TurnInv
  <2> QED
    BY <2>1, <2>2
<1>2. \A name \in DOMAIN used : used[name] \in 0 .. NumDbs
  BY <1>0 DEF TypeInv
<1>3. ASSUME NEW slot \in DOMAIN file, file[slot] # NoFile
      PROVE  file[slot].owner[2] \in Catalog(file[slot].owner[1])
  <2>1. file[slot].owner \in Pairs
    BY <1>3 DEF TypeInv, Entries
  <2> QED
    BY <2>1 DEF Pairs
<1> QED
  BY <1>0, <1>1, <1>2, <1>3 DEF TypeInv, TurnInv, TypeOK

(* TypeOK: the values stay what the program's declarations say; at most nine
   directories of one name are ever asked for, and at most as many failed
   databases counted as there are.                                           *)
THEOREM DumpTypeCorrect == Spec => []TypeOK
BY TypeInvariance, TypeInvGives, PTL

-----------------------------------------------------------------------------
(* Where output is *)

LEMMA InitWhere == Init => FileInv /\ SubInv
BY DEF Init, FileInv, SubInv, Busy

(* A step that writes no file and goes on with the same database. *)
LEMMA SameWhere ==
  ASSUME FileInv, SubInv, Busy' => Busy,
         UNCHANGED <<dirMode, left, found, cur, sub, used, file>>
  PROVE  FileInv' /\ SubInv'
BY DEF FileInv, SubInv

LEMMA NextWhere ==
  ASSUME NamesApart, TypeInv, TurnInv, FileInv, SubInv, [Next]_vars
  PROVE  FileInv' /\ SubInv'
<1>0. /\ file \in [Subdirs \X FileNames -> Entries]
      /\ \A slot \in Subdirs \X FileNames : file[slot] # NoFile => file[slot].owner \in Pairs
  BY DEF TypeInv, Entries
<1>1. CASE Scan
  <2>1. \A slot \in Subdirs \X FileNames : file[slot] = NoFile
    BY <1>1 DEF Scan, TurnInv, FileInv
  <2>2. found = {} /\ UNCHANGED <<dirMode, file, used>> /\ ~ Busy'
    BY <1>1 DEF Scan, TurnInv, setting, ExitWith, Busy
  <2>3. ~ dirMode => \A d, e \in found' : d = e
    BY <1>1, <2>2 DEF Scan
  <2> QED
    BY <2>1, <2>2, <2>3 DEF FileInv, SubInv
<1>2. CASE NextDb
  <2>1. PICK d \in left : left' = left \ {d} /\ cur' = d
    BY <1>2 DEF NextDb
  <2>2. /\ UNCHANGED <<dirMode, found, file>> /\ d \in Db /\ d \in found
    BY <1>2, <2>1 DEF NextDb, setting, TypeInv
  <2>3. CASE dirMode
    <3> DEFINE base == BaseName(d)
    <3>1. /\ used' = [used EXCEPT ![base] = @ + 1] /\ sub' = DbSubdir(d, used'[base])
      BY <1>2, <2>1, <2>3 DEF NextDb
    <3>2. /\ \A e \in Db : used[BaseName(e)] \in Nat /\ BaseName(e) \in DOMAIN used
          /\ used'[base] = used[base] + 1 /\ used'[base] \in 1 .. NumDbs
          /\ \A e \in Db : used'[BaseName(e)] \in Nat /\ used'[BaseName(e)] >= used[BaseName(e)]
      <4> DEFINE Bases == {BaseName(e) : e \in Db}
      <4>1. used \in [Bases -> Nat] /\ \A e \in Db : BaseName(e) \in Bases
        BY DEF TypeInv
      <4>2. used[base] <= cur /\ cur < d /\ d <= NumDbs /\ cur \in Nat /\ d \in Nat /\ NumDbs \in Nat
        BY <2>1, <2>2, <4>1, ConstantFacts DEF TypeInv, Db, NoDb
      <4> HIDE DEF Bases, base
      <4>3. base \in Bases
        BY <2>2, <4>1 DEF base
      <4>4. used'[base] = used[base] + 1 /\ used[base] \in Nat /\ used'[base] \in 1 .. NumDbs
        BY <3>1, <4>1, <4>2, <4>3
      <4>5. ASSUME NEW e \in Db
            PROVE  /\ used[BaseName(e)] \in Nat /\ BaseName(e) \in DOMAIN used
                   /\ used'[BaseName(e)] \in Nat /\ used'[BaseName(e)] >= used[BaseName(e)]
        BY <3>1, <4>1, <4>3, <4>4
      <4> QED
        BY <4>4, <4>5
    <3> HIDE DEF base
    \* A file that is there was put under a smaller number.
    <3>3. ASSUME NEW slot \in Subdirs \X FileNames, file[slot] # NoFile
          PROVE  /\ slot[1] # sub'
                 /\ file[slot].owner[1] \in found' \ left' /\ slot[2] = SafeName(file[slot].owner[2])
                 /\ \E n \in 1 .. used'[BaseName(file[slot].owner[1])] :
                      slot[1] = DbSubdir(file[slot].owner[1], n)
      <4> DEFINE e == file[slot].owner[1]
      <4>1. e \in Db /\ e \in found \ left /\ slot[2] = SafeName(file[slot].owner[2])
        BY <3>3, <1>0 DEF FileInv, TypeInv
      <4>2. PICK n \in 1 .. used[BaseName(e)] : slot[1] = DbSubdir(e, n)
        BY <2>3, <3>3 DEF FileInv
      <4> HIDE DEF e
      <4>3. n \in 1 .. used'[BaseName(e)]
        BY <3>2, <4>1, <4>2
      <4>4. n \in 1 .. NumDbs
        <5>1. cur \in 0 .. NumDbs /\ NumDbs \in Nat
          BY ConstantFacts DEF TypeInv, Db, NoDb
        <5>2. used[BaseName(e)] <= cur
          BY <3>2, <4>1 DEF TypeInv
        <5> QED
          BY <3>2, <4>1, <4>2, <5>1, <5>2
      <4>5. ASSUME slot[1] = sub' PROVE FALSE
        <5>1. PICK m \in 1 .. NumDbs : m = used'[base]
          BY <3>2
        <5>2. DbSubdir(e, n) = DbSubdir(d, m)
          BY <3>1, <4>2, <4>5, <5>1
        <5>3. BaseName(e) = BaseName(d) /\ n = m
          BY <2>2, <4>1, <4>4, <5>2, DirectoriesApart
        <5> QED
          BY <2>2, <3>2, <4>1, <4>2, <5>1, <5>3 DEF base
      <4> QED
        BY <2>1, <2>2, <4>1, <4>2, <4>3, <4>5 DEF e
    <3>4. used'[BaseName(cur')] # 0 /\ sub' = DbSubdir(cur', used'[BaseName(cur')])
      BY <2>1, <3>1, <3>2 DEF base
    <3> QED
      BY <2>2, <2>3, <3>3, <3>4 DEF FileInv, SubInv
  <2>4. CASE ~ dirMode
    <3>1. \A slot \in Subdirs \X FileNames : file[slot] = NoFile
      BY <2>1, <2>2, <2>4 DEF FileInv, TypeInv
    <3> QED
      BY <2>2, <2>4, <3>1 DEF FileInv, SubInv
  <2> QED
    BY <2>3, <2>4 DEF TypeInv
<1>3. CASE DbFails
  <2>1. UNCHANGED <<dirMode, left, found, cur, sub, used, file>> /\ ~ Busy'
    BY <1>3 DEF DbFails, setting, ExitWith, Busy
  <2> QED
    BY <2>1, SameWhere
<1>4. CASE SelectTables
  <2>1. UNCHANGED <<dirMode, left, found, cur, sub, used, file>> /\ Busy
    BY <1>4 DEF SelectTables, setting, dbVars, Busy
  <2> QED
    BY <2>1, SameWhere
<1>5. CASE CreateFails
  <2>1. UNCHANGED <<dirMode, left, found, cur, sub, used, file>> /\ Busy
    BY <1>5 DEF CreateFails, FailTable, setting, dbVars, Busy
  <2> QED
    BY <2>1, SameWhere
<1>6. CASE CreateFile
  <2>1. /\ pc = "tables" /\ queue # << >> /\ UNCHANGED <<dirMode, left, found, cur, sub, used>>
        /\ file' = [file EXCEPT ![Slot] = [owner |-> Table, whole |-> FALSE]] /\ Busy /\ Busy'
    BY <1>6 DEF CreateFile, setting, dbVars, Busy
  <2>2. /\ cur \in Db /\ Head(queue) \in Catalog(cur) /\ Slot \in Subdirs \X FileNames
    BY <2>1, TableAtHand
  <2>3. file'[Slot] = [owner |-> Table, whole |-> FALSE]
    BY <1>0, <2>1, <2>2
  <2>4. \A slot \in Subdirs \X FileNames : slot # Slot => file'[slot] = file[slot]
    BY <1>0, <2>1, <2>2
  <2>5. /\ Table[1] \in found \ left /\ Slot[2] = SafeName(Table[2]) /\ Table[1] = cur
        /\ dirMode => \E n \in 1 .. used[BaseName(Table[1])] : Slot[1] = DbSubdir(Table[1], n)
    <3>1. cur \in found /\ cur \notin left
      BY <2>1, ConstantFacts DEF TypeInv, TurnInv, Db
    <3>2. dirMode => /\ used[BaseName(cur)] # 0 /\ used[BaseName(cur)] \in Nat
                     /\ sub = DbSubdir(cur, used[BaseName(cur)])
      BY <2>1, <2>2 DEF SubInv, TypeInv
    <3>3. dirMode => used[BaseName(cur)] \in 1 .. used[BaseName(cur)]
      BY <3>2
    <3> QED
      BY <3>1, <3>2, <3>3 DEF Table, Slot
  <2>6. FileInv'
    BY <2>1, <2>3, <2>4, <2>5 DEF FileInv
  <2>7. SubInv'
    BY <2>1, <2>3, <2>4, <2>5 DEF SubInv
  <2> QED
    BY <2>6, <2>7
<1>7. CASE RowsFail
  <2>1. UNCHANGED <<dirMode, left, found, cur, sub, used, file>> /\ Busy
    BY <1>7 DEF RowsFail, FailTable, setting, dbVars, Busy
  <2> QED
    BY <2>1, SameWhere
<1>8. CASE DumpTable
  <2>1. /\ UNCHANGED <<dirMode, left, found, cur, sub, used>> /\ pc = "rows" /\ queue # << >>
        /\ file' = [file EXCEPT ![Slot].whole = TRUE] /\ Busy /\ Busy'
    BY <1>8 DEF DumpTable, setting, dbVars, Busy, TurnInv
  <2>2. Slot \in Subdirs \X FileNames /\ file[Slot].owner = Table /\ Table \in Pairs
    BY <2>1, TableAtHand DEF TurnInv
  <2>3. file[Slot] # NoFile /\ file'[Slot].owner = file[Slot].owner
    <3>1. Table # NoFile.owner
      BY <2>2 DEF Pairs, NoFile, NoDb, Db
    <3>2. file[Slot] \in [owner : Pairs, whole : BOOLEAN]
      BY <1>0, <2>2, <3>1 DEF Entries
    <3> QED
      BY <1>0, <2>1, <2>2, <3>1, <3>2
  <2>4. \A slot \in Subdirs \X FileNames : slot # Slot => file'[slot] = file[slot]
    BY <1>0, <2>1, <2>2
  <2>5. FileInv'
    BY <2>1, <2>3, <2>4 DEF FileInv
  <2>6. SubInv'
    BY <2>1, <2>3, <2>4 DEF SubInv
  <2> QED
    BY <2>5, <2>6
<1>9. CASE EndDb
  <2>1. UNCHANGED <<dirMode, left, found, cur, sub, used, file>> /\ ~ Busy'
    BY <1>9 DEF EndDb, setting, dbVars, Busy
  <2> QED
    BY <2>1, SameWhere
<1>10. CASE Finish
  <2>1. UNCHANGED <<dirMode, left, found, cur, sub, used, file>> /\ ~ Busy'
    BY <1>10 DEF Finish, setting, dbVars, Busy, ExitWith
  <2> QED
    BY <2>1, SameWhere
<1>11. CASE UNCHANGED vars
  <2>1. UNCHANGED <<dirMode, left, found, cur, sub, used, file>> /\ (Busy' => Busy)
    BY <1>11 DEF vars, setting, dbVars, Busy
  <2> QED
    BY <2>1, SameWhere
<1> QED
  BY <1>1, <1>2, <1>3, <1>4, <1>5, <1>6, <1>7, <1>8, <1>9, <1>10, <1>11 DEF Next

(* What is dumped stays: only the table at hand is ever written over, by
   itself.                                                                   *)
LEMMA NextDumped ==
  ASSUME NamesApart, TypeInv, TurnInv, FileInv, SubInv, dumped \subseteq Pairs,
         DumpedStaysThere, [Next]_vars
  PROVE  DumpedStaysThere'
<1>0. /\ file \in [Subdirs \X FileNames -> Entries]
      /\ \A slot \in Subdirs \X FileNames : file[slot] # NoFile => file[slot].owner \in Pairs
  BY DEF TypeInv, Entries
<1>1. ASSUME UNCHANGED <<file, dumped, failed>>, pc # "rows"
      PROVE  DumpedStaysThere'
  BY <1>1 DEF DumpedStaysThere, HoldsTable
<1>2. CASE Scan \/ NextDb \/ DbFails \/ SelectTables \/ EndDb \/ Finish
  <2>1. UNCHANGED <<file, dumped, failed>> /\ pc # "rows"
    BY <1>2 DEF Scan, NextDb, DbFails, SelectTables, EndDb, Finish
  <2> QED
    BY <1>1, <2>1
<1>3. CASE CreateFails
  <2>1. file' = file /\ dumped' = dumped /\ failed \subseteq failed' /\ pc # "rows"
    BY <1>3 DEF CreateFails, FailTable
  <2> QED
    BY <2>1 DEF DumpedStaysThere, HoldsTable
<1>4. CASE RowsFail
  <2>1. file' = file /\ dumped' = dumped /\ failed' = failed \cup {Table}
    BY <1>4 DEF RowsFail, FailTable
  <2> QED
    BY <2>1 DEF DumpedStaysThere, HoldsTable
<1>5. CASE CreateFile
  <2>1. /\ pc = "tables" /\ queue # << >> /\ dumped' = dumped /\ failed' = failed /\ pc' = "rows"
        /\ file' = [file EXCEPT ![Slot] = [owner |-> Table, whole |-> FALSE]]
        /\ Table' = Table /\ Busy
    BY <1>5 DEF CreateFile, Table, dbVars, Busy
  <2>2. cur \in Db /\ Head(queue) \in Catalog(cur) /\ Slot \in Subdirs \X FileNames
    BY <2>1, TableAtHand
  <2>3. ASSUME NEW v \in dumped \ failed, v # Table PROVE HoldsTable(v[1], v[2])'
    <3>1. PICK slot \in Subdirs \X FileNames : file[slot] = [owner |-> <<v[1], v[2]>>, whole |-> TRUE]
      BY <1>0, <2>1, <2>3 DEF DumpedStaysThere, HoldsTable
    <3>2. file[slot] # NoFile /\ v = file[slot].owner /\ v[2] \in Catalog(v[1])
      BY <3>1 DEF NoFile, Pairs
    <3>3. slot # Slot
      <4>1. SUFFICES ASSUME slot = Slot PROVE FALSE
        OBVIOUS
      <4>2. v[1] = cur
        BY <2>1, <3>1, <3>2, <4>1 DEF SubInv, Slot
      <4>3. SafeName(Head(queue)) = SafeName(v[2])
        BY <3>1, <3>2, <4>1 DEF FileInv, Slot
      <4>4. v[2] = Head(queue)
        BY <2>2, <3>2, <4>2, <4>3 DEF NamesApart
      <4>5. v = <<v[1], v[2]>>
        BY <3>1, <3>2
      <4> QED
        BY <2>3, <4>2, <4>4, <4>5 DEF Table
    <3>4. file'[slot] = [owner |-> <<v[1], v[2]>>, whole |-> TRUE] /\ slot \in DOMAIN file'
      BY <1>0, <2>1, <3>1, <3>3
    <3> QED
      BY <3>4 DEF HoldsTable
  <2> QED
    BY <2>1, <2>3 DEF DumpedStaysThere
<1>6. CASE DumpTable
  <2>1. /\ pc = "rows" /\ queue # << >> /\ dumped' = dumped \cup {Table} /\ failed' = failed
        /\ file' = [file EXCEPT ![Slot].whole = TRUE]
    BY <1>6 DEF DumpTable, TurnInv
  <2>2. Slot \in Subdirs \X FileNames /\ file[Slot].owner = Table /\ Table \in Pairs
    BY <2>1, TableAtHand DEF TurnInv
  <2>3. file[Slot] \in [owner : Pairs, whole : BOOLEAN]
    <3>1. Table # NoFile.owner
      BY <2>2 DEF Pairs, NoFile, NoDb, Db
    <3> QED
      BY <1>0, <2>2, <3>1 DEF Entries
  <2>4. file'[Slot] = [owner |-> Table, whole |-> TRUE] /\ Slot \in DOMAIN file'
    BY <1>0, <2>1, <2>2, <2>3
  <2>6. ASSUME NEW v, v = Table PROVE HoldsTable(v[1], v[2])'
    <3>1. v = <<v[1], v[2]>>
      BY <2>6 DEF Table
    <3>2. file'[Slot] = [owner |-> <<v[1], v[2]>>, whole |-> TRUE]
      BY <2>4, <2>6, <3>1
    <3> QED
      BY <2>4, <3>2 DEF HoldsTable
  <2>7. ASSUME NEW v \in dumped \ failed, v # Table PROVE HoldsTable(v[1], v[2])'
    <3>1. PICK slot \in Subdirs \X FileNames : file[slot] = [owner |-> <<v[1], v[2]>>, whole |-> TRUE]
      BY <1>0, <2>1, <2>7 DEF DumpedStaysThere, HoldsTable
    <3>2. v = <<v[1], v[2]>>
      BY DEF Pairs
    <3>3. slot # Slot
      BY <2>2, <2>7, <3>1, <3>2
    <3>4. file'[slot] = [owner |-> <<v[1], v[2]>>, whole |-> TRUE] /\ slot \in DOMAIN file'
      BY <1>0, <2>1, <3>1, <3>3
    <3> QED
      BY <3>4 DEF HoldsTable
  <2>8. ASSUME NEW v \in dumped' \ failed' PROVE HoldsTable(v[1], v[2])'
    BY <2>1, <2>6, <2>7
  <2> QED
    BY <2>8 DEF DumpedStaysThere
<1>7. CASE UNCHANGED vars
  <2>1. UNCHANGED <<file, dumped, failed, pc, Table>>
    BY <1>7 DEF vars, dbVars, Table
  <2> QED
    BY <2>1 DEF DumpedStaysThere, HoldsTable
<1> QED
  BY <1>2, <1>3, <1>4, <1>5, <1>6, <1>7 DEF Next

-----------------------------------------------------------------------------
(* What is reported *)

LEMMA InitReport == Init => ReportInv /\ CountInv /\ DumpedStaysThere
BY DEF Init, ReportInv, CountInv, DumpedStaysThere, Busy, Running

LEMMA NextCount ==
  ASSUME TypeInv, TurnInv, CountInv, [Next]_vars
  PROVE  CountInv'
<1> USE DEF Running
<1>0. failedDbs \in Nat /\ failedTables \in Nat /\ (pc # "done" => exit = Running)
  BY DEF TypeInv, CountInv
<1>1. CASE Scan
  BY <1>0, <1>1 DEF Scan, CountInv, ExitWith
<1>2. CASE NextDb
  BY <1>0, <1>2 DEF NextDb, CountInv
<1>3. CASE DbFails
  BY <1>0, <1>3 DEF DbFails, CountInv, ExitWith
<1>4. CASE SelectTables
  BY <1>0, <1>4 DEF SelectTables, CountInv, dbVars
<1>5. CASE CreateFails
  BY <1>0, <1>5 DEF CreateFails, FailTable, CountInv, dbVars
<1>6. CASE CreateFile
  BY <1>0, <1>6 DEF CreateFile, CountInv, dbVars
<1>7. CASE RowsFail
  BY <1>0, <1>7 DEF RowsFail, FailTable, CountInv, dbVars
<1>8. CASE DumpTable
  BY <1>0, <1>8 DEF DumpTable, CountInv, dbVars
<1>9. CASE EndDb
  BY <1>0, <1>9 DEF EndDb, CountInv, dbVars
<1>10. CASE Finish
  BY <1>0, <1>10 DEF Finish, CountInv, dbVars, ExitWith, ExitCode
<1>11. CASE UNCHANGED vars
  BY <1>11 DEF vars, dbVars, CountInv, ExitCode
<1> QED
  BY <1>1, <1>2, <1>3, <1>4, <1>5, <1>6, <1>7, <1>8, <1>9, <1>10, <1>11 DEF Next

(* A table leaves the queue with its report. *)
LEMMA TableReported ==
  ASSUME TypeInv, TurnInv, ReportInv, pc \in {"tables", "rows"}, queue # << >>,
         pc' = "tables", queue' = Tail(queue), UNCHANGED <<request, dbVars>>,
         dumped \subseteq dumped', failed \subseteq failed', dumped' \subseteq Pairs,
         Table \in dumped' \cup failed'
  PROVE  ReportInv'
<1>1. UNCHANGED <<found, left, refused, cur, Busy>> /\ \A d : Asked(d)' = Asked(d)
  BY DEF dbVars, Asked, Busy
<1>2. \A d, t : Reported(d, t) => Reported(d, t)'
  BY DEF Reported
<1>3. ASSUME NEW t \in Asked(cur), ~ Reported(cur, t)'
      PROVE  \E j \in DOMAIN queue' : queue'[j] = t
  <2>0. <<cur, t>> \notin dumped' \cup failed' /\ ~ Reported(cur, t)
    BY <1>1, <1>3 DEF Reported
  <2>1. PICK j \in DOMAIN queue : queue[j] = t
    BY <1>3, <2>0 DEF ReportInv
  <2>2. queue \in Seq(Catalog(cur))
    BY TableAtHand
  <2>3. j # 1
    <3>1. SUFFICES ASSUME j = 1 PROVE FALSE
      OBVIOUS
    <3>2. Table = <<cur, t>>
      BY <2>1, <2>2, <3>1 DEF Table
    <3> QED
      BY <2>0, <3>2
  <2>4. j - 1 \in DOMAIN Tail(queue) /\ Tail(queue)[j - 1] = t
    BY <2>1, <2>2, <2>3
  <2> QED
    BY <2>4
<1>4. \A d \in found \ left : d # cur => d \in refused \/ \A t \in Asked(d) : Reported(d, t)'
  BY <1>2 DEF ReportInv
<1>5. \A t \in Asked(cur) : Reported(cur, t)' \/ \E j \in DOMAIN queue' : queue'[j] = t
  BY <1>3
<1>6. Busy'
  BY DEF Busy
<1> QED
  BY <1>1, <1>4, <1>5, <1>6 DEF ReportInv

LEMMA NextReport ==
  ASSUME TypeInv, TurnInv, ReportInv, [Next]_vars
  PROVE  ReportInv'
<1>1. ASSUME UNCHANGED request PROVE \A d : Asked(d)' = Asked(d)
  BY <1>1 DEF Asked
<1>2. ASSUME UNCHANGED <<dumped, failed>> PROVE \A d, t : Reported(d, t)' <=> Reported(d, t)
  BY <1>2 DEF Reported
<1>3. CASE Scan
  <2>1. found' \ left' = {} /\ dumped' = dumped /\ pc' \notin {"tables", "rows"}
    BY <1>3 DEF Scan, TurnInv, TypeInv, ExitWith
  <2> QED
    BY <2>1 DEF ReportInv
<1>4. CASE NextDb
  <2>1. PICK d \in left : left' = left \ {d} /\ cur' = d
    BY <1>4 DEF NextDb
  <2>2. /\ UNCHANGED <<request, found, refused, dumped, failed>>
        /\ pc = "next" /\ pc' = "open" /\ ~ Busy /\ Busy'
    BY <1>4 DEF NextDb, setting, Busy
  <2> QED
    BY <1>1, <1>2, <2>1, <2>2 DEF ReportInv
<1>5. CASE DbFails
  <2>1. /\ UNCHANGED <<request, found, left, cur, dumped, failed>> /\ refused' = refused \cup {cur}
        /\ Busy /\ ~ Busy' /\ pc' \notin {"tables", "rows"}
    BY <1>5 DEF DbFails, setting, Busy, ExitWith
  <2> QED
    BY <1>1, <1>2, <2>1 DEF ReportInv
<1>6. CASE SelectTables
  <2>1. /\ UNCHANGED <<request, found, left, cur, refused, dumped, failed>> /\ Busy /\ Busy'
        /\ queue' = Selected(cur, request)
    BY <1>6 DEF SelectTables, setting, dbVars, Busy
  <2>2. \A t \in Asked(cur) : \E j \in DOMAIN queue' : queue'[j] = t
    BY <2>1 DEF Asked
  <2>3. /\ dumped' \subseteq Pairs
        /\ \A d \in found' \ left' : d # cur' =>
             d \in refused' \/ \A t \in Asked(d)' : Reported(d, t)'
    BY <1>1, <1>2, <2>1 DEF ReportInv
  <2>4. \A t \in Asked(cur') : \E j \in DOMAIN queue' : queue'[j] = t
    BY <2>1, <2>2
  <2>5. Asked(cur)' = Asked(cur')
    BY <1>1, <2>1
  <2> QED
    BY <2>1, <2>3, <2>4, <2>5 DEF ReportInv
<1>7. CASE CreateFails
  <2>1. /\ pc = "tables" /\ queue # << >> /\ pc' = "tables" /\ queue' = Tail(queue)
        /\ UNCHANGED <<request, dbVars, dumped>> /\ failed' = failed \cup {Table}
    BY <1>7 DEF CreateFails, FailTable, setting
  <2>2. dumped' \subseteq Pairs
    BY <2>1 DEF ReportInv
  <2> QED
    BY <2>1, <2>2, TableReported
<1>8. CASE CreateFile
  <2>1. /\ pc = "tables" /\ pc' = "rows"
        /\ UNCHANGED <<request, found, left, cur, refused, dumped, failed, queue, Busy>>
    BY <1>8 DEF CreateFile, setting, dbVars, Busy
  <2> QED
    BY <1>1, <1>2, <2>1 DEF ReportInv
<1>9. CASE RowsFail
  <2>1. /\ pc = "rows" /\ queue # << >> /\ pc' = "tables" /\ queue' = Tail(queue)
        /\ UNCHANGED <<request, dbVars, dumped>> /\ failed' = failed \cup {Table}
    BY <1>9 DEF RowsFail, FailTable, setting, TurnInv
  <2>2. dumped' \subseteq Pairs
    BY <2>1 DEF ReportInv
  <2> QED
    BY <2>1, <2>2, TableReported
<1>10. CASE DumpTable
  <2>1. /\ pc = "rows" /\ queue # << >> /\ pc' = "tables" /\ queue' = Tail(queue)
        /\ UNCHANGED <<request, dbVars, failed>> /\ dumped' = dumped \cup {Table}
    BY <1>10 DEF DumpTable, setting, TurnInv
  <2>2. dumped' \subseteq Pairs
    BY <2>1, TableAtHand DEF ReportInv
  <2> QED
    BY <2>1, <2>2, TableReported
<1>11. CASE EndDb
  <2>1. /\ pc = "tables" /\ queue = << >> /\ pc' = "next" /\ Busy /\ ~ Busy'
        /\ UNCHANGED <<request, found, left, cur, refused, dumped, failed>>
    BY <1>11 DEF EndDb, setting, dbVars, Busy
  <2>2. \A t \in Asked(cur) : Reported(cur, t)
    BY <2>1 DEF ReportInv
  <2> QED
    BY <1>1, <1>2, <2>1, <2>2 DEF ReportInv
<1>12. CASE Finish
  <2>1. /\ ~ Busy /\ ~ Busy' /\ pc' \notin {"tables", "rows"}
        /\ UNCHANGED <<request, found, left, cur, refused, dumped, failed>>
    BY <1>12 DEF Finish, setting, dbVars, Busy, ExitWith
  <2> QED
    BY <1>1, <1>2, <2>1 DEF ReportInv
<1>13. CASE UNCHANGED vars
  <2>1. UNCHANGED <<pc, Busy, request, found, left, cur, refused, dumped, failed, queue>>
    BY <1>13 DEF vars, setting, dbVars, Busy
  <2> QED
    BY <1>1, <1>2, <2>1 DEF ReportInv
<1> QED
  BY <1>3, <1>4, <1>5, <1>6, <1>7, <1>8, <1>9, <1>10, <1>11, <1>12, <1>13 DEF Next

-----------------------------------------------------------------------------
(* The theorems *)

DumpInv == TypeInv /\ TurnInv /\ FileInv /\ SubInv /\ ReportInv /\ CountInv /\ DumpedStaysThere

LEMMA DumpInvariance ==
  ASSUME NamesApart
  PROVE  Spec => []DumpInv
<1>1. Init => DumpInv
  BY InitType, InitWhere, InitReport DEF DumpInv
<1>2. DumpInv /\ [Next]_vars => DumpInv'
  <2> SUFFICES ASSUME DumpInv, [Next]_vars PROVE DumpInv'
    OBVIOUS
  <2>1. TypeInv' /\ TurnInv'
    BY NextType DEF DumpInv
  <2>2. FileInv' /\ SubInv'
    BY NextWhere DEF DumpInv
  <2>3. ReportInv' /\ CountInv'
    BY NextReport, NextCount DEF DumpInv
  <2>4. dumped \subseteq Pairs
    BY DEF DumpInv, ReportInv
  <2>5. DumpedStaysThere'
    BY <2>4, NextDumped DEF DumpInv
  <2> QED
    BY <2>1, <2>2, <2>3, <2>5 DEF DumpInv
<1> QED
  BY <1>1, <1>2, PTL DEF Spec

(* DumpedStaysThere: where no name is another one with a number behind it and
   no two tables of a database fold to one file name, what was reported as
   dumped is never written over by another database or table.                *)
THEOREM DumpedOutputSurvives ==
  ASSUME NamesApart
  PROVE  Spec => []DumpedStaysThere
<1>1. DumpInv => DumpedStaysThere
  BY DEF DumpInv
<1> QED
  BY <1>1, DumpInvariance, PTL

(* AllAccountedFor: with such names, exit code 0 means that every table asked
   for is in the output tree, and 2 that the missing ones were reported.      *)
THEOREM NothingIsMissing ==
  ASSUME NamesApart
  PROVE  Spec => []AllAccountedFor
<1>1. DumpInv => AllAccountedFor
  <2> SUFFICES ASSUME DumpInv, exit \in {0, 2}, NEW d \in found,
                      ~ (d \in refused /\ exit = 2),
                      NEW i \in DOMAIN Selected(d, request)
               PROVE  \/ <<d, Selected(d, request)[i]>> \in failed /\ exit = 2
                      \/ HoldsTable(d, Selected(d, request)[i])
    BY DEF AllAccountedFor
  <2>1. /\ pc = "done" /\ left = {} /\ exit = ExitCode
        /\ refused # {} => exit = 2
        /\ failed # {} => exit = 2
    BY DEF DumpInv, CountInv, ExitCode, Running
  <2>2. d \notin refused /\ d \in found \ left /\ ~ Busy
    BY <2>1 DEF Busy
  <2> DEFINE t == Selected(d, request)[i]
  <2>3. <<d, t>> \in dumped \cup failed
    BY <2>2 DEF DumpInv, ReportInv, Asked, Reported
  <2>4. CASE <<d, t>> \in failed
    BY <2>1, <2>4
  <2>5. CASE <<d, t>> \in dumped \ failed
    <3>1. HoldsTable(<<d, t>>[1], <<d, t>>[2])
      BY <2>1, <2>5 DEF DumpInv, DumpedStaysThere
    <3> QED
      BY <3>1
  <2> QED
    BY <2>3, <2>4, <2>5
<1> QED
  BY <1>1, DumpInvariance, PTL
=============================================================================
