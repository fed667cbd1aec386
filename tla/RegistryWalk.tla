---------------------------- MODULE RegistryWalk ----------------------------
(***************************************************************************)
(* The walks over a hive's keys: gore's, over the keys its batch asks for  *)
(* (runHive and emitKey of gore/main.go), and gosbe's, over the BagMRU     *)
(* trees of shell items (runHive and walkBag of gosbe/main.go).  Both are  *)
(* recursive functions that append a row at a time; here the recursion is  *)
(* a stack of frames, one per call under way.                              *)
(*                                                                         *)
(* A call works through its tasks in the order of the source: gore through *)
(* the key's values and then its subkeys, gosbe through the slots, each    *)
(* with the bag below it.  A value of gosbe's is a shell item, abstracted  *)
(* to the name it decodes to.                                              *)
(***************************************************************************)
EXTENDS Integers, Sequences, FiniteSets

CONSTANTS
  Key,        \* registry keys
  Name,       \* names of keys and values, letter case folded
  NumberOf,   \* NumberOf[n]: the number a name of digits spells, or NotNumeric
  KeyName,    \* KeyName[k]
  Hive,       \* hives: records of values, subkeys and MRUListEx by key
  Roots       \* Roots[tool]: what runHive may be given to look for

NotNumeric == -1
Unranked == -1
NoName == "none"        \* of a batch key without ValueName
NoKey == "no key"
Undecoded == ""         \* the name of a shell item that is not decoded
NoData == "no data"     \* a value without data

Tool == {"gore", "gosbe"}
Value == [name : Name, item : STRING]
Root == [key : Key \cup {NoKey}, recursive : BOOLEAN, named : Name \cup {NoName},
         fits : BOOLEAN]

ASSUME NameAssumption ==
  /\ NumberOf \in [Name -> Nat \cup {NotNumeric}]
  /\ KeyName \in [Key -> Name]
  /\ NoKey \notin Key /\ NoName \notin Name
ASSUME HiveAssumption ==
  \A h \in Hive :
    /\ h.values \in [Key -> Seq(Value)]
    /\ h.subkeys \in [Key -> Seq(Key)]
    /\ h.mru \in [Key -> Seq(Int)]
ASSUME RootsAssumption == \A t \in Tool : Roots[t] \subseteq Seq(Root)

VARIABLES
  tool,     \* which program
  hive,     \* the hive it walks
  roots,    \* the batch's keys, or the BagMRU roots, in order
  next,     \* the root whose turn it is
  stack,    \* calls under way, the innermost last
  rows,     \* rows emitted
  pc        \* "walk", "done" or "failed"

vars == <<tool, hive, roots, next, stack, rows, pc>>

RangeOf(f) == {f[i] : i \in DOMAIN f}
Last(s) == s[Len(s)]
Front(s) == SubSeq(s, 1, Len(s) - 1)
Greatest(S) == CHOOSE i \in S : \A j \in S : j <= i

-----------------------------------------------------------------------------
(* gosbe: what a bag holds *)

(* The part of MRUListEx before its terminator, a negative number. *)
Live(list) == {i \in DOMAIN list : \A j \in 1 .. i : list[j] >= 0}

(* Mutant: the position is the slot's, not the list's. *)
MruPositionOfSlot(list, slot) ==
  IF \E i \in Live(list) : list[i] = slot THEN slot ELSE Unranked

(* mruOrder: a slot's position, the last one when the list repeats it. *)
MruPosition(list, slot) ==
  LET at == {i \in Live(list) : list[i] = slot}
  IN  IF at = {} THEN Unranked ELSE Greatest(at) - 1

(* The map items: of values that spell the same number the last one stays. *)
ItemAt(k, slot) ==
  {i \in DOMAIN hive.values[k] :
     /\ NumberOf[hive.values[k][i].name] = slot
     /\ hive.values[k][i].item # NoData}
Slots(k) ==
  {NumberOf[hive.values[k][i].name] : i \in
     {j \in DOMAIN hive.values[k] :
        hive.values[k][j].item # NoData /\ NumberOf[hive.values[k][j].name] # NotNumeric}}
Item(k, slot) == hive.values[k][Greatest(ItemAt(k, slot))].item

(* The map subByIdx: likewise of subkeys. *)
BagsAt(k, slot) ==
  {i \in DOMAIN hive.subkeys[k] : NumberOf[KeyName[hive.subkeys[k][i]]] = slot}
Bag(k, slot) == hive.subkeys[k][Greatest(BagsAt(k, slot))]

(* A path is the sequence of its components; an item that is not decoded adds
   none.                                                                     *)
Joined(path, name) == IF name = Undecoded THEN path ELSE Append(path, name)

-----------------------------------------------------------------------------
(* The tasks of a call *)

TaskKind == {"row", "key"}
Task == [at : Nat, kind : TaskKind]
Row(n) == [at |-> n, kind |-> "row"]
Sub(n) == [at |-> n, kind |-> "key"]

(* walkBag *)
BagTasks(k) ==
  {Row(slot) : slot \in Slots(k)} \cup
  {Sub(slot) : slot \in {s \in Slots(k) : BagsAt(k, s) # {}}}

(* Mutant: a key whose values do not match has a row of its own, too. *)
KeyTasksStubs(k, root) ==
  LET matching == {i \in DOMAIN hive.values[k] :
                     root.named = NoName \/ hive.values[k][i].name = root.named}
  IN  {Row(i) : i \in matching} \cup (IF matching = {} THEN {Row(0)} ELSE {})
      \cup (IF root.recursive THEN {Sub(j) : j \in DOMAIN hive.subkeys[k]} ELSE {})

(* emitKey: the values asked for, or a row for the key itself when it has no
   values and none was named; then, when asked for, the subkeys.             *)
KeyTasks(k, root) ==
  LET values == DOMAIN hive.values[k]
      matching == {i \in values :
                     root.named = NoName \/ hive.values[k][i].name = root.named}
      stub == IF root.named = NoName /\ values = {} THEN {Row(0)} ELSE {}
      subs == IF root.recursive THEN {Sub(j) : j \in DOMAIN hive.subkeys[k]} ELSE {}
  IN  {Row(i) : i \in matching} \cup stub \cup subs

Tasks(k, root) == IF tool = "gosbe" THEN BagTasks(k) ELSE KeyTasks(k, root)

(* gosbe goes from slot to slot, gore from the values to the subkeys. *)
Precedes(a, b) ==
  LET earlier == a.kind = "row" /\ b.kind = "key"
  IN  IF tool = "gosbe"
      THEN a.at < b.at \/ (a.at = b.at /\ earlier)
      ELSE earlier \/ (a.kind = b.kind /\ a.at < b.at)

(* One call: its key, the key path, the path of decoded names (gosbe), and the
   tasks it has left.                                                        *)
Frame(k, path, abs, root) ==
  [key |-> k, path |-> path, abs |-> abs, left |-> Tasks(k, root)]

Top == Last(stack)
Due(t) == t \in Top.left /\ \A u \in Top.left : u = t \/ Precedes(t, u)
Rest(t) == Append(Front(stack), [Top EXCEPT !.left = @ \ {t}])

(* gosbe's path of the item at a slot. *)
PathOf(k, abs, slot) == IF tool = "gosbe" THEN Joined(abs, Item(k, slot)) ELSE abs

(* The subkey a task is about. *)
SubkeyOf(k, n) == IF tool = "gosbe" THEN Bag(k, n) ELSE hive.subkeys[k][n]

-----------------------------------------------------------------------------
(* The walk *)

Init ==
  /\ tool \in Tool
  /\ hive \in Hive
  /\ roots \in Roots[tool]
  /\ next = 1 /\ stack = << >> /\ rows = << >>
  /\ pc = "walk"

Wanted(root) == root.key # NoKey /\ (tool = "gore" => root.fits)

(* A root that is not in the hive, or is meant for hives of another type. *)
SkipRoot ==
  /\ pc = "walk" /\ stack = << >> /\ next <= Len(roots)
  /\ ~Wanted(roots[next])
  /\ next' = next + 1
  /\ UNCHANGED <<tool, hive, roots, stack, rows, pc>>

OpenRoot ==
  /\ pc = "walk" /\ stack = << >> /\ next <= Len(roots)
  /\ Wanted(roots[next])
  /\ stack' = <<Frame(roots[next].key, << >>, << >>, roots[next])>>
  /\ next' = next + 1
  /\ UNCHANGED <<tool, hive, roots, rows, pc>>

(* The root of the calls under way. *)
CurrentRoot == roots[next - 1]

(* One row is written. *)
EmitRow ==
  /\ pc = "walk" /\ stack # << >>
  /\ \E t \in Top.left :
       /\ Due(t) /\ t.kind = "row"
       /\ rows' = Append(rows,
            [root |-> next - 1, path |-> Top.path, at |-> t.at,
             abs |-> PathOf(Top.key, Top.abs, t.at),
             mru |-> IF tool = "gosbe" THEN MruPosition(hive.mru[Top.key], t.at)
                                       ELSE Unranked])
       /\ stack' = Rest(t)
  /\ UNCHANGED <<tool, hive, roots, next, pc>>

(* The write fails: every call under way returns the error. *)
EmitFails ==
  /\ pc = "walk" /\ stack # << >>
  /\ \E t \in Top.left : Due(t) /\ t.kind = "row"
  /\ pc' = "failed"
  /\ UNCHANGED <<tool, hive, roots, next, stack, rows>>

(* Mutant: the bag below an item inherits the path of the item's bag. *)
DescendFlat ==
  /\ pc = "walk" /\ stack # << >>
  /\ \E t \in Top.left :
       /\ Due(t) /\ t.kind = "key"
       /\ LET sub == SubkeyOf(Top.key, t.at) IN
          stack' = Append(Rest(t),
            Frame(sub, Append(Top.path, KeyName[sub]), Top.abs, CurrentRoot))
  /\ UNCHANGED <<tool, hive, roots, next, rows, pc>>

Descend ==
  /\ pc = "walk" /\ stack # << >>
  /\ \E t \in Top.left :
       /\ Due(t) /\ t.kind = "key"
       /\ LET sub == SubkeyOf(Top.key, t.at) IN
          stack' = Append(Rest(t),
            Frame(sub, Append(Top.path, KeyName[sub]),
                  PathOf(Top.key, Top.abs, t.at), CurrentRoot))
  /\ UNCHANGED <<tool, hive, roots, next, rows, pc>>

Return ==
  /\ pc = "walk" /\ stack # << >>
  /\ Top.left = {}
  /\ stack' = Front(stack)
  /\ UNCHANGED <<tool, hive, roots, next, rows, pc>>

Finish ==
  /\ pc = "walk" /\ stack = << >> /\ next > Len(roots)
  /\ pc' = "done"
  /\ UNCHANGED <<tool, hive, roots, next, stack, rows>>

Next ==
  SkipRoot \/ OpenRoot \/ EmitRow \/ EmitFails \/ Descend \/ Return \/ Finish

Spec == Init /\ [][Next]_vars

-----------------------------------------------------------------------------
(* Properties *)

FrameType ==
  [key : Key, path : Seq(Name), abs : Seq(STRING), left : SUBSET Task]
RowType ==
  [root : Nat, path : Seq(Name), at : Nat, abs : Seq(STRING), mru : Nat \cup {Unranked}]

TypeOK ==
  /\ tool \in Tool /\ hive \in Hive /\ roots \in Roots[tool]
  /\ next \in 1 .. Len(roots) + 1
  /\ stack \in Seq(FrameType)
  /\ stack # << >> => next > 1
  /\ rows \in Seq(RowType)
  /\ pc \in {"walk", "done", "failed"}
  /\ pc = "done" => stack = << >>

(* Where a row comes from.  *)
Place(row) == [root |-> row.root, path |-> row.path, at |-> row.at]

(* What every sound hive is: under one key no two subkeys have the same name,
   and no key is below itself.                                               *)
SiblingsApart ==
  \A h \in Hive : \A k \in Key : \A i, j \in DOMAIN h.subkeys[k] :
    KeyName[h.subkeys[k][i]] = KeyName[h.subkeys[k][j]] => i = j
NoCycles ==
  \A h \in Hive : \E depth \in [Key -> 1 .. Cardinality(Key)] :
    \A k \in Key : \A c \in RangeOf(h.subkeys[k]) : depth[k] < depth[c]

(* A walk that ends well has emitted what the hive holds and the roots ask for,
   each once and nothing else: for gore every value asked for of every key below a
   root that fits the hive, and the empty keys; for gosbe every numbered shell
   item with data that hangs on such items up to the root.  What is owed is
   defined along whole trails of keys, without the walk.                     *)
Leads(r, k, c) ==
  IF tool = "gore" THEN r.recursive /\ c \in RangeOf(hive.subkeys[k])
  ELSE \E s \in Slots(k) : BagsAt(k, s) # {} /\ Bag(k, s) = c
Trails(r) ==
  {t \in UNION {[1 .. n -> Key] : n \in 1 .. Cardinality(Key)} :
     t[1] = r.key /\ \A i \in 1 .. Len(t) - 1 : Leads(r, t[i], t[i + 1])}
OwedAt(r, k) ==
  LET values == hive.values[k] IN
  IF tool = "gosbe"
  THEN {n \in RangeOf(NumberOf) : \E i \in DOMAIN values :
          NumberOf[values[i].name] = n /\ n >= 0 /\ values[i].item # NoData}
  ELSE IF r.named = NoName /\ values = << >> THEN {0}
  ELSE {i \in DOMAIN values : r.named \in {NoName, values[i].name}}
Owed ==
  UNION {UNION {{[root |-> r, path |-> [i \in 1 .. Len(t) - 1 |-> KeyName[t[i + 1]]],
                  at |-> n] : n \in OwedAt(roots[r], t[Len(t)])} : t \in Trails(roots[r])} :
         r \in {r \in DOMAIN roots : roots[r].key # NoKey /\ (tool = "gosbe" \/ roots[r].fits)}}
EachRowOnce ==
  pc = "done" => /\ {Place(rows[i]) : i \in DOMAIN rows} = Owed
                 /\ Len(rows) = Cardinality(Owed)

(* What a row is about, found again in the hive by the names in its path: the
   key, and the name its item decodes to (of values that spell one number the
   last with data).                                                          *)
KeyAt(row) ==
  LET k[n \in 0 .. Len(row.path)] ==
        IF n = 0 THEN roots[row.root].key
        ELSE CHOOSE c \in RangeOf(hive.subkeys[k[n - 1]]) : KeyName[c] = row.path[n]
  IN  k[Len(row.path)]
NameAt(row) ==
  LET values == hive.values[KeyAt(row)]
      held == {i \in DOMAIN values :
                 NumberOf[values[i].name] = row.at /\ values[i].item # NoData}
  IN  values[Greatest(held)].item

(* The header of gosbe (line 22): AbsolutePath is the join of the decoded names
   from the root.  A row of a bag comes after the row of the item the bag hangs
   on, and its path is that row's and the name of its own item; of an item that
   is not decoded it is that row's alone.                                    *)
Extends(path, above, name) ==
  IF name = Undecoded THEN path = above
  ELSE Len(path) = Len(above) + 1 /\ Front(path) = above /\ Last(path) = name
AbsolutePathHolds ==
  tool = "gosbe" =>
    \A i \in DOMAIN rows :
      IF rows[i].path = << >> THEN Extends(rows[i].abs, << >>, NameAt(rows[i]))
      ELSE \E j \in 1 .. i - 1 :
             /\ rows[j].root = rows[i].root
             /\ rows[j].path = Front(rows[i].path)
             /\ rows[j].at = NumberOf[Last(rows[i].path)]
             /\ Extends(rows[i].abs, rows[j].abs, NameAt(rows[i]))

(* The rows' positions are those of their bag's MRUListEx, whatever the list is:
   short, without a terminator, or with a slot twice.  A slot the list has before
   its first negative number shows a position the list has it at; a slot it has
   not, or only after that number, shows none.                               *)
PositionsAreTheLists ==
  tool = "gosbe" =>
    \A i \in DOMAIN rows :
      LET list == hive.mru[KeyAt(rows[i])]
          held == {p \in DOMAIN list :
                     list[p] = rows[i].at /\ \A q \in 1 .. p - 1 : list[q] >= 0}
      IN  IF held = {} THEN rows[i].mru = Unranked ELSE rows[i].mru + 1 \in held
=============================================================================
