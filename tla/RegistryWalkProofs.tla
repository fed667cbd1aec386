------------------------- MODULE RegistryWalkProofs -------------------------
(***************************************************************************)
(* Theorems about RegistryWalk, for any hives and roots, in four layers.   *)
(* RInv is about the calls under way: the row of the item a bag hangs on   *)
(* was written, with the path the call was given.  TrailInv puts every     *)
(* call and every row at a key that a trail from its root leads to, and    *)
(* PathInv every row's path at that of the row its bag hangs on.           *)
(* OnceInv says of every place owed that it was emitted, or is covered by  *)
(* exactly one task of one call.  That names lead to keys, and that trails *)
(* end, are hypotheses about the hives (SiblingsApart, NoCycles).          *)
(***************************************************************************)
EXTENDS RegistryWalk, FiniteSetTheorems, TLAPS, WellFoundedInduction

HasRow(path, n, abs) ==
  \E j \in DOMAIN rows :
    /\ rows[j].root = next - 1 /\ rows[j].path = path
    /\ rows[j].at = n /\ rows[j].abs = abs

(* The call of a bag. *)
Hangs(f) ==
  IF f.path = << >> THEN f.abs = << >>
  ELSE HasRow(Front(f.path), NumberOf[Last(f.path)], f.abs)
RowsFirst(f) ==
  \A n \in Nat : Sub(n) \in f.left =>
    Row(n) \in f.left \/ HasRow(f.path, n, PathOf(f.key, f.abs, n))

CallOK(f) ==
  /\ f.left \subseteq Tasks(f.key, CurrentRoot)
  /\ tool = "gosbe" => Hangs(f) /\ RowsFirst(f)

Calls == {f \in FrameType : CallOK(f)}

RInv == TypeOK /\ stack \in Seq(Calls)

-----------------------------------------------------------------------------
(* Operators *)

LEMMA GreatestExists ==
  ASSUME NEW n \in Nat, NEW S \in SUBSET (1 .. n), S # {}
  PROVE  Greatest(S) \in S /\ \A j \in S : j <= Greatest(S)
<1> DEFINE distance == {n - i : i \in S}
           less == OpToRel(<, Nat)
<1>1. distance \subseteq Nat /\ distance # {}
  <2>1. \A i \in S : n - i \in Nat
    OBVIOUS
  <2>2. PICK i \in S : TRUE
    OBVIOUS
  <2>3. n - i \in distance
    OBVIOUS
  <2> QED
    BY <2>1, <2>3
<1>2. IsWellFoundedOn(less, Nat)
  BY NatLessThanWellFounded
<1>3. less = {p \in Nat \X Nat : p[1] < p[2]}
  BY DEF OpToRel
<1> HIDE DEF less
<1>4. PICK x \in distance : \A y \in distance : ~ (<<y, x>> \in less)
  BY <1>1, <1>2, WFMin, Zenon
<1>5. \A y \in distance : x <= y
  <2> SUFFICES ASSUME NEW y \in distance, y < x
               PROVE  FALSE
    BY <1>1
  <2>1. <<y, x>> \in less
    BY <1>1, <1>3
  <2> QED
    BY <2>1, <1>4
<1>6. PICK i \in S : x = n - i
  OBVIOUS
<1>7. \A j \in S : j <= i
  BY <1>5, <1>6
<1> QED
  BY <1>7 DEF Greatest

LEMMA ElementOf ==
  ASSUME NEW S, NEW s \in Seq(S), NEW i \in DOMAIN s
  PROVE  s[i] \in S
OBVIOUS

LEMMA EndsOfSequences ==
  ASSUME NEW S, NEW s \in Seq(S), s # << >>
  PROVE  /\ Last(s) \in S /\ Front(s) \in Seq(S)
         /\ Len(s) \in Nat /\ Len(s) >= 1 /\ Len(Front(s)) = Len(s) - 1
         /\ \A i \in 1 .. Len(s) - 1 : Front(s)[i] = s[i]
         /\ s[Len(s)] = Last(s)
BY DEF Last, Front

LEMMA EndsOfAppend ==
  ASSUME NEW S, NEW s \in Seq(S), NEW e \in S
  PROVE  Front(Append(s, e)) = s /\ Last(Append(s, e)) = e /\ Append(s, e) # << >>
BY DEF Last, Front

LEMMA HiveFacts ==
  ASSUME NEW h \in Hive, NEW k \in Key
  PROVE  h.values[k] \in Seq(Value) /\ h.subkeys[k] \in Seq(Key) /\ h.mru[k] \in Seq(Int)
BY HiveAssumption

LEMMA NameFacts ==
  /\ \A n \in Name : NumberOf[n] \in Nat \cup {NotNumeric}
  /\ \A k \in Key : KeyName[k] \in Name
BY NameAssumption

LEMMA RootFacts ==
  ASSUME TypeOK, NEW i \in DOMAIN roots
  PROVE  roots[i] \in Root
BY RootsAssumption DEF TypeOK

LEMMA SlotFacts ==
  ASSUME hive \in Hive, NEW k \in Key, NEW slot \in Slots(k)
  PROVE  slot \in Nat /\ Item(k, slot) \in STRING
<1>1. hive.values[k] \in Seq(Value)
  BY HiveFacts
<1> DEFINE values == hive.values[k]
<1>2. PICK j \in DOMAIN values :
        /\ values[j].item # NoData /\ NumberOf[values[j].name] # NotNumeric
        /\ slot = NumberOf[values[j].name]
  BY DEF Slots
<1>3. slot \in Nat
  <2>1. values[j] \in Value
    BY <1>1, ElementOf
  <2>2. values[j].name \in Name
    BY <2>1 DEF Value
  <2> QED
    BY <1>2, <2>2, NameFacts
<1>4. ItemAt(k, slot) \in SUBSET (1 .. Len(values)) /\ ItemAt(k, slot) # {}
      /\ Len(values) \in Nat
  BY <1>1, <1>2 DEF ItemAt
<1>5. Greatest(ItemAt(k, slot)) \in DOMAIN values
  <2>1. Greatest(ItemAt(k, slot)) \in ItemAt(k, slot)
    BY <1>4, GreatestExists
  <2> QED
    BY <2>1 DEF ItemAt
<1>6. values[Greatest(ItemAt(k, slot))] \in Value
  BY <1>1, <1>5, ElementOf
<1> QED
  BY <1>3, <1>6 DEF Item, Value

LEMMA BagFacts ==
  ASSUME hive \in Hive, NEW k \in Key, NEW slot, BagsAt(k, slot) # {}
  PROVE  Bag(k, slot) \in Key /\ NumberOf[KeyName[Bag(k, slot)]] = slot
<1>1. hive.subkeys[k] \in Seq(Key)
  BY HiveFacts
<1>2. BagsAt(k, slot) \in SUBSET (1 .. Len(hive.subkeys[k])) /\ Len(hive.subkeys[k]) \in Nat
  BY <1>1 DEF BagsAt
<1>3. Greatest(BagsAt(k, slot)) \in BagsAt(k, slot)
  BY <1>2, GreatestExists
<1>4. hive.subkeys[k][Greatest(BagsAt(k, slot))] \in Key
  BY <1>1, <1>3, ElementOf DEF BagsAt
<1> QED
  BY <1>3, <1>4 DEF Bag, BagsAt

LEMMA TaskFacts ==
  ASSUME hive \in Hive, NEW k \in Key, NEW r \in Root
  PROVE  Tasks(k, r) \in SUBSET Task
<1>1. hive.values[k] \in Seq(Value) /\ hive.subkeys[k] \in Seq(Key)
  BY HiveFacts
<1>2. BagTasks(k) \subseteq Task
  BY SlotFacts DEF BagTasks, Task, TaskKind, Row, Sub
<1>3. KeyTasks(k, r) \subseteq Task
  BY <1>1 DEF KeyTasks, Task, TaskKind, Row, Sub
<1> QED
  BY <1>2, <1>3 DEF Tasks

(* What a due task of a call is about. *)
LEMMA RowTaskFacts ==
  ASSUME hive \in Hive, tool = "gosbe", NEW k \in Key, NEW r, NEW n \in Nat,
         Row(n) \in Tasks(k, r)
  PROVE  n \in Slots(k)
BY DEF Tasks, BagTasks, Row, Sub

LEMMA SubTaskFacts ==
  ASSUME hive \in Hive, tool \in Tool, NEW k \in Key, NEW r \in Root, NEW n \in Nat,
         Sub(n) \in Tasks(k, r)
  PROVE  /\ SubkeyOf(k, n) \in Key
         /\ tool = "gosbe" => n \in Slots(k) /\ NumberOf[KeyName[SubkeyOf(k, n)]] = n
<1>1. CASE tool = "gosbe"
  <2>1. n \in Slots(k) /\ BagsAt(k, n) # {}
    BY <1>1 DEF Tasks, BagTasks, Row, Sub
  <2> QED
    BY <1>1, <2>1, BagFacts DEF SubkeyOf
<1>2. CASE tool # "gosbe"
  <2>1. n \in DOMAIN hive.subkeys[k]
    BY <1>2 DEF Tasks, KeyTasks, Row, Sub
  <2> QED
    BY <1>2, <2>1, HiveFacts DEF SubkeyOf
<1> QED
  BY <1>1, <1>2

LEMMA JoinedFacts ==
  ASSUME NEW S, NEW path \in Seq(S), NEW name \in S
  PROVE  Joined(path, name) \in Seq(S)
<1>1. Append(path, name) \in Seq(S)
  OBVIOUS
<1> QED
  BY <1>1 DEF Joined

LEMMA PathFacts ==
  ASSUME hive \in Hive, NEW k \in Key, NEW abs \in Seq(STRING), NEW n \in Nat,
         tool = "gosbe" => n \in Slots(k)
  PROVE  PathOf(k, abs, n) \in Seq(STRING)
<1>1. CASE tool = "gosbe"
  <2>1. Item(k, n) \in STRING
    BY <1>1, SlotFacts
  <2> QED
    BY <1>1, <2>1, JoinedFacts DEF PathOf
<1>2. CASE tool # "gosbe"
  BY <1>2 DEF PathOf
<1> QED
  BY <1>1, <1>2

LEMMA MruFacts ==
  ASSUME NEW list \in Seq(Int), NEW slot
  PROVE  MruPosition(list, slot) \in Nat \cup {Unranked}
<1> DEFINE at == {i \in Live(list) : list[i] = slot}
<1>1. CASE at = {}
  BY <1>1 DEF MruPosition
<1>2. CASE at # {}
  <2>1. at \in SUBSET (1 .. Len(list)) /\ Len(list) \in Nat
    BY DEF Live
  <2>2. Greatest(at) \in 1 .. Len(list)
    BY <1>2, <2>1, GreatestExists
  <2> QED
    BY <1>2, <2>1, <2>2 DEF MruPosition
<1> QED
  BY <1>1, <1>2

-----------------------------------------------------------------------------
(* Rows that were written stay. *)
LEMMA HasRowStays ==
  ASSUME NEW path, NEW n, NEW abs, HasRow(path, n, abs), next' = next,
         rows \in Seq(RowType),
         rows' = rows \/ \E r \in RowType : rows' = Append(rows, r)
  PROVE  HasRow(path, n, abs)'
<1>1. \A j \in DOMAIN rows : j \in DOMAIN rows' /\ rows'[j] = rows[j]
  OBVIOUS
<1> QED
  BY <1>1 DEF HasRow

LEMMA CallsStay ==
  ASSUME next' = next, roots' = roots, hive' = hive, tool' = tool,
         rows \in Seq(RowType),
         rows' = rows \/ \E r \in RowType : rows' = Append(rows, r)
  PROVE  Calls \subseteq Calls'
<1> SUFFICES ASSUME NEW f \in FrameType, CallOK(f)
             PROVE  CallOK(f)'
  BY DEF Calls
<1>1. f.left \subseteq Tasks(f.key, CurrentRoot)'
  BY DEF CallOK, CurrentRoot, Tasks, BagTasks, KeyTasks, Slots, BagsAt
<1>2. ASSUME tool = "gosbe" PROVE Hangs(f)'
  BY <1>2, HasRowStays DEF CallOK, Hangs
<1>3. ASSUME tool = "gosbe" PROVE RowsFirst(f)'
  <2> SUFFICES ASSUME NEW n \in Nat, Sub(n) \in f.left, Row(n) \notin f.left
               PROVE  HasRow(f.path, n, PathOf(f.key, f.abs, n))'
    BY DEF RowsFirst
  <2>1. HasRow(f.path, n, PathOf(f.key, f.abs, n))
    BY <1>3 DEF CallOK, RowsFirst
  <2>2. PathOf(f.key, f.abs, n)' = PathOf(f.key, f.abs, n)
    BY DEF PathOf, Item, ItemAt
  <2> QED
    BY <2>1, <2>2, HasRowStays
<1> QED
  BY <1>1, <1>2, <1>3 DEF CallOK

LEMMA Widened ==
  ASSUME NEW S, NEW T, S \subseteq T, NEW s \in Seq(S)
  PROVE  s \in Seq(T)
OBVIOUS

(* The innermost call. *)
LEMMA TopFacts ==
  ASSUME RInv, stack # << >>
  PROVE  /\ Top \in FrameType /\ CallOK(Top) /\ Front(stack) \in Seq(Calls)
         /\ next - 1 \in DOMAIN roots /\ CurrentRoot \in Root
         /\ next \in Nat /\ hive \in Hive /\ tool \in Tool
         /\ rows \in Seq(RowType)
<1>1. stack \in Seq(Calls) /\ next > 1 /\ next \in 1 .. Len(roots) + 1
      /\ hive \in Hive /\ tool \in Tool /\ rows \in Seq(RowType)
  BY DEF RInv, TypeOK
<1>2. roots \in Seq(Root)
  BY RootsAssumption DEF RInv, TypeOK
<1>3. next - 1 \in DOMAIN roots
  BY <1>1, <1>2
<1>4. Top \in Calls /\ Front(stack) \in Seq(Calls)
  BY <1>1, EndsOfSequences DEF Top
<1>5. CurrentRoot \in Root
  BY <1>2, <1>3, ElementOf DEF CurrentRoot
<1> QED
  BY <1>1, <1>3, <1>4, <1>5 DEF Calls

LEMMA InitRInv == Init => RInv
BY DEF Init, RInv, TypeOK

(* A call that begins has all its tasks, and the row it hangs on. *)
LEMMA FirstCall ==
  ASSUME NEW f, NEW k \in Key, NEW r,
         f.key = k, f.left = Tasks(k, r), CurrentRoot' = r, hive' = hive, tool' = tool,
         tool = "gosbe" => Hangs(f)'
  PROVE  CallOK(f)'
<1>1. Tasks(f.key, CurrentRoot)' = Tasks(k, r)
  BY DEF Tasks, BagTasks, KeyTasks, Slots, BagsAt
<1>2. ASSUME tool = "gosbe" PROVE RowsFirst(f)'
  <2>1. f.left = BagTasks(k)
    BY <1>2 DEF Tasks
  <2>2. \A n \in Nat : Sub(n) \in f.left => Row(n) \in f.left
    BY <2>1 DEF BagTasks, Row, Sub
  <2> QED
    BY <2>2 DEF RowsFirst
<1> QED
  BY <1>1, <1>2 DEF CallOK

(* The first call for a root. *)
LEMMA OpenRootRInv ==
  ASSUME RInv, OpenRoot
  PROVE  RInv'
<1>1. /\ tool \in Tool /\ hive \in Hive /\ roots \in Roots[tool] /\ pc = "walk"
      /\ next \in 1 .. Len(roots) + 1 /\ next <= Len(roots) /\ rows \in Seq(RowType)
      /\ tool' = tool /\ hive' = hive /\ roots' = roots /\ next' = next + 1
      /\ rows' = rows /\ pc' = pc
      /\ stack' = <<Frame(roots[next].key, << >>, << >>, roots[next])>>
  BY DEF RInv, TypeOK, OpenRoot
<1>2. roots \in Seq(Root)
  BY <1>1, RootsAssumption
<1>3. next \in DOMAIN roots /\ next' - 1 = next /\ next' \in 1 .. Len(roots) + 1
      /\ next' > 1
  BY <1>1, <1>2
<1>4. roots[next] \in Root
  BY <1>2, <1>3, ElementOf
<1>5. roots[next].key \in Key
  BY <1>4 DEF OpenRoot, Wanted, Root
<1>60. PICK k \in Key, r \in Root : roots[next] = r /\ r.key = k
  BY <1>4, <1>5
<1>6. PICK f : f = Frame(k, << >>, << >>, r)
  OBVIOUS
<1>7. f.key = k /\ f.path = << >> /\ f.abs = << >> /\ f.left = Tasks(k, r)
      /\ f \in FrameType
  <2>1. Tasks(k, r) \in SUBSET Task
    BY <1>1, TaskFacts
  <2> QED
    BY <1>6, <2>1 DEF Frame, FrameType
<1>71. CallOK(f)'
  <2>1. CurrentRoot' = r
    BY <1>1, <1>3, <1>60 DEF CurrentRoot
  <2>2. Hangs(f)'
    BY <1>7 DEF Hangs
  <2> QED
    BY <1>1, <1>7, <2>1, <2>2, FirstCall
<1>8. stack' \in Seq(Calls') /\ stack' \in Seq(FrameType)
  <2>1. f \in Calls'
    BY <1>7, <1>71 DEF Calls
  <2>2. stack' = <<f>>
    BY <1>1, <1>60, <1>6
  <2> QED
    BY <1>7, <2>1, <2>2
<1>9. TypeOK'
  BY <1>1, <1>3, <1>8 DEF TypeOK
<1> QED
  BY <1>8, <1>9 DEF RInv

(* A call with a task less. *)
LEMMA LessLeft ==
  ASSUME NEW c \in FrameType, CallOK(c)', tool \in Tool, tool' = tool, NEW t \in c.left, NEW n \in Nat,
         t = Sub(n) \/ (t = Row(n) /\ (tool = "gosbe" => HasRow(c.path, n, PathOf(c.key, c.abs, n))')),
         NEW g, g = [c EXCEPT !.left = @ \ {t}]
  PROVE  g \in FrameType /\ CallOK(g)'
<1>1. g \in FrameType /\ g.key = c.key /\ g.path = c.path /\ g.abs = c.abs
      /\ g.left = c.left \ {t}
  BY DEF FrameType
<1>2. g.left \subseteq Tasks(g.key, CurrentRoot)'
  BY <1>1 DEF CallOK
<1>3. ASSUME tool = "gosbe" PROVE Hangs(g)'
  BY <1>1, <1>3 DEF CallOK, Hangs
<1>4. ASSUME tool = "gosbe" PROVE RowsFirst(g)'
  <2> SUFFICES ASSUME NEW m \in Nat, Sub(m) \in g.left, Row(m) \notin g.left
               PROVE  HasRow(g.path, m, PathOf(g.key, g.abs, m))'
    BY DEF RowsFirst
  <2>1. Sub(m) \in c.left
    BY <1>1
  <2>2. CASE Row(m) \in c.left
    <3>1. t = Row(m)
      BY <1>1, <2>2
    <3>2. Row(m) # Sub(n) /\ (Row(m) = Row(n) => m = n)
      BY DEF Row, Sub
    <3>3. m = n
      BY <3>1, <3>2
    <3> QED
      BY <1>1, <1>4, <3>1, <3>2, <3>3
  <2>3. CASE Row(m) \notin c.left
    BY <1>1, <1>4, <2>1, <2>3 DEF CallOK, RowsFirst
  <2> QED
    BY <2>2, <2>3
<1> QED
  BY <1>1, <1>2, <1>3, <1>4 DEF CallOK

LEMMA TaskShape ==
  ASSUME NEW t \in Task
  PROVE  t.at \in Nat /\ (t.kind = "row" => t = Row(t.at)) /\ (t.kind = "key" => t = Sub(t.at))
BY DEF Task, TaskKind, Row, Sub

LEMMA EmitRowRInv ==
  ASSUME RInv, EmitRow
  PROVE  RInv'
<1>1. /\ Top \in FrameType /\ CallOK(Top) /\ Front(stack) \in Seq(Calls)
      /\ next - 1 \in DOMAIN roots /\ CurrentRoot \in Root
      /\ next \in Nat /\ hive \in Hive /\ tool \in Tool
      /\ rows \in Seq(RowType)
  BY TopFacts DEF EmitRow
<1>2. PICK t \in Top.left : Due(t) /\ t.kind = "row" /\ stack' = Rest(t)
        /\ rows' = Append(rows,
            [root |-> next - 1, path |-> Top.path, at |-> t.at,
             abs |-> PathOf(Top.key, Top.abs, t.at),
             mru |-> IF tool = "gosbe" THEN MruPosition(hive.mru[Top.key], t.at)
                                       ELSE Unranked])
  BY DEF EmitRow
<1>3. /\ tool' = tool /\ hive' = hive /\ roots' = roots /\ next' = next /\ pc' = pc
      /\ pc = "walk" /\ stack # << >>
  BY DEF EmitRow
<1>4. PICK c \in FrameType, n \in Nat : c = Top /\ t = Row(n) /\ t \in c.left /\ t.at = n
  <2>1. Top.left \in SUBSET Task
    BY <1>1 DEF FrameType
  <2> QED
    BY <1>1, <1>2, <2>1, TaskShape
<1>5. c.key \in Key /\ c.path \in Seq(Name) /\ c.abs \in Seq(STRING)
  BY DEF FrameType
<1>6. tool = "gosbe" => n \in Slots(c.key)
  <2>1. Row(n) \in Tasks(c.key, CurrentRoot)
    BY <1>1, <1>4 DEF CallOK
  <2> QED
    BY <1>1, <1>5, <2>1, RowTaskFacts
<1>7. PICK row \in RowType : /\ row.root = next - 1 /\ row.path = c.path /\ row.at = n
                             /\ row.abs = PathOf(c.key, c.abs, n)
                             /\ rows' = Append(rows, row)
  <2>1. PathOf(c.key, c.abs, n) \in Seq(STRING)
    BY <1>1, <1>5, <1>6, PathFacts
  <2>2. PICK place \in Nat \cup {Unranked} :
          place = IF tool = "gosbe" THEN MruPosition(hive.mru[c.key], n) ELSE Unranked
    <3>1. hive.mru[c.key] \in Seq(Int)
      BY <1>1, <1>5, HiveFacts
    <3>2. MruPosition(hive.mru[c.key], n) \in Nat \cup {Unranked}
      BY <3>1, MruFacts
    <3> QED
      BY <3>2
  <2>3. next - 1 \in Nat
    <3>1. next \in 1 .. Len(roots) + 1 /\ next > 1
      BY <1>3 DEF RInv, TypeOK
    <3> QED
      BY <1>1, <3>1
  <2> DEFINE row == [root |-> next - 1, path |-> c.path, at |-> n,
                     abs |-> PathOf(c.key, c.abs, n), mru |-> place]
  <2>4. row \in RowType
    BY <1>5, <2>1, <2>2, <2>3 DEF RowType
  <2>5. rows' = Append(rows, row)
    BY <1>2, <1>4, <2>2
  <2> QED
    BY <2>4, <2>5
<1>8. rows' \in Seq(RowType) /\ Calls \subseteq Calls'
  BY <1>1, <1>3, <1>7, CallsStay
<1>9. CallOK(c)'
  <2>1. c \in Calls
    BY <1>1, <1>4 DEF Calls
  <2> QED
    BY <1>8, <2>1 DEF Calls
<1>10. ASSUME tool = "gosbe" PROVE HasRow(c.path, n, PathOf(c.key, c.abs, n))'
  <2>1. PathOf(c.key, c.abs, n)' = PathOf(c.key, c.abs, n)
    BY <1>3 DEF PathOf, Item, ItemAt
  <2>2. Len(rows) + 1 \in DOMAIN rows' /\ rows'[Len(rows) + 1] = row
    BY <1>1, <1>7
  <2> QED
    BY <1>3, <1>7, <2>1, <2>2 DEF HasRow
<1>11. PICK g : g = [c EXCEPT !.left = @ \ {t}]
  OBVIOUS
<1>12. g \in Calls' /\ g \in FrameType
  <2>1. g \in FrameType /\ CallOK(g)'
    BY <1>1, <1>3, <1>4, <1>9, <1>10, <1>11, LessLeft
  <2> QED
    BY <2>1 DEF Calls
<1>13. stack' \in Seq(Calls') /\ stack' \in Seq(FrameType)
  <2>1. stack' = Append(Front(stack), g)
    BY <1>2, <1>4, <1>11 DEF Rest
  <2>2. Front(stack) \in Seq(Calls')
    BY <1>1, <1>8, Widened
  <2>3. Calls' \subseteq FrameType
    BY DEF Calls
  <2> QED
    BY <1>12, <2>1, <2>2, <2>3, Widened
<1>14. TypeOK'
  BY <1>3, <1>8, <1>13 DEF RInv, TypeOK
<1> QED
  BY <1>13, <1>14 DEF RInv

LEMMA DescendRInv ==
  ASSUME RInv, Descend
  PROVE  RInv'
<1>1. /\ Top \in FrameType /\ CallOK(Top) /\ Front(stack) \in Seq(Calls)
      /\ next - 1 \in DOMAIN roots /\ CurrentRoot \in Root
      /\ next \in Nat /\ hive \in Hive /\ tool \in Tool
      /\ rows \in Seq(RowType)
  BY TopFacts DEF Descend
<1>2. PICK t \in Top.left :
        /\ Due(t) /\ t.kind = "key"
        /\ stack' = Append(Rest(t),
             Frame(SubkeyOf(Top.key, t.at), Append(Top.path, KeyName[SubkeyOf(Top.key, t.at)]),
                   PathOf(Top.key, Top.abs, t.at), CurrentRoot))
  BY DEF Descend
<1>3. /\ tool' = tool /\ hive' = hive /\ roots' = roots /\ next' = next /\ pc' = pc
      /\ rows' = rows /\ pc = "walk" /\ stack # << >>
  BY DEF Descend
<1>4. PICK c \in FrameType, n \in Nat :
        c = Top /\ t = Sub(n) /\ t \in c.left /\ t.at = n
  <2>1. Top.left \in SUBSET Task
    BY <1>1 DEF FrameType
  <2> QED
    BY <1>1, <1>2, <2>1, TaskShape
<1>5. c.key \in Key /\ c.path \in Seq(Name) /\ c.abs \in Seq(STRING)
  BY DEF FrameType
<1>6. /\ SubkeyOf(c.key, n) \in Key
      /\ tool = "gosbe" => n \in Slots(c.key) /\ NumberOf[KeyName[SubkeyOf(c.key, n)]] = n
  <2>1. Sub(n) \in Tasks(c.key, CurrentRoot)
    BY <1>1, <1>4 DEF CallOK
  <2> QED
    BY <1>1, <1>5, <2>1, SubTaskFacts
<1>70. PICK sub \in Key, name \in Name, path \in Seq(Name), abs \in Seq(STRING), r \in Root :
        /\ sub = SubkeyOf(c.key, n) /\ name = KeyName[sub] /\ path = Append(c.path, name)
        /\ abs = PathOf(c.key, c.abs, n) /\ r = CurrentRoot
  <2>1. PathOf(c.key, c.abs, n) \in Seq(STRING)
    BY <1>1, <1>5, <1>6, PathFacts
  <2>2. KeyName[SubkeyOf(c.key, n)] \in Name
    BY <1>6, NameFacts
  <2>3. Append(c.path, KeyName[SubkeyOf(c.key, n)]) \in Seq(Name)
    BY <1>5, <2>2
  <2> QED
    BY <1>1, <1>6, <2>1, <2>2, <2>3
<1>7. PICK f : f = [key |-> sub, path |-> path, abs |-> abs, left |-> Tasks(sub, r)]
  OBVIOUS
<1>8. Calls \subseteq Calls'
  BY <1>1, <1>3, CallsStay
<1>9. CallOK(c) /\ CallOK(c)'
  <2>1. c \in Calls
    BY <1>1, <1>4 DEF Calls
  <2> QED
    BY <1>8, <2>1 DEF Calls
<1>10. PICK g : g = [c EXCEPT !.left = @ \ {t}]
  OBVIOUS
<1>11. g \in Calls' /\ g \in FrameType
  <2>1. g \in FrameType /\ CallOK(g)'
    BY <1>1, <1>3, <1>4, <1>9, <1>10, LessLeft
  <2> QED
    BY <2>1 DEF Calls
<1>12. f \in FrameType /\ f.key = sub /\ f.path = path /\ f.abs = abs
       /\ f.left = Tasks(sub, r)
  <2>1. Tasks(sub, r) \in SUBSET Task
    BY <1>1, TaskFacts
  <2> QED
    BY <1>70, <1>7, <2>1 DEF FrameType
<1>13. ASSUME tool = "gosbe" PROVE Hangs(f)'
  <2>1. Row(n) \notin c.left
    <3>1. Row(n) # t /\ ~ Precedes(t, Row(n))
      BY <1>4, <1>13 DEF Row, Sub, Precedes
    <3> QED
      BY <1>2, <1>4, <3>1 DEF Due
  <2>2. HasRow(c.path, n, abs)
    BY <1>4, <1>70, <1>7, <1>9, <1>13, <2>1 DEF CallOK, RowsFirst
  <2>3. HasRow(c.path, n, abs)'
    BY <1>1, <1>3, <2>2, HasRowStays
  <2>4. Front(path) = c.path /\ Last(path) = name /\ path # << >>
    BY <1>5, <1>70, <1>7, EndsOfAppend
  <2>5. NumberOf[name] = n
    BY <1>6, <1>70, <1>7, <1>13
  <2> QED
    BY <1>12, <2>3, <2>4, <2>5 DEF Hangs
<1>14. f \in Calls'
  <2>1. CurrentRoot' = r
    BY <1>3, <1>70, <1>7 DEF CurrentRoot
  <2>2. CallOK(f)'
    BY <1>3, <1>12, <1>13, <2>1, FirstCall
  <2> QED
    BY <1>12, <2>2 DEF Calls
<1>15. stack' \in Seq(Calls') /\ stack' \in Seq(FrameType)
  <2>1. stack' = Append(Append(Front(stack), g), f)
    BY <1>2, <1>4, <1>70, <1>7, <1>10 DEF Rest, Frame
  <2>2. Front(stack) \in Seq(Calls')
    BY <1>1, <1>8, Widened
  <2>3. Calls' \subseteq FrameType
    BY DEF Calls
  <2> QED
    BY <1>11, <1>14, <2>1, <2>2, <2>3, Widened
<1>16. TypeOK'
  BY <1>1, <1>3, <1>15 DEF RInv, TypeOK
<1> QED
  BY <1>15, <1>16 DEF RInv

LEMMA ReturnRInv ==
  ASSUME RInv, Return
  PROVE  RInv'
<1>1. Front(stack) \in Seq(Calls) /\ rows \in Seq(RowType)
  BY TopFacts DEF Return
<1>2. /\ tool' = tool /\ hive' = hive /\ roots' = roots /\ next' = next /\ pc' = pc
      /\ rows' = rows /\ pc = "walk" /\ stack # << >> /\ stack' = Front(stack)
  BY DEF Return
<1>3. Calls \subseteq Calls'
  BY <1>1, <1>2, CallsStay
<1>4. stack' \in Seq(Calls') /\ stack' \in Seq(FrameType)
  <2>1. Calls \subseteq FrameType
    BY DEF Calls
  <2> QED
    BY <1>1, <1>2, <1>3, <2>1, Widened
<1>5. TypeOK'
  BY <1>2, <1>4 DEF RInv, TypeOK
<1> QED
  BY <1>4, <1>5 DEF RInv

(* The steps that leave the calls alone. *)
LEMMA OtherRInv ==
  ASSUME RInv, SkipRoot \/ EmitFails \/ Finish \/ UNCHANGED vars
  PROVE  RInv'
<1>1. /\ tool' = tool /\ hive' = hive /\ roots' = roots /\ rows' = rows /\ stack' = stack
  BY DEF SkipRoot, EmitFails, Finish, vars
<1>2. TypeOK'
  <2>1. roots \in Seq(Root)
    BY RootsAssumption DEF RInv, TypeOK
  <2> QED
    BY <1>1, <2>1 DEF RInv, TypeOK, SkipRoot, EmitFails, Finish, vars
<1>3. stack' \in Seq(Calls')
  <2>1. CASE stack = << >>
    BY <1>1, <2>1
  <2>2. CASE stack # << >>
    <3>1. next' = next
      BY <2>2 DEF SkipRoot, EmitFails, Finish, vars
    <3>2. Calls \subseteq Calls' /\ stack \in Seq(Calls)
      BY <1>1, <3>1, CallsStay DEF RInv, TypeOK
    <3> QED
      BY <1>1, <3>2, Widened
  <2> QED
    BY <2>1, <2>2
<1> QED
  BY <1>2, <1>3 DEF RInv

-----------------------------------------------------------------------------
(* Theorems *)

(* What the walks need to be inductive holds in every state. *)
THEOREM WalkInvariance == Spec => []RInv
<1>1. RInv /\ [Next]_vars => RInv'
  BY OpenRootRInv, EmitRowRInv, DescendRInv, ReturnRInv, OtherRInv DEF Next
<1> QED
  BY <1>1, InitRInv, PTL DEF Spec

(* Every variable keeps its type, however deep the walk is; calls are under
   way only for a root that was opened, and none when the walk ended well.   *)
THEOREM WalkTypeCorrect == Spec => []TypeOK
<1>1. RInv => TypeOK
  BY DEF RInv
<1> QED
  BY <1>1, WalkInvariance, PTL

-----------------------------------------------------------------------------
(* Trails of keys.  Every call and every row has one from its root: the keys
   its path names.  Unlike Trails they may have any length.                  *)

IsTrail(r, t) ==
  /\ Len(t) >= 1 /\ t[1] = r.key
  /\ \A i \in 1 .. Len(t) - 1 : Leads(r, t[i], t[i + 1])
Names(t, path) ==
  /\ Len(t) = Len(path) + 1
  /\ \A i \in 1 .. Len(path) : path[i] = KeyName[t[i + 1]]

CallTrail(f) ==
  \E t \in Seq(Key) : IsTrail(CurrentRoot, t) /\ Names(t, f.path) /\ Last(t) = f.key
RowTrail(row) ==
  /\ row.root \in DOMAIN roots /\ row.root < next /\ Wanted(roots[row.root])
  /\ \E t \in Seq(Key) :
       /\ IsTrail(roots[row.root], t) /\ Names(t, row.path)
       /\ row.at \in OwedAt(roots[row.root], Last(t))
       /\ tool = "gosbe" => row.mru = MruPosition(hive.mru[Last(t)], row.at)

(* Calls and rows are where the hive has them, and rows are owed. *)
TrailInv ==
  /\ \A i \in DOMAIN stack : CallTrail(stack[i])
  /\ stack # << >> => Wanted(CurrentRoot)
  /\ \A i \in DOMAIN rows : RowTrail(rows[i])

LEMMA NoElements ==
  ASSUME NEW S, NEW s \in Seq(S)
  PROVE  DOMAIN s = {} <=> s = << >>
<1>1. Len(s) \in Nat /\ DOMAIN s = 1 .. Len(s)
  OBVIOUS
<1>2. ASSUME Len(s) = 0 PROVE s = << >> /\ DOMAIN s = {}
  BY <1>1, <1>2
<1>3. ASSUME Len(s) # 0 PROVE s # << >> /\ 1 \in DOMAIN s
  BY <1>1, <1>3
<1> QED
  BY <1>2, <1>3

(* The rows of a call are what is owed at its key. *)
LEMMA RowsAreOwed ==
  ASSUME hive \in Hive, tool \in Tool, NEW k \in Key, NEW r \in Root, NEW n \in Nat
  PROVE  Row(n) \in Tasks(k, r) <=> n \in OwedAt(r, k)
<1>1. hive.values[k] \in Seq(Value)
  BY HiveFacts
<1> DEFINE values == hive.values[k]
<1>2. \A j \in DOMAIN values :
        NumberOf[values[j].name] \in Nat \cup {NotNumeric} /\ values[j].name \in Name
  <2> SUFFICES ASSUME NEW j \in DOMAIN values
               PROVE  NumberOf[values[j].name] \in Nat \cup {NotNumeric} /\ values[j].name \in Name
    OBVIOUS
  <2>1. values[j] \in Value
    BY <1>1, ElementOf
  <2>2. values[j].name \in Name
    BY <2>1 DEF Value
  <2> QED
    BY <2>2, NameFacts
<1>3. CASE tool = "gosbe"
  <2>1. Row(n) \in Tasks(k, r) <=> n \in Slots(k)
    BY <1>3 DEF Tasks, BagTasks, Row, Sub
  <2>2. n \in Slots(k) <=> \E j \in DOMAIN values : /\ NumberOf[values[j].name] = n
                                                    /\ values[j].item # NoData
    BY <1>2 DEF Slots, NotNumeric
  <2>3. n \in OwedAt(r, k) <=>
          /\ n \in RangeOf(NumberOf)
          /\ \E j \in DOMAIN values : NumberOf[values[j].name] = n /\ values[j].item # NoData
    BY <1>3 DEF OwedAt
  <2>4. ASSUME NEW j \in DOMAIN values PROVE NumberOf[values[j].name] \in RangeOf(NumberOf)
    BY <1>2, NameAssumption DEF RangeOf
  <2> QED
    BY <2>1, <2>2, <2>3, <2>4
<1>4. CASE tool # "gosbe"
  <2>1. Row(n) \in Tasks(k, r) <=>
          \/ n \in DOMAIN values /\ (r.named = NoName \/ values[n].name = r.named)
          \/ r.named = NoName /\ DOMAIN values = {} /\ n = 0
    BY <1>4 DEF Tasks, KeyTasks, Row, Sub
  <2>2. DOMAIN values = {} <=> values = << >>
    BY <1>1, NoElements
  <2>3. n \in OwedAt(r, k) <=>
          IF r.named = NoName /\ values = << >> THEN n = 0
          ELSE n \in DOMAIN values /\ r.named \in {NoName, values[n].name}
    BY <1>4 DEF OwedAt, Tool
  <2> QED
    BY <2>1, <2>2, <2>3
<1> QED
  BY <1>3, <1>4

(* The descents of a call are the keys a trail goes on to. *)
LEMMA DescentsLead ==
  ASSUME hive \in Hive, tool \in Tool, NEW k \in Key, NEW r \in Root
  PROVE  /\ \A n \in Nat : Sub(n) \in Tasks(k, r) => Leads(r, k, SubkeyOf(k, n))
         /\ \A c : Leads(r, k, c) => \E n \in Nat : Sub(n) \in Tasks(k, r) /\ SubkeyOf(k, n) = c
         /\ \A c : Leads(r, k, c) => c \in RangeOf(hive.subkeys[k]) /\ c \in Key
<1>1. hive.subkeys[k] \in Seq(Key) /\ DOMAIN hive.subkeys[k] = 1 .. Len(hive.subkeys[k])
      /\ Len(hive.subkeys[k]) \in Nat
  BY HiveFacts
<1>2. CASE tool = "gosbe"
  <2>1. \A n \in Nat : Sub(n) \in Tasks(k, r) <=> n \in Slots(k) /\ BagsAt(k, n) # {}
    BY <1>2 DEF Tasks, BagTasks, Row, Sub
  <2>2. \A c : Leads(r, k, c) <=> \E s \in Slots(k) : BagsAt(k, s) # {} /\ Bag(k, s) = c
    BY <1>2 DEF Leads
  <2>3. \A n : SubkeyOf(k, n) = Bag(k, n)
    BY <1>2 DEF SubkeyOf
  <2>4. \A s \in Slots(k) : s \in Nat
    BY SlotFacts
  <2>5. ASSUME NEW s \in Slots(k), BagsAt(k, s) # {}
        PROVE  Bag(k, s) \in RangeOf(hive.subkeys[k]) /\ Bag(k, s) \in Key
    <3>1. BagsAt(k, s) \in SUBSET (1 .. Len(hive.subkeys[k]))
      BY <1>1 DEF BagsAt
    <3>2. Greatest(BagsAt(k, s)) \in BagsAt(k, s)
      BY <1>1, <2>5, <3>1, GreatestExists
    <3> QED
      BY <1>1, <2>5, <3>1, <3>2, BagFacts DEF Bag, RangeOf
  <2> QED
    BY <2>1, <2>2, <2>3, <2>4, <2>5
<1>3. CASE tool # "gosbe"
  <2>1. \A n \in Nat : Sub(n) \in Tasks(k, r) <=> r.recursive /\ n \in DOMAIN hive.subkeys[k]
    BY <1>3 DEF Tasks, KeyTasks, Row, Sub
  <2>2. \A c : Leads(r, k, c) <=> r.recursive /\ c \in RangeOf(hive.subkeys[k])
    BY <1>3 DEF Leads, Tool
  <2>3. \A n : SubkeyOf(k, n) = hive.subkeys[k][n]
    BY <1>3 DEF SubkeyOf
  <2> QED
    BY <1>1, <2>1, <2>2, <2>3 DEF RangeOf
<1> QED
  BY <1>2, <1>3

(* A trail with one more key. *)
LEMMA LongerTrail ==
  ASSUME NEW r, NEW t \in Seq(Key), IsTrail(r, t), NEW path \in Seq(Name), Names(t, path),
         NEW c \in Key, Leads(r, Last(t), c), KeyName[c] \in Name
  PROVE  /\ Append(t, c) \in Seq(Key) /\ IsTrail(r, Append(t, c))
         /\ Names(Append(t, c), Append(path, KeyName[c])) /\ Last(Append(t, c)) = c
<1>1. PICK u : u = Append(t, c)
  OBVIOUS
<1>2. /\ u \in Seq(Key) /\ Len(u) = Len(t) + 1 /\ u[Len(t) + 1] = c
      /\ \A i \in 1 .. Len(t) : u[i] = t[i]
  BY <1>1
<1>3. Len(t) \in Nat /\ Len(t) >= 1 /\ Len(path) \in Nat /\ Len(t) = Len(path) + 1
  BY DEF IsTrail, Names
<1>4. IsTrail(r, u)
  <2>1. ASSUME NEW i \in 1 .. Len(u) - 1 PROVE Leads(r, u[i], u[i + 1])
    <3>1. CASE i = Len(t)
      BY <1>2, <1>3, <3>1 DEF Last
    <3>2. CASE i # Len(t)
      <4>1. i \in 1 .. Len(t) - 1 /\ u[i] = t[i] /\ u[i + 1] = t[i + 1]
        BY <1>2, <1>3, <3>2
      <4> QED
        BY <4>1 DEF IsTrail
    <3> QED
      BY <3>1, <3>2
  <2>2. Len(u) >= 1 /\ u[1] = r.key
    BY <1>2, <1>3 DEF IsTrail
  <2> QED
    BY <2>1, <2>2 DEF IsTrail
<1>5. Names(u, Append(path, KeyName[c]))
  <2>1. PICK q : q = Append(path, KeyName[c])
    OBVIOUS
  <2>2. /\ Len(q) = Len(path) + 1 /\ q[Len(path) + 1] = KeyName[c]
        /\ \A i \in 1 .. Len(path) : q[i] = path[i]
    BY <2>1
  <2>3. ASSUME NEW i \in 1 .. Len(q) PROVE q[i] = KeyName[u[i + 1]]
    <3>1. CASE i = Len(path) + 1
      BY <1>2, <1>3, <2>2, <3>1
    <3>2. CASE i # Len(path) + 1
      <4>1. i \in 1 .. Len(path) /\ q[i] = path[i] /\ u[i + 1] = t[i + 1]
        BY <1>2, <1>3, <2>2, <3>2
      <4> QED
        BY <4>1 DEF Names
    <3> QED
      BY <3>1, <3>2
  <2> QED
    BY <1>2, <1>3, <2>1, <2>2, <2>3 DEF Names
<1> QED
  BY <1>1, <1>2, <1>4, <1>5 DEF Last

LEMMA LessFrame ==
  ASSUME NEW c \in FrameType, NEW t, NEW g, g = [c EXCEPT !.left = @ \ {t}]
  PROVE  g \in FrameType /\ g.key = c.key /\ g.path = c.path /\ g.left = c.left \ {t}
BY DEF FrameType

(* The calls under way after one task of the innermost is taken. *)
LEMMA RestShape ==
  ASSUME RInv, stack # << >>, NEW t \in Top.left
  PROVE  /\ Len(stack) \in Nat \ {0} /\ DOMAIN stack = 1 .. Len(stack)
         /\ stack[Len(stack)] = Top
         /\ Rest(t) \in Seq(FrameType) /\ Len(Rest(t)) = Len(stack)
         /\ \A i \in 1 .. Len(stack) - 1 : Rest(t)[i] = stack[i]
         /\ Rest(t)[Len(stack)].key = Top.key /\ Rest(t)[Len(stack)].path = Top.path
         /\ Rest(t)[Len(stack)].left = Top.left \ {t}
<1>1. stack \in Seq(FrameType) /\ Top \in FrameType
  BY TopFacts DEF RInv, TypeOK
<1>2. /\ Front(stack) \in Seq(FrameType) /\ Len(stack) \in Nat /\ Len(stack) >= 1
      /\ Len(Front(stack)) = Len(stack) - 1
      /\ \A i \in 1 .. Len(stack) - 1 : Front(stack)[i] = stack[i]
      /\ stack[Len(stack)] = Top
  BY <1>1, EndsOfSequences DEF Top
<1>30. PICK g : g = [Top EXCEPT !.left = @ \ {t}]
  OBVIOUS
<1>3. g \in FrameType /\ g.key = Top.key /\ g.path = Top.path /\ g.left = Top.left \ {t}
  BY <1>1, <1>30, LessFrame
<1>4. PICK front \in Seq(FrameType) : front = Front(stack)
  BY <1>2
<1>5. Rest(t) = Append(front, g)
  BY <1>30, <1>4 DEF Rest
<1>6. /\ Rest(t) \in Seq(FrameType) /\ Len(Rest(t)) = Len(front) + 1
      /\ \A i \in 1 .. Len(front) : Rest(t)[i] = front[i]
      /\ Rest(t)[Len(front) + 1] = g
  BY <1>3, <1>5
<1>7. DOMAIN stack = 1 .. Len(stack)
  BY <1>1
<1>8. Len(front) + 1 = Len(stack) /\ Len(front) = Len(stack) - 1
  BY <1>2, <1>4
<1>9. /\ Len(Rest(t)) = Len(stack) /\ \A i \in 1 .. Len(stack) - 1 : Rest(t)[i] = stack[i]
      /\ Rest(t)[Len(stack)] = g
  BY <1>2, <1>4, <1>6, <1>8
<1> QED
  BY <1>2, <1>3, <1>6, <1>7, <1>9

LEMMA LeadsStays ==
  ASSUME UNCHANGED <<tool, hive>>, NEW r, NEW a, NEW b
  PROVE  Leads(r, a, b)' <=> Leads(r, a, b)
BY DEF Leads, Slots, BagsAt, Bag

LEMMA TrailStays ==
  ASSUME UNCHANGED <<tool, hive>>, NEW r, NEW t, IsTrail(r, t)
  PROVE  IsTrail(r, t)'
BY LeadsStays DEF IsTrail

(* Where a call is does not change. *)
LEMMA CallTrailStays ==
  ASSUME NEW f, NEW g, CallTrail(f), g.path = f.path, g.key = f.key,
         UNCHANGED <<tool, hive, roots, next>>
  PROVE  CallTrail(g)'
<1>0. PICK r : r = CurrentRoot
  OBVIOUS
<1>1. PICK t \in Seq(Key) : IsTrail(r, t) /\ Names(t, f.path) /\ Last(t) = f.key
  BY <1>0 DEF CallTrail
<1>2. IsTrail(r, t)'
  BY <1>1, TrailStays
<1>3. CurrentRoot' = r
  BY <1>0 DEF CurrentRoot
<1> QED
  BY <1>1, <1>2, <1>3 DEF CallTrail, IsTrail

LEMMA RowTrailStays ==
  ASSUME NEW row, RowTrail(row), UNCHANGED <<tool, hive, roots>>,
         next' = next \/ (next \in Nat /\ next' = next + 1 /\ row.root \in Nat)
  PROVE  RowTrail(row)'
<1>1. PICK t \in Seq(Key) :
        /\ IsTrail(roots[row.root], t) /\ Names(t, row.path)
        /\ row.at \in OwedAt(roots[row.root], Last(t))
        /\ tool = "gosbe" => row.mru = MruPosition(hive.mru[Last(t)], row.at)
  BY DEF RowTrail
<1>2. IsTrail(roots[row.root], t)'
  <2>1. PICK r : r = roots[row.root] /\ IsTrail(r, t)
    BY <1>1
  <2>2. IsTrail(r, t)'
    BY <2>1, TrailStays
  <2> QED
    BY <2>1, <2>2 DEF IsTrail
<1>3. OwedAt(roots[row.root], Last(t))' = OwedAt(roots[row.root], Last(t))
  BY DEF OwedAt
<1>4. /\ row.root \in DOMAIN roots' /\ row.root < next' /\ Wanted(roots[row.root])'
  BY DEF RowTrail, Wanted
<1> QED
  BY <1>1, <1>2, <1>3, <1>4 DEF RowTrail

LEMMA InitTrail == Init => TrailInv
BY DEF Init, TrailInv

LEMMA NextTrail ==
  ASSUME RInv, TrailInv, [Next]_vars
  PROVE  TrailInv'
<1>0. /\ tool \in Tool /\ hive \in Hive /\ roots \in Seq(Root) /\ rows \in Seq(RowType)
      /\ next \in Nat /\ stack \in Seq(FrameType)
      /\ \A i \in DOMAIN rows : rows[i].root \in Nat
  <2>1. rows \in Seq(RowType) /\ roots \in Seq(Root)
    BY RootsAssumption DEF RInv, TypeOK
  <2>2. \A i \in DOMAIN rows : rows[i] \in RowType
    BY <2>1, ElementOf
  <2> QED
    BY <2>1, <2>2 DEF RInv, TypeOK, RowType
<1>1. ASSUME UNCHANGED <<tool, hive, roots, rows>>, next' \in {next, next + 1}
      PROVE  \A i \in DOMAIN rows' : RowTrail(rows[i])'
  <2> SUFFICES ASSUME NEW i \in DOMAIN rows PROVE RowTrail(rows[i])'
    BY <1>1
  <2>1. PICK row : row = rows[i] /\ row = rows'[i]
    BY <1>1
  <2>2. RowTrail(row)'
    BY <1>0, <1>1, <2>1, RowTrailStays DEF TrailInv
  <2> QED
    BY <2>1, <2>2 DEF RowTrail
<1>2. CASE SkipRoot
  <2>1. /\ UNCHANGED <<tool, hive, roots, rows, stack>> /\ next' = next + 1 /\ stack = << >>
    BY <1>2 DEF SkipRoot
  <2> QED
    BY <1>1, <2>1 DEF TrailInv
<1>3. CASE OpenRoot
  <2>1. /\ UNCHANGED <<tool, hive, roots, rows>> /\ next' = next + 1
        /\ next \in DOMAIN roots /\ Wanted(roots[next])
        /\ stack' = <<Frame(roots[next].key, << >>, << >>, roots[next])>>
    <3>1. next \in 1 .. Len(roots) + 1 /\ next <= Len(roots)
      BY <1>3 DEF OpenRoot, RInv, TypeOK
    <3>2. next \in DOMAIN roots
      BY <1>0, <3>1
    <3> QED
      BY <1>3, <3>2 DEF OpenRoot
  <2>2. PICK r \in Root : r = roots[next] /\ r.key \in Key
    BY <1>0, <2>1, ElementOf DEF Wanted, Root
  <2>30. PICK f : f = Frame(r.key, << >>, << >>, r)
    OBVIOUS
  <2>3. f.key = r.key /\ f.path = << >>
    BY <2>30 DEF Frame
  <2>4. CurrentRoot' = r
    BY <1>0, <2>1, <2>2 DEF CurrentRoot
  <2>5. CallTrail(f)'
    <3>1. PICK t : t = <<r.key>>
      OBVIOUS
    <3>2. t \in Seq(Key) /\ Len(t) = 1 /\ t[1] = r.key /\ Last(t) = r.key
      BY <2>2, <3>1 DEF Last
    <3>3. IsTrail(r, t)' /\ Names(t, << >>)
      BY <3>2 DEF IsTrail, Names
    <3> QED
      BY <2>3, <2>4, <3>2, <3>3 DEF CallTrail, IsTrail
  <2>6. stack' = <<f>>
    BY <2>1, <2>2, <2>30
  <2>7. \A i \in DOMAIN stack' : i = 1 /\ stack'[i] = f
    BY <2>6
  <2>8. \A i \in DOMAIN stack' : CallTrail(stack[i])'
    BY <2>5, <2>7 DEF CallTrail
  <2>9. Wanted(CurrentRoot)'
    BY <2>1, <2>2, <2>4 DEF Wanted
  <2> QED
    BY <1>1, <2>1, <2>8, <2>9 DEF TrailInv
<1>4. ASSUME UNCHANGED <<tool, hive, roots, next>>, stack # << >>, NEW t \in Top.left,
             NEW i \in 1 .. Len(stack), NEW s, \A j \in 1 .. Len(stack) : s[j] = Rest(t)[j]
      PROVE  \E g : g = s[i] /\ CallTrail(g)'
  <2>1. PICK f, g : f = stack[i] /\ g = s[i]
    OBVIOUS
  <2>2. g.path = f.path /\ g.key = f.key
    BY <1>4, <2>1, RestShape
  <2>3. CallTrail(f)
    BY <1>4, <2>1, RestShape DEF TrailInv
  <2>4. CallTrail(g)'
    BY <1>4, <2>2, <2>3, CallTrailStays
  <2> QED
    BY <2>1, <2>4
<1>5. CASE EmitRow
  <2>1. /\ UNCHANGED <<tool, hive, roots, next>> /\ stack # << >>
    BY <1>5 DEF EmitRow
  <2>2. PICK t \in Top.left : Due(t) /\ t.kind = "row" /\ stack' = Rest(t)
        /\ rows' = Append(rows,
            [root |-> next - 1, path |-> Top.path, at |-> t.at,
             abs |-> PathOf(Top.key, Top.abs, t.at),
             mru |-> IF tool = "gosbe" THEN MruPosition(hive.mru[Top.key], t.at)
                                       ELSE Unranked])
    BY <1>5 DEF EmitRow
  <2>3. /\ Len(stack') = Len(stack) /\ DOMAIN stack' = 1 .. Len(stack)
    BY <2>1, <2>2, RestShape
  <2>4. ASSUME NEW i \in DOMAIN stack' PROVE CallTrail(stack[i])'
    <3>1. PICK g : g = stack'[i] /\ CallTrail(g)'
      BY <1>4, <2>1, <2>2, <2>3
    <3> QED
      BY <3>1 DEF CallTrail
  <2>5. /\ Top \in FrameType /\ CallOK(Top) /\ CallTrail(Top) /\ next - 1 \in DOMAIN roots
        /\ CurrentRoot \in Root /\ Wanted(CurrentRoot)
    BY <2>1, <2>2, RestShape, TopFacts DEF TrailInv
  <2>6. PICK n \in Nat : t = Row(n) /\ n = t.at /\ n \in OwedAt(CurrentRoot, Top.key)
    <3>1. t \in Task /\ t \in Tasks(Top.key, CurrentRoot) /\ Top.key \in Key
      BY <2>5 DEF FrameType, CallOK
    <3> QED
      BY <1>0, <2>2, <2>5, <3>1, TaskShape, RowsAreOwed
  <2>7. PICK k, row : /\ k = Top.key /\ row.root = next - 1 /\ row.path = Top.path /\ row.at = n
                      /\ tool = "gosbe" => row.mru = MruPosition(hive.mru[k], n)
                      /\ rows' = Append(rows, row)
    BY <2>2, <2>6
  <2>8. RowTrail(row)
    <3>1. PICK u \in Seq(Key) : IsTrail(CurrentRoot, u) /\ Names(u, Top.path) /\ Last(u) = Top.key
      BY <2>5 DEF CallTrail
    <3> QED
      BY <1>0, <2>5, <2>6, <2>7, <3>1 DEF RowTrail, CurrentRoot
  <2>9. RowTrail(row)'
    BY <2>1, <2>8, RowTrailStays
  <2>10. ASSUME NEW i \in DOMAIN rows PROVE RowTrail(rows[i])' /\ rows'[i] = rows[i]
    <3>1. PICK o : o = rows[i]
      OBVIOUS
    <3>2. RowTrail(o)'
      BY <2>1, <3>1, RowTrailStays DEF TrailInv
    <3>3. rows'[i] = rows[i]
      BY <1>0, <2>7, <2>10
    <3> QED
      BY <3>1, <3>2, <3>3 DEF RowTrail
  <2>11. DOMAIN rows' = DOMAIN rows \cup {Len(rows) + 1} /\ rows'[Len(rows) + 1] = row
    BY <1>0, <2>7
  <2>12. ASSUME NEW i \in DOMAIN rows' PROVE RowTrail(rows[i])'
    <3>1. CASE i = Len(rows) + 1
      BY <2>9, <2>11, <3>1 DEF RowTrail
    <3> QED
      BY <2>10, <2>11, <3>1
  <2> QED
    BY <2>1, <2>4, <2>5, <2>12 DEF TrailInv, Wanted, CurrentRoot
<1>6. CASE Descend
  <2>1. UNCHANGED <<tool, hive, roots, next, rows>> /\ stack # << >>
    BY <1>6 DEF Descend
  <2>20. PICK t \in Top.left : /\ t.kind = "key"
           /\ \E sub : /\ sub = SubkeyOf(Top.key, t.at)
                       /\ stack' = Append(Rest(t),
                            Frame(sub, Append(Top.path, KeyName[sub]),
                                  PathOf(Top.key, Top.abs, t.at), CurrentRoot))
    BY <1>6 DEF Descend
  <2>2. PICK sub : /\ t.kind = "key" /\ sub = SubkeyOf(Top.key, t.at)
           /\ stack' = Append(Rest(t),
                Frame(sub, Append(Top.path, KeyName[sub]),
                      PathOf(Top.key, Top.abs, t.at), CurrentRoot))
    BY <2>20
  <2>3. PICK f : /\ f.key = sub /\ f.path = Append(Top.path, KeyName[sub])
                 /\ stack' = Append(Rest(t), f)
    BY <2>2 DEF Frame
  <2>4. /\ DOMAIN stack' = 1 .. Len(stack) + 1 /\ stack'[Len(stack) + 1] = f
        /\ \A i \in 1 .. Len(stack) : stack'[i] = Rest(t)[i]
    BY <2>1, <2>3, RestShape
  <2>5. ASSUME NEW i \in 1 .. Len(stack) PROVE CallTrail(stack[i])'
    <3>1. PICK g : g = stack'[i] /\ CallTrail(g)'
      BY <1>4, <2>1, <2>4
    <3> QED
      BY <3>1 DEF CallTrail
  <2>6. /\ Top \in FrameType /\ CallOK(Top) /\ CallTrail(Top)
        /\ CurrentRoot \in Root /\ Wanted(CurrentRoot) /\ Top.key \in Key /\ Top.path \in Seq(Name)
    <3>1. Top \in FrameType /\ CallOK(Top) /\ CurrentRoot \in Root
      BY <2>1, TopFacts
    <3>2. CallTrail(Top) /\ Wanted(CurrentRoot)
      BY <2>1, <2>2, RestShape DEF TrailInv
    <3> QED
      BY <3>1, <3>2 DEF FrameType
  <2>7. Leads(CurrentRoot, Top.key, sub) /\ sub \in Key /\ KeyName[sub] \in Name
    <3>1. t \in Task /\ t \in Tasks(Top.key, CurrentRoot)
      BY <2>6 DEF FrameType, CallOK
    <3>2. PICK n \in Nat : t = Sub(n) /\ n = t.at
      BY <2>2, <3>1, TaskShape
    <3> QED
      BY <1>0, <2>2, <2>6, <3>1, <3>2, DescentsLead, NameFacts
  <2>8. CallTrail(f)
    <3>1. PICK u \in Seq(Key) : IsTrail(CurrentRoot, u) /\ Names(u, Top.path) /\ Last(u) = Top.key
      BY <2>6 DEF CallTrail
    <3>2. PICK r, path : r = CurrentRoot /\ path = Top.path
      OBVIOUS
    <3>3. /\ IsTrail(r, u) /\ path \in Seq(Name) /\ Names(u, path) /\ sub \in Key
          /\ Leads(r, Last(u), sub) /\ KeyName[sub] \in Name
      BY <2>6, <2>7, <3>1, <3>2
    <3>4. /\ Append(u, sub) \in Seq(Key) /\ IsTrail(r, Append(u, sub))
          /\ Names(Append(u, sub), Append(path, KeyName[sub])) /\ Last(Append(u, sub)) = sub
      BY <3>3, LongerTrail
    <3> QED
      BY <2>3, <3>2, <3>4 DEF CallTrail
  <2>9. CallTrail(f)'
    BY <2>1, <2>8, CallTrailStays
  <2>10. ASSUME NEW i \in DOMAIN stack' PROVE CallTrail(stack[i])'
    <3>1. CASE i = Len(stack) + 1
      BY <2>4, <2>9, <3>1 DEF CallTrail
    <3>2. CASE i \in 1 .. Len(stack)
      BY <2>5, <3>2
    <3> QED
      BY <2>1, <2>2, <2>4, <3>1, <3>2, RestShape
  <2> QED
    BY <1>1, <2>1, <2>6, <2>10 DEF TrailInv, Wanted, CurrentRoot
<1>7. CASE Return
  <2>1. UNCHANGED <<tool, hive, roots, next, rows>> /\ stack # << >> /\ stack' = Front(stack)
    BY <1>7 DEF Return
  <2>2. \A i \in DOMAIN stack' : i \in DOMAIN stack /\ stack'[i] = stack[i]
    <3>1. PICK front \in Seq(FrameType), n \in Nat :
            /\ front = Front(stack) /\ n = Len(stack) /\ Len(front) = n - 1 /\ n >= 1
            /\ \A i \in 1 .. n - 1 : front[i] = stack[i]
      BY <1>0, <2>1, EndsOfSequences
    <3>2. DOMAIN front = 1 .. n - 1 /\ DOMAIN stack = 1 .. n
      BY <1>0, <3>1
    <3> QED
      BY <2>1, <3>1, <3>2
  <2>3. ASSUME NEW i \in DOMAIN stack' PROVE CallTrail(stack[i])'
    <3>0. PICK f : f = stack[i] /\ f = stack'[i]
      BY <2>2, <2>3
    <3>1. f = stack[i] /\ f = stack'[i] /\ CallTrail(f)
      BY <2>2, <2>3, <3>0 DEF TrailInv
    <3> QED
      <4>1. CallTrail(f)'
        BY <2>1, <3>1, CallTrailStays
      <4> QED
        BY <3>1, <4>1 DEF CallTrail
  <2> QED
    BY <1>1, <2>1, <2>3 DEF TrailInv, Wanted, CurrentRoot
<1>8. CASE EmitFails \/ Finish \/ UNCHANGED vars
  <2>1. UNCHANGED <<tool, hive, roots, next, rows, stack>>
    BY <1>8 DEF EmitFails, Finish, vars
  <2>2. ASSUME NEW i \in DOMAIN stack' PROVE CallTrail(stack[i])'
    <3>0. PICK f : f = stack[i] /\ f = stack'[i]
      BY <2>1, <2>2
    <3>1. f = stack[i] /\ f = stack'[i] /\ CallTrail(f)
      BY <2>1, <2>2, <3>0 DEF TrailInv
    <3> QED
      <4>1. CallTrail(f)'
        BY <2>1, <3>1, CallTrailStays
      <4> QED
        BY <3>1, <4>1 DEF CallTrail
  <2> QED
    BY <1>1, <2>1, <2>2 DEF TrailInv, Wanted, CurrentRoot
<1> QED
  BY <1>2, <1>3, <1>5, <1>6, <1>7, <1>8 DEF Next

LEMMA TrailInvariance == Spec => [](RInv /\ TrailInv)
<1>1. RInv /\ [Next]_vars => RInv'
  BY OpenRootRInv, EmitRowRInv, DescendRInv, ReturnRInv, OtherRInv DEF Next
<1> QED
  BY <1>1, InitRInv, InitTrail, NextTrail, PTL DEF Spec

(* Keys below one key are told apart by their names. *)
LEMMA NamesTell ==
  ASSUME SiblingsApart, hive \in Hive, NEW k \in Key, NEW b \in RangeOf(hive.subkeys[k]),
         NEW c \in RangeOf(hive.subkeys[k]), KeyName[b] = KeyName[c]
  PROVE  b = c
<1>1. PICK i, j \in DOMAIN hive.subkeys[k] : b = hive.subkeys[k][i] /\ c = hive.subkeys[k][j]
  BY DEF RangeOf
<1>2. i = j
  BY <1>1 DEF SiblingsApart
<1> QED
  BY <1>1, <1>2

(* What a trail goes through, from any root of the run. *)
LEMMA TrailKeys ==
  ASSUME hive \in Hive, tool \in Tool, NEW r \in Root, NEW t \in Seq(Key), IsTrail(r, t)
  PROVE  /\ Len(t) \in Nat \ {0} /\ DOMAIN t = 1 .. Len(t) /\ Last(t) \in Key
         /\ \A i \in 1 .. Len(t) : t[i] \in Key
         /\ \A i \in 1 .. Len(t) - 1 : t[i + 1] \in RangeOf(hive.subkeys[t[i]])
<1>1. Len(t) \in Nat \ {0} /\ DOMAIN t = 1 .. Len(t) /\ \A i \in 1 .. Len(t) : t[i] \in Key
  BY DEF IsTrail
<1>2. ASSUME NEW i \in 1 .. Len(t) - 1 PROVE t[i + 1] \in RangeOf(hive.subkeys[t[i]])
  <2>1. Leads(r, t[i], t[i + 1]) /\ t[i] \in Key
    BY <1>1 DEF IsTrail
  <2> QED
    BY <2>1, DescentsLead
<1> QED
  BY <1>1, <1>2 DEF Last

LEMMA LeastNatOf ==
  ASSUME NEW S \in SUBSET Nat, S # {}
  PROVE  \E m \in S : \A k \in S : m <= k
<1> DEFINE less == OpToRel(<, Nat)
<1>1. IsWellFoundedOn(less, Nat)
  BY NatLessThanWellFounded
<1>2. less = {p \in Nat \X Nat : p[1] < p[2]}
  BY DEF OpToRel
<1> HIDE DEF less
<1>3. PICK m \in S : \A k \in S : ~ (<<k, m>> \in less)
  BY <1>1, WFMin, Zenon
<1>4. ASSUME NEW k \in S PROVE m <= k
  <2>1. <<k, m>> \notin less
    BY <1>3
  <2> QED
    BY <1>2, <2>1
<1> QED
  BY <1>4

(* The key the property finds for a row by names is the last of its trail. *)
LEMMA KeyOfTrail ==
  ASSUME SiblingsApart, hive \in Hive, tool \in Tool, roots \in Seq(Root),
         NEW row, row.path \in Seq(Name), row.root \in DOMAIN roots,
         NEW t \in Seq(Key), IsTrail(roots[row.root], t), Names(t, row.path)
  PROVE  KeyAt(row) = Last(t)
<1> DEFINE n == Len(row.path)
           Step(k, i) == IF i = 0 THEN roots[row.root].key
                         ELSE CHOOSE c \in RangeOf(hive.subkeys[k[i - 1]]) : KeyName[c] = row.path[i]
           Keys(k) == k = [i \in 0 .. n |-> Step(k, i)]
           trail == [i \in 0 .. n |-> t[i + 1]]
           found == CHOOSE k : Keys(k)
<1>0. roots[row.root] \in Root
  BY ElementOf
<1>1. /\ n \in Nat /\ Len(t) = n + 1 /\ t[1] = roots[row.root].key
      /\ \A i \in 1 .. n : row.path[i] = KeyName[t[i + 1]]
  BY DEF Names, IsTrail
<1>2. ASSUME NEW i \in 1 .. n
      PROVE  (CHOOSE c \in RangeOf(hive.subkeys[t[i]]) : KeyName[c] = row.path[i]) = t[i + 1]
  <2>1. t[i] \in Key /\ t[i + 1] \in RangeOf(hive.subkeys[t[i]])
    BY <1>0, <1>1, TrailKeys
  <2>2. KeyName[t[i + 1]] = row.path[i]
    BY <1>1
  <2>3. \A c \in RangeOf(hive.subkeys[t[i]]) : KeyName[c] = row.path[i] => c = t[i + 1]
    BY <2>1, <2>2, NamesTell
  <2> QED
    BY <2>1, <2>2, <2>3
<1>3. Keys(trail)
  <2>1. ASSUME NEW i \in 0 .. n PROVE trail[i] = Step(trail, i)
    <3>1. CASE i = 0
      BY <1>1, <3>1
    <3>2. CASE i # 0
      <4>1. i \in 1 .. n /\ i - 1 \in 0 .. n /\ trail[i - 1] = t[i] /\ trail[i] = t[i + 1]
        BY <1>1, <3>2
      <4> QED
        BY <1>2, <3>2, <4>1
    <3> QED
      BY <3>1, <3>2
  <2> HIDE DEF Step
  <2> QED
    BY <2>1
<1>4. Keys(found)
  BY <1>3, Zenon
<1>5. KeyAt(row) = found[n]
  BY Zenon DEF KeyAt
<1> HIDE DEF found
<1>6. \A i \in 0 .. n : found[i] = Step(found, i)
  BY <1>4
<1> DEFINE bad == {i \in Nat : i <= n /\ found[i] # t[i + 1]}
<1>7. bad = {}
  <2> SUFFICES ASSUME bad # {} PROVE FALSE
    OBVIOUS
  <2>1. PICK m \in bad : \A k \in bad : m <= k
    <3>1. bad \in SUBSET Nat
      OBVIOUS
    <3> HIDE DEF bad
    <3> QED
      BY <3>1, LeastNatOf
  <2>2. m \in Nat /\ m <= n /\ found[m] # t[m + 1]
    OBVIOUS
  <2>3. m # 0
    <3>1. 0 \in 0 .. n /\ Step(found, 0) = roots[row.root].key
      BY <1>1
    <3> HIDE DEF Step
    <3>2. found[0] = t[1]
      BY <1>1, <1>6, <3>1
    <3> QED
      BY <2>2, <3>2
  <2>4. m - 1 \in Nat /\ m - 1 <= n /\ m - 1 \notin bad
    <3>1. m - 1 \in Nat /\ m - 1 <= n /\ ~ (m <= m - 1)
      BY <1>1, <2>2, <2>3
    <3> HIDE DEF bad
    <3> QED
      BY <2>1, <3>1
  <2>5. found[m - 1] = t[m]
    BY <2>2, <2>4
  <2>6. m \in 1 .. n /\ m \in 0 .. n
    BY <1>1, <2>2, <2>3
  <2>7. found[m] = CHOOSE c \in RangeOf(hive.subkeys[t[m]]) : KeyName[c] = row.path[m]
    BY <1>6, <2>3, <2>5, <2>6
  <2> QED
    BY <1>2, <2>2, <2>6, <2>7
<1> QED
  BY <1>1, <1>5, <1>7 DEF Last

(* The position in a list, whatever the list is. *)
LEMMA PositionInList ==
  ASSUME NEW list \in Seq(Int), NEW slot \in Nat, NEW held,
         held = {p \in DOMAIN list : list[p] = slot /\ \A q \in 1 .. p - 1 : list[q] >= 0}
  PROVE  IF held = {} THEN MruPosition(list, slot) = Unranked
         ELSE MruPosition(list, slot) + 1 \in held
<1>1. Len(list) \in Nat /\ DOMAIN list = 1 .. Len(list)
  OBVIOUS
<1>2. held = {i \in Live(list) : list[i] = slot}
  <2>1. ASSUME NEW p \in DOMAIN list, list[p] = slot
        PROVE  p \in Live(list) <=> \A q \in 1 .. p - 1 : list[q] >= 0
    <3>1. \A q \in 1 .. p : q = p \/ q \in 1 .. p - 1
      BY <1>1
    <3>2. \A q \in 1 .. p - 1 : q \in 1 .. p
      BY <1>1
    <3> QED
      BY <2>1, <3>1, <3>2 DEF Live
  <2> QED
    BY <2>1 DEF Live
<1>3. CASE held # {}
  <2>1. held \in SUBSET (1 .. Len(list))
    BY <1>1
  <2>2. Greatest(held) \in held
    BY <1>1, <1>3, <2>1, GreatestExists
  <2>3. MruPosition(list, slot) = Greatest(held) - 1
    BY <1>2, <1>3 DEF MruPosition
  <2>4. Greatest(held) \in Nat
    BY <2>1, <2>2
  <2>5. MruPosition(list, slot) + 1 = Greatest(held)
    BY <2>3, <2>4
  <2> QED
    BY <1>3, <2>2, <2>5
<1>4. CASE held = {}
  BY <1>2, <1>4 DEF MruPosition
<1> QED
  BY <1>3, <1>4

(* PositionsAreTheLists: at any depth of bags and for any MRUListEx, where sibling
   keys have names of their own, a row's position is one at which its bag's list
   has its slot before the list's first negative number.                     *)
THEOREM PositionsHold ==
  ASSUME SiblingsApart
  PROVE  Spec => []PositionsAreTheLists
<1>1. RInv /\ TrailInv => PositionsAreTheLists
  <2> SUFFICES ASSUME RInv, TrailInv, tool = "gosbe", NEW i \in DOMAIN rows
               PROVE  LET list == hive.mru[KeyAt(rows[i])]
                          held == {p \in DOMAIN list :
                                     list[p] = rows[i].at /\ \A q \in 1 .. p - 1 : list[q] >= 0}
                      IN  IF held = {} THEN rows[i].mru = Unranked
                          ELSE rows[i].mru + 1 \in held
    BY DEF PositionsAreTheLists
  <2>1. hive \in Hive /\ tool \in Tool /\ roots \in Seq(Root) /\ rows[i] \in RowType
    BY RootsAssumption, ElementOf DEF RInv, TypeOK
  <2>2. PICK row \in RowType : row = rows[i]
    BY <2>1
  <2>3. RowTrail(row)
    BY <2>2 DEF TrailInv
  <2>4. PICK t \in Seq(Key) : /\ IsTrail(roots[row.root], t) /\ Names(t, row.path)
                              /\ row.mru = MruPosition(hive.mru[Last(t)], row.at)
    BY <2>3 DEF RowTrail
  <2>5. row.root \in DOMAIN roots /\ row.path \in Seq(Name) /\ row.at \in Nat
    BY <2>3 DEF RowTrail, RowType
  <2>6. KeyAt(row) = Last(t)
    BY <2>1, <2>4, <2>5, KeyOfTrail
  <2>7. Last(t) \in Key
    BY <2>1, <2>4, <2>5, TrailKeys, ElementOf
  <2>8. PICK list \in Seq(Int) : list = hive.mru[Last(t)]
    BY <2>1, <2>7, HiveFacts
  <2>9. PICK held : /\ held = {p \in DOMAIN list :
                                 list[p] = row.at /\ \A q \in 1 .. p - 1 : list[q] >= 0}
                    /\ IF held = {} THEN row.mru = Unranked ELSE row.mru + 1 \in held
    BY <2>4, <2>5, <2>8, PositionInList
  <2> QED
    BY <2>2, <2>6, <2>8, <2>9
<1> QED
  BY <1>1, TrailInvariance, PTL

-----------------------------------------------------------------------------
(* The paths of gosbe's rows.  A row's own name is that of the item its trail
   leads to; what it is added to is the path of the row its bag hangs on, one of
   the first n rows of rs.                                                   *)
Follows(row, rs, n, name) ==
  IF row.path = << >> THEN Extends(row.abs, << >>, name)
  ELSE \E j \in 1 .. n :
         /\ rs[j].root = row.root
         /\ rs[j].path = Front(row.path)
         /\ rs[j].at = NumberOf[Last(row.path)]
         /\ Extends(row.abs, rs[j].abs, name)
RowPath(row, rs, n) ==
  \E t \in Seq(Key) :
    /\ IsTrail(roots[row.root], t) /\ Names(t, row.path)
    /\ Follows(row, rs, n, Item(Last(t), row.at))
PathInv ==
  tool = "gosbe" => \A i \in DOMAIN rows : RowPath(rows[i], rows, i - 1)

LEMMA JoinedExtends ==
  ASSUME NEW above \in Seq(STRING), NEW name \in STRING
  PROVE  Extends(Joined(above, name), above, name)
<1>1. CASE name = Undecoded
  BY <1>1 DEF Extends, Joined
<1>2. CASE name # Undecoded
  <2>1. Front(Append(above, name)) = above /\ Last(Append(above, name)) = name
    BY EndsOfAppend
  <2>2. Len(Append(above, name)) = Len(above) + 1
    OBVIOUS
  <2> QED
    BY <1>2, <2>1, <2>2 DEF Extends, Joined
<1> QED
  BY <1>1, <1>2

LEMMA RowPathStays ==
  ASSUME NEW row, NEW rs, NEW n, RowPath(row, rs, n), UNCHANGED <<tool, hive, roots>>
  PROVE  RowPath(row, rs, n)'
<1>0. PICK r : r = roots[row.root]
  OBVIOUS
<1>1. PICK t \in Seq(Key) :
        /\ IsTrail(r, t) /\ Names(t, row.path)
        /\ Follows(row, rs, n, Item(Last(t), row.at))
  BY <1>0 DEF RowPath
<1>2. IsTrail(r, t)'
  BY <1>1, TrailStays
<1>3. Item(Last(t), row.at)' = Item(Last(t), row.at)
  BY DEF Item, ItemAt
<1>4. r = roots'[row.root]
  BY <1>0
<1> QED
  BY <1>1, <1>2, <1>3, <1>4 DEF RowPath, IsTrail, Follows

(* A row that comes later changes nothing for those before it. *)
LEMMA RowPathLonger ==
  ASSUME NEW row, NEW rs \in Seq(RowType), NEW x \in RowType, NEW n \in Nat,
         n <= Len(rs), RowPath(row, rs, n)
  PROVE  RowPath(row, Append(rs, x), n)
<1>1. \A j \in 1 .. n : Append(rs, x)[j] = rs[j]
  OBVIOUS
<1>2. ASSUME NEW name, Follows(row, rs, n, name) PROVE Follows(row, Append(rs, x), n, name)
  BY <1>1, <1>2 DEF Follows
<1> QED
  BY <1>2 DEF RowPath

LEMMA EmitRowPaths ==
  ASSUME RInv, TrailInv, PathInv, EmitRow, tool = "gosbe"
  PROVE  PathInv'
<1>1. /\ Top \in FrameType /\ CallOK(Top) /\ next - 1 \in DOMAIN roots
      /\ CurrentRoot \in Root /\ next \in Nat /\ hive \in Hive /\ tool \in Tool
      /\ rows \in Seq(RowType)
  BY TopFacts DEF EmitRow
<1>2. PICK t \in Top.left : Due(t) /\ t.kind = "row" /\ stack' = Rest(t)
        /\ rows' = Append(rows,
            [root |-> next - 1, path |-> Top.path, at |-> t.at,
             abs |-> PathOf(Top.key, Top.abs, t.at),
             mru |-> IF tool = "gosbe" THEN MruPosition(hive.mru[Top.key], t.at)
                                       ELSE Unranked])
  BY DEF EmitRow
<1>3. tool' = tool /\ hive' = hive /\ roots' = roots /\ next' = next /\ stack # << >>
  BY DEF EmitRow
<1>4. PICK c \in FrameType, n \in Nat : c = Top /\ t = Row(n) /\ t \in c.left /\ t.at = n
  <2>1. Top.left \in SUBSET Task
    BY <1>1 DEF FrameType
  <2> QED
    BY <1>1, <1>2, <2>1, TaskShape
<1>5. c.key \in Key /\ c.path \in Seq(Name) /\ c.abs \in Seq(STRING)
  BY DEF FrameType
<1>6. n \in Slots(c.key)
  <2>1. Row(n) \in Tasks(c.key, CurrentRoot)
    BY <1>1, <1>4 DEF CallOK
  <2> QED
    BY <1>1, <1>5, <2>1, RowTaskFacts
<1>7. PICK row \in RowType : /\ row.root = next - 1 /\ row.path = c.path /\ row.at = n
                             /\ row.abs = Joined(c.abs, Item(c.key, n))
                             /\ rows' = Append(rows, row)
  <2>1. PathOf(c.key, c.abs, n) = Joined(c.abs, Item(c.key, n))
    BY DEF PathOf
  <2>2. Joined(c.abs, Item(c.key, n)) \in Seq(STRING)
    BY <1>1, <1>5, <1>6, SlotFacts, JoinedFacts
  <2>3. PICK place \in Nat \cup {Unranked} : place = MruPosition(hive.mru[c.key], n)
    <3>1. hive.mru[c.key] \in Seq(Int)
      BY <1>1, <1>5, HiveFacts
    <3> QED
      BY <3>1, MruFacts
  <2>4. next - 1 \in Nat
    <3>1. next > 1
      BY <1>3 DEF RInv, TypeOK
    <3> QED
      BY <1>1, <3>1
  <2> DEFINE row == [root |-> next - 1, path |-> c.path, at |-> n,
                     abs |-> Joined(c.abs, Item(c.key, n)), mru |-> place]
  <2>5. row \in RowType
    BY <1>5, <2>2, <2>3, <2>4 DEF RowType
  <2>6. rows' = Append(rows, row)
    BY <1>2, <1>4, <2>1, <2>3
  <2> QED
    BY <2>5, <2>6
<1>8. RowPath(row, rows, Len(rows))
  <2>1. CallTrail(Top) /\ Hangs(c)
    <3>1. CallTrail(Top)
      BY <1>2, <1>3, RestShape DEF TrailInv
    <3> QED
      BY <1>1, <1>4, <3>1 DEF CallOK
  <2>2. PICK u \in Seq(Key) : IsTrail(CurrentRoot, u) /\ Names(u, c.path) /\ Last(u) = c.key
    BY <1>4, <2>1 DEF CallTrail
  <2>3. Extends(row.abs, c.abs, Item(c.key, n))
    BY <1>1, <1>5, <1>6, <1>7, SlotFacts, JoinedExtends
  <2>4. Follows(row, rows, Len(rows), Item(c.key, n))
    <3>1. CASE c.path = << >>
      BY <1>7, <2>1, <2>3, <3>1 DEF Hangs, Follows
    <3>2. CASE c.path # << >>
      <4>1. HasRow(Front(c.path), NumberOf[Last(c.path)], c.abs)
        BY <2>1, <3>2 DEF Hangs
      <4>2. DOMAIN rows = 1 .. Len(rows)
        BY <1>1
      <4> QED
        BY <1>7, <2>3, <3>2, <4>1, <4>2 DEF HasRow, Follows
    <3> QED
      BY <3>1, <3>2
  <2>5. IsTrail(roots[row.root], u)
    BY <1>7, <2>2 DEF CurrentRoot
  <2> QED
    BY <1>7, <2>2, <2>4, <2>5 DEF RowPath
<1>9. PICK rs \in Seq(RowType) : rs = rows /\ rows' = Append(rs, row)
  BY <1>1, <1>7
<1>10. ASSUME NEW i \in DOMAIN rows' PROVE RowPath(rows[i], rows, i - 1)'
  <2>1. DOMAIN rows' = 1 .. Len(rs) + 1 /\ Len(rs) \in Nat /\ DOMAIN rs = 1 .. Len(rs)
    BY <1>9
  <2>2. PICK o, all : o = rows'[i] /\ all = rows' /\ all = Append(rs, row)
    BY <1>9
  <2>3. RowPath(o, rs, i - 1)
    <3>1. CASE i = Len(rs) + 1
      BY <1>8, <1>9, <2>1, <2>2, <3>1
    <3>2. CASE i \in 1 .. Len(rs)
      <4>1. o = rows[i] /\ i \in DOMAIN rows
        BY <1>9, <2>1, <2>2, <3>2
      <4> QED
        BY <1>9, <4>1 DEF PathInv
    <3> QED
      BY <1>10, <2>1, <3>1, <3>2
  <2>4. i - 1 \in Nat /\ i - 1 <= Len(rs)
    BY <1>10, <2>1
  <2>5. RowPath(o, all, i - 1)
    BY <2>2, <2>3, <2>4, RowPathLonger
  <2>6. RowPath(o, all, i - 1)'
    BY <1>3, <2>5, RowPathStays
  <2> QED
    BY <2>2, <2>6 DEF RowPath
<1> QED
  BY <1>10 DEF PathInv

LEMMA NextPaths ==
  ASSUME RInv, TrailInv, PathInv, [Next]_vars
  PROVE  PathInv'
<1>1. CASE EmitRow
  <2>1. tool' = tool
    BY <1>1 DEF EmitRow
  <2>2. CASE tool = "gosbe"
    BY <1>1, <2>2, EmitRowPaths
  <2> QED
    BY <2>1, <2>2 DEF PathInv
<1>2. CASE UNCHANGED <<tool, hive, roots, rows>>
  <2> SUFFICES ASSUME tool = "gosbe", NEW i \in DOMAIN rows
               PROVE  RowPath(rows[i], rows, i - 1)'
    BY <1>2 DEF PathInv
  <2>1. PICK row, rs : row = rows[i] /\ rs = rows /\ row = rows'[i] /\ rs = rows'
    BY <1>2
  <2>2. RowPath(row, rs, i - 1)
    BY <2>1 DEF PathInv
  <2>3. RowPath(row, rs, i - 1)'
    BY <1>2, <2>2, RowPathStays
  <2> QED
    BY <2>1, <2>3 DEF RowPath
<1> QED
  BY <1>1, <1>2 DEF Next, vars, SkipRoot, OpenRoot, EmitFails, Descend, Return, Finish

(* gosbe's AbsolutePath: at any depth of bags and in any hives in which sibling
   keys have names of their own, an item's path is that of the item its bag
   hangs on, whose row comes before it, and the name its own item decodes to.  *)
THEOREM PathsFollowTheBags ==
  ASSUME SiblingsApart
  PROVE  Spec => []AbsolutePathHolds
<1>1. Init => PathInv
  BY DEF Init, PathInv
<1>2. RInv /\ TrailInv /\ PathInv => AbsolutePathHolds
  <2> SUFFICES ASSUME RInv, TrailInv, PathInv, tool = "gosbe", NEW i \in DOMAIN rows
               PROVE  Follows(rows[i], rows, i - 1, NameAt(rows[i]))
    BY DEF AbsolutePathHolds, Follows
  <2>1. hive \in Hive /\ tool \in Tool /\ roots \in Seq(Root) /\ rows[i] \in RowType
    BY RootsAssumption, ElementOf DEF RInv, TypeOK
  <2>2. PICK row \in RowType : row = rows[i]
    BY <2>1
  <2>3. row.root \in DOMAIN roots /\ row.path \in Seq(Name)
    BY <2>2 DEF TrailInv, RowTrail, RowType
  <2>4. PICK t \in Seq(Key) : /\ IsTrail(roots[row.root], t) /\ Names(t, row.path)
                              /\ Follows(row, rows, i - 1, Item(Last(t), row.at))
    BY <2>2 DEF PathInv, RowPath
  <2>5. KeyAt(row) = Last(t)
    BY <2>1, <2>3, <2>4, KeyOfTrail
  <2>6. NameAt(row) = Item(Last(t), row.at)
    BY <2>5 DEF NameAt, Item, ItemAt
  <2> QED
    BY <2>2, <2>4, <2>6
<1> QED
  BY <1>1, <1>2, NextPaths, TrailInvariance, PTL DEF Spec

-----------------------------------------------------------------------------
(* Each row once.  A place that is owed has been emitted or is still covered by
   one task of one call under way: a row's own place, or, of a descent, every
   place whose path goes through the key it descends to.                     *)

Under(p, path) == Len(p) <= Len(path) /\ \A i \in 1 .. Len(p) : path[i] = p[i]
Covers(f, u, path, n) ==
  \/ u = Row(n) /\ f.path = path
  \/ u.kind = "key" /\ Under(Append(f.path, KeyName[SubkeyOf(f.key, u.at)]), path)

OwedBy(r, path, n) ==
  \E t \in Seq(Key) :
    IsTrail(roots[r], t) /\ Names(t, path) /\ n \in OwedAt(roots[r], Last(t))
Emitted(rs, r, path, n) ==
  \E j \in DOMAIN rs : rs[j].root = r /\ rs[j].path = path /\ rs[j].at = n

(* For calls s, rows rs and x the root whose turn is next: nothing owed by the
   roots so far is missing; nothing is emitted twice, or will be.            *)
MissesNothing(s, rs, x) ==
  \A r \in DOMAIN roots : \A path \in Seq(Name) : \A n \in Nat :
    r < x /\ Wanted(roots[r]) /\ OwedBy(r, path, n) =>
      \/ Emitted(rs, r, path, n)
      \/ r = x - 1 /\ \E i \in DOMAIN s : \E u \in s[i].left : Covers(s[i], u, path, n)
CoversOnce(s, rs, x) ==
  \A path \in Seq(Name) : \A n \in Nat :
    \A i, j \in DOMAIN s : \A u \in s[i].left, v \in s[j].left :
      /\ Covers(s[i], u, path, n) => ~ Emitted(rs, x - 1, path, n)
      /\ Covers(s[i], u, path, n) /\ Covers(s[j], v, path, n) => i = j /\ u = v
EmitsOnce(rs) == \A i, j \in DOMAIN rs : Place(rs[i]) = Place(rs[j]) => i = j

OnceInv ==
  MissesNothing(stack, rows, next) /\ CoversOnce(stack, rows, next) /\ EmitsOnce(rows)

-----------------------------------------------------------------------------
(* Two trails whose keys have the same names are the same trail. *)
LEMMA TrailsAgree ==
  ASSUME SiblingsApart, hive \in Hive, tool \in Tool, NEW r \in Root,
         NEW t \in Seq(Key), NEW u \in Seq(Key), IsTrail(r, t), IsTrail(r, u),
         NEW p \in Seq(Name), NEW q \in Seq(Name), Names(t, p), Names(u, q), Under(p, q)
  PROVE  \A i \in 1 .. Len(t) : i \in 1 .. Len(u) /\ u[i] = t[i]
<1>1. /\ Len(t) \in Nat /\ Len(u) \in Nat /\ Len(t) >= 1 /\ Len(t) <= Len(u)
      /\ t[1] = u[1]
      /\ \A i \in 1 .. Len(t) - 1 : KeyName[t[i + 1]] = KeyName[u[i + 1]]
  <2>1. Len(p) \in Nat /\ Len(q) \in Nat /\ Len(t) = Len(p) + 1 /\ Len(u) = Len(q) + 1
        /\ Len(p) <= Len(q)
    BY DEF Names, Under
  <2>2. ASSUME NEW i \in 1 .. Len(p) PROVE KeyName[t[i + 1]] = KeyName[u[i + 1]]
    <3>1. i \in 1 .. Len(q)
      BY <2>1
    <3> QED
      BY <3>1 DEF Names, Under
  <2> QED
    BY <2>1, <2>2 DEF IsTrail
<1> DEFINE bad == {i \in Nat : i >= 1 /\ i <= Len(t) /\ u[i] # t[i]}
<1>2. bad = {}
  <2> SUFFICES ASSUME bad # {} PROVE FALSE
    OBVIOUS
  <2>1. PICK m \in bad : \A k \in bad : m <= k
    <3>1. bad \in SUBSET Nat
      OBVIOUS
    <3> HIDE DEF bad
    <3> QED
      BY <3>1, LeastNatOf
  <2>2. m \in Nat /\ m >= 1 /\ m <= Len(t) /\ u[m] # t[m]
    OBVIOUS
  <2>3. m # 1
    BY <1>1, <2>2
  <2>4. PICK i \in Nat : i = m - 1 /\ i >= 1 /\ i <= Len(t) /\ i \notin bad
    <3>1. m - 1 \in Nat /\ m - 1 >= 1 /\ m - 1 <= Len(t) /\ ~ (m <= m - 1)
      BY <1>1, <2>2, <2>3
    <3> HIDE DEF bad
    <3> QED
      BY <2>1, <3>1
  <2>5. u[i] = t[i] /\ i + 1 = m /\ i \in 1 .. Len(t) - 1 /\ i \in 1 .. Len(u) - 1
    BY <1>1, <2>2, <2>4
  <2>6. /\ t[i + 1] \in RangeOf(hive.subkeys[t[i]]) /\ u[i + 1] \in RangeOf(hive.subkeys[t[i]])
        /\ t[i] \in Key
    <3>1. t[i] \in Key /\ t[i + 1] \in RangeOf(hive.subkeys[t[i]])
      BY <1>1, <2>5, TrailKeys
    <3>2. u[i + 1] \in RangeOf(hive.subkeys[u[i]])
      BY <2>5, TrailKeys
    <3> QED
      BY <2>5, <3>1, <3>2
  <2>7. u[i + 1] = t[i + 1]
    BY <1>1, <2>5, <2>6, NamesTell
  <2> QED
    BY <2>2, <2>5, <2>7
<1>3. ASSUME NEW i \in 1 .. Len(t) PROVE i \in 1 .. Len(u) /\ u[i] = t[i]
  <2>1. i \notin bad
    BY <1>2
  <2> QED
    BY <1>1, <2>1
<1> QED
  BY <1>3

LEMMA SameSequence ==
  ASSUME NEW S, NEW s \in Seq(S), NEW t \in Seq(S), Len(s) = Len(t),
         \A i \in 1 .. Len(s) : s[i] = t[i]
  PROVE  s = t
<1>1. PICK n \in Nat : n = Len(s) /\ s \in [1 .. n -> S] /\ t \in [1 .. n -> S]
  OBVIOUS
<1>2. \A i \in 1 .. n : s[i] = t[i]
  BY <1>1
<1> QED
  BY <1>1, <1>2

(* The tasks of a call that begins cover every place owed at its key and below. *)
LEMMA FirstTasksCover ==
  ASSUME SiblingsApart, hive \in Hive, tool \in Tool, roots \in Seq(Root),
         NEW r \in DOMAIN roots, NEW path \in Seq(Name), NEW n \in Nat, OwedBy(r, path, n),
         NEW f \in FrameType, f.left = Tasks(f.key, roots[r]), Under(f.path, path),
         NEW t \in Seq(Key), IsTrail(roots[r], t), Names(t, f.path), Last(t) = f.key
  PROVE  \E u \in f.left : Covers(f, u, path, n)
<1>0. roots[r] \in Root /\ f.key \in Key /\ f.path \in Seq(Name)
  BY ElementOf DEF FrameType
<1>1. PICK u \in Seq(Key) : IsTrail(roots[r], u) /\ Names(u, path) /\ n \in OwedAt(roots[r], Last(u))
  BY DEF OwedBy
<1>2. \A i \in 1 .. Len(t) : i \in 1 .. Len(u) /\ u[i] = t[i]
  BY <1>0, <1>1, TrailsAgree
<1>3. /\ Len(t) \in Nat /\ Len(t) >= 1 /\ Len(u) \in Nat /\ Len(t) = Len(f.path) + 1
      /\ Len(u) = Len(path) + 1 /\ Len(f.path) \in Nat /\ Len(path) \in Nat
      /\ Len(f.path) <= Len(path) /\ t[Len(t)] = f.key /\ u[Len(t)] = f.key
  BY <1>0, <1>1, <1>2 DEF Names, Under, Last
<1>4. CASE Len(path) = Len(f.path)
  <2>1. path = f.path
    <3>1. \A i \in 1 .. Len(path) : path[i] = f.path[i]
      BY <1>4 DEF Under
    <3> QED
      BY <1>0, <1>4, <3>1, SameSequence
  <2>2. Last(u) = f.key
    BY <1>3, <1>4 DEF Last
  <2>3. Row(n) \in f.left
    BY <1>0, <1>1, <2>2, RowsAreOwed
  <2> QED
    BY <2>1, <2>3 DEF Covers
<1>5. CASE Len(path) # Len(f.path)
  <2> DEFINE l == Len(t)
  <2>1. l \in 1 .. Len(u) - 1 /\ u[l] = f.key /\ l \in 1 .. Len(path) /\ l = Len(f.path) + 1
    BY <1>3, <1>5
  <2>2. Leads(roots[r], f.key, u[l + 1])
    BY <1>1, <2>1 DEF IsTrail
  <2>3. path[l] = KeyName[u[l + 1]]
    BY <1>1, <2>1 DEF Names
  <2>4. PICK m \in Nat : Sub(m) \in Tasks(f.key, roots[r]) /\ SubkeyOf(f.key, m) = u[l + 1]
    BY <1>0, <2>2, DescentsLead
  <2>5. PICK p : p = Append(f.path, path[l])
    OBVIOUS
  <2>6. /\ Len(p) = Len(f.path) + 1 /\ p[Len(f.path) + 1] = path[l]
        /\ \A i \in 1 .. Len(f.path) : p[i] = f.path[i]
    BY <1>0, <2>5
  <2>7. Under(p, path)
    <3>1. ASSUME NEW i \in 1 .. Len(p) PROVE path[i] = p[i]
      <4>1. CASE i = l
        BY <2>1, <2>6, <4>1
      <4>2. CASE i # l
        <5>1. i \in 1 .. Len(f.path)
          BY <1>3, <2>6, <4>2
        <5> QED
          BY <2>6, <5>1 DEF Under
      <4> QED
        BY <4>1, <4>2
    <3>2. Len(p) <= Len(path)
      BY <1>3, <1>5, <2>6
    <3> QED
      BY <3>1, <3>2 DEF Under
  <2>8. Sub(m).kind = "key" /\ Sub(m).at = m
    BY DEF Sub
  <2>9. Covers(f, Sub(m), path, n)
    BY <2>3, <2>4, <2>5, <2>7, <2>8 DEF Covers
  <2> QED
    BY <2>4, <2>9
<1> QED
  BY <1>4, <1>5

LEMMA UnderAppend ==
  ASSUME NEW S, NEW p \in Seq(S), NEW a \in S, NEW path \in Seq(S), Under(Append(p, a), path)
  PROVE  Under(p, path) /\ Len(path) > Len(p) /\ path[Len(p) + 1] = a
<1>1. PICK q : q = Append(p, a)
  OBVIOUS
<1>2. /\ Len(q) = Len(p) + 1 /\ q[Len(p) + 1] = a /\ \A i \in 1 .. Len(p) : q[i] = p[i]
      /\ Len(p) \in Nat /\ Len(path) \in Nat
  BY <1>1
<1> QED
  BY <1>1, <1>2 DEF Under

(* Two tasks of one call cover different places. *)
LEMMA TasksApart ==
  ASSUME SiblingsApart, hive \in Hive, tool \in Tool, NEW f \in FrameType, NEW r \in Root,
         f.left \subseteq Tasks(f.key, r), NEW u \in f.left, NEW v \in f.left,
         NEW path \in Seq(Name), NEW n \in Nat, Covers(f, u, path, n), Covers(f, v, path, n)
  PROVE  u = v
<1>0. f.key \in Key /\ f.path \in Seq(Name) /\ u \in Task /\ v \in Task
  BY DEF FrameType
<1>1. ASSUME NEW w \in f.left, w.kind = "key", Covers(f, w, path, n)
      PROVE  \E m \in Nat : /\ w = Sub(m) /\ Sub(m) \in Tasks(f.key, r)
                            /\ Len(path) > Len(f.path)
                            /\ path[Len(f.path) + 1] = KeyName[SubkeyOf(f.key, m)]
  <2>1. w \in Task
    BY DEF FrameType
  <2>2. PICK m \in Nat : w = Sub(m) /\ m = w.at
    BY <1>1, <2>1, TaskShape
  <2>3. SubkeyOf(f.key, m) \in Key /\ KeyName[SubkeyOf(f.key, m)] \in Name
    BY <1>0, <2>2, SubTaskFacts, NameFacts
  <2>4. Under(Append(f.path, KeyName[SubkeyOf(f.key, m)]), path)
    BY <1>1, <2>2 DEF Covers, Row
  <2> QED
    BY <1>0, <2>2, <2>3, <2>4, UnderAppend
<1>2. ASSUME NEW w \in f.left, w.kind # "key", Covers(f, w, path, n)
      PROVE  w = Row(n) /\ path = f.path
  BY <1>2 DEF Covers
<1>3. CASE u.kind = "key" /\ v.kind = "key"
  <2>1. PICK a \in Nat : /\ u = Sub(a) /\ Sub(a) \in Tasks(f.key, r)
                         /\ path[Len(f.path) + 1] = KeyName[SubkeyOf(f.key, a)]
    BY <1>1, <1>3
  <2>2. PICK b \in Nat : /\ v = Sub(b) /\ Sub(b) \in Tasks(f.key, r)
                         /\ path[Len(f.path) + 1] = KeyName[SubkeyOf(f.key, b)]
    BY <1>1, <1>3
  <2>3. CASE tool = "gosbe"
    <3>1. a = NumberOf[path[Len(f.path) + 1]]
      BY <1>0, <2>1, <2>3, SubTaskFacts
    <3>2. b = NumberOf[path[Len(f.path) + 1]]
      BY <1>0, <2>2, <2>3, SubTaskFacts
    <3> QED
      BY <2>1, <2>2, <3>1, <3>2
  <2>4. CASE tool # "gosbe"
    <3>1. a \in DOMAIN hive.subkeys[f.key] /\ b \in DOMAIN hive.subkeys[f.key]
      BY <2>1, <2>2, <2>4 DEF Tasks, KeyTasks, Row, Sub
    <3>2. KeyName[hive.subkeys[f.key][a]] = KeyName[hive.subkeys[f.key][b]]
      BY <2>1, <2>2, <2>4 DEF SubkeyOf
    <3>3. a = b
      BY <1>0, <3>1, <3>2 DEF SiblingsApart
    <3> QED
      BY <2>1, <2>2, <3>3
  <2> QED
    BY <2>3, <2>4
<1>4. CASE u.kind # "key" /\ v.kind # "key"
  BY <1>2, <1>4
<1>5. ASSUME NEW x \in f.left, NEW y \in f.left, x.kind = "key", y.kind # "key",
             Covers(f, x, path, n), Covers(f, y, path, n)
      PROVE  FALSE
  <2>1. Len(path) > Len(f.path) /\ path = f.path /\ Len(path) \in Nat
    BY <1>1, <1>2, <1>5
  <2> QED
    BY <2>1
<1> QED
  BY <1>3, <1>4, <1>5

(* The invariant after a step, from the values the step gives the variables. *)
LEMMA OnceAfter ==
  ASSUME UNCHANGED <<tool, hive, roots>>, NEW s, NEW rs, NEW x,
         s = stack', rs = rows', x = next',
         MissesNothing(s, rs, x), CoversOnce(s, rs, x), EmitsOnce(rs)
  PROVE  OnceInv'
<1>1. \A f, u, path, n : Covers(f, u, path, n)' <=> Covers(f, u, path, n)
  BY DEF Covers, SubkeyOf, Bag, BagsAt
<1>2. ASSUME NEW r, NEW path, NEW n, OwedBy(r, path, n)' PROVE OwedBy(r, path, n)
  <2>1. PICK q : q = roots[r]
    OBVIOUS
  <2>2. PICK t \in Seq(Key) : IsTrail(q, t)' /\ Names(t, path) /\ (n \in OwedAt(q, Last(t)))'
    BY <1>2, <2>1 DEF OwedBy, IsTrail, OwedAt
  <2>3. IsTrail(q, t)
    BY <2>2, LeadsStays DEF IsTrail
  <2>4. n \in OwedAt(q, Last(t))
    BY <2>2 DEF OwedAt
  <2> QED
    BY <2>1, <2>2, <2>3, <2>4 DEF OwedBy
<1>3. \A r : Wanted(roots[r])' <=> Wanted(roots[r])
  BY DEF Wanted
<1>4. MissesNothing(s, rs, x)' /\ CoversOnce(s, rs, x)'
  BY <1>1, <1>2, <1>3 DEF MissesNothing, CoversOnce
<1> QED
  BY <1>4 DEF OnceInv, MissesNothing, CoversOnce, EmitsOnce

LEMMA CoversSame ==
  ASSUME NEW f, NEW g, f.path = g.path, f.key = g.key, NEW u, NEW path, NEW n
  PROVE  Covers(f, u, path, n) <=> Covers(g, u, path, n)
BY DEF Covers

(* What the calls cover after a task of the innermost is taken. *)
LEMMA RestCovers ==
  ASSUME RInv, stack # << >>, NEW t \in Top.left, NEW i \in DOMAIN stack, NEW u
  PROVE  /\ u \in Rest(t)[i].left <=> u \in stack[i].left /\ ~ (i = Len(stack) /\ u = t)
         /\ \A path, n : Covers(Rest(t)[i], u, path, n) <=> Covers(stack[i], u, path, n)
<1>1. CASE i = Len(stack)
  BY <1>1, RestShape, CoversSame
<1>2. CASE i # Len(stack)
  <2>1. i \in 1 .. Len(stack) - 1
    BY <1>2, RestShape
  <2> QED
    BY <1>2, <2>1, RestShape
<1> QED
  BY <1>1, <1>2

(* The trail of the call a call makes. *)
LEMMA ChildTrail ==
  ASSUME NEW c \in FrameType, CallTrail(c), NEW sub \in Key, Leads(CurrentRoot, c.key, sub),
         NEW f, f.key = sub, f.path = Append(c.path, KeyName[sub])
  PROVE  CallTrail(f)
<1>1. PICK u \in Seq(Key) : IsTrail(CurrentRoot, u) /\ Names(u, c.path) /\ Last(u) = c.key
  BY DEF CallTrail
<1>2. PICK r, path : r = CurrentRoot /\ path = c.path
  OBVIOUS
<1>3. /\ IsTrail(r, u) /\ path \in Seq(Name) /\ Names(u, path)
      /\ Leads(r, Last(u), sub) /\ KeyName[sub] \in Name
  BY <1>1, <1>2, NameFacts DEF FrameType
<1>4. /\ Append(u, sub) \in Seq(Key) /\ IsTrail(r, Append(u, sub))
      /\ Names(Append(u, sub), Append(path, KeyName[sub])) /\ Last(Append(u, sub)) = sub
  BY <1>3, LongerTrail
<1> QED
  BY <1>2, <1>4 DEF CallTrail

LEMMA InitOnce == Init => OnceInv
BY DEF Init, OnceInv, MissesNothing, CoversOnce, EmitsOnce

LEMMA OpenRootOnce ==
  ASSUME SiblingsApart, RInv, TrailInv, OnceInv, OpenRoot
  PROVE  OnceInv'
<1>1. /\ tool \in Tool /\ hive \in Hive /\ roots \in Seq(Root) /\ rows \in Seq(RowType)
      /\ next \in DOMAIN roots /\ next \in Nat /\ stack = << >>
      /\ UNCHANGED <<tool, hive, roots, rows>> /\ next' = next + 1
      /\ stack' = <<Frame(roots[next].key, << >>, << >>, roots[next])>>
      /\ Wanted(roots[next])
  <2>1. roots \in Seq(Root) /\ next \in 1 .. Len(roots) + 1 /\ next <= Len(roots)
    BY RootsAssumption DEF RInv, TypeOK, OpenRoot
  <2>2. next \in DOMAIN roots /\ next \in Nat
    BY <2>1
  <2> QED
    BY <2>1, <2>2 DEF RInv, TypeOK, OpenRoot
<1>2. PICK r \in Root : r = roots[next] /\ r.key \in Key
  BY <1>1, ElementOf DEF Wanted, Root
<1>30. PICK f : f = Frame(r.key, << >>, << >>, r)
  OBVIOUS
<1>3. f \in FrameType /\ f.key = r.key /\ f.path = << >> /\ f.left = Tasks(f.key, r)
  <2>1. Tasks(r.key, r) \in SUBSET Task
    BY <1>1, <1>2, TaskFacts
  <2> QED
    BY <1>2, <1>30, <2>1 DEF Frame, FrameType
<1>4. PICK s, x : s = stack' /\ x = next'
  OBVIOUS
<1>5. s = <<f>> /\ DOMAIN s = {1} /\ s[1] = f /\ x = next + 1 /\ x - 1 = next
  BY <1>1, <1>2, <1>30, <1>4
<1>6. \A path, n : ~ Emitted(rows, next, path, n)
  BY <1>1 DEF TrailInv, RowTrail, Emitted
<1>7. MissesNothing(s, rows, x)
  <2> SUFFICES ASSUME NEW q \in DOMAIN roots, NEW path \in Seq(Name), NEW n \in Nat,
                      q < x, Wanted(roots[q]), OwedBy(q, path, n)
               PROVE  \/ Emitted(rows, q, path, n)
                      \/ q = x - 1 /\ \E i \in DOMAIN s : \E u \in s[i].left : Covers(s[i], u, path, n)
    BY DEF MissesNothing
  <2>1. CASE q < next
    BY <1>1, <2>1 DEF OnceInv, MissesNothing
  <2>2. CASE q = next
    <3>1. PICK t : t = <<r.key>>
      OBVIOUS
    <3>2. t \in Seq(Key) /\ IsTrail(r, t) /\ Names(t, << >>) /\ Last(t) = f.key
      BY <1>2, <1>3, <3>1 DEF IsTrail, Names, Last
    <3>3. Under(<< >>, path)
      BY DEF Under
    <3>4. \E u \in f.left : Covers(f, u, path, n)
      BY <1>1, <1>2, <1>3, <2>2, <3>2, <3>3, FirstTasksCover
    <3> QED
      BY <1>5, <2>2, <3>4
  <2>3. q \in Nat
    BY <1>1
  <2> QED
    BY <1>1, <1>5, <2>1, <2>2, <2>3
<1>8. CoversOnce(s, rows, x)
  <2>1. \A path \in Seq(Name), n \in Nat : \A u, v \in f.left :
          Covers(f, u, path, n) /\ Covers(f, v, path, n) => u = v
    BY <1>1, <1>3, TasksApart
  <2>2. \A i \in DOMAIN s : i = 1 /\ s[i] = f
    BY <1>5
  <2> SUFFICES ASSUME NEW path \in Seq(Name), NEW n \in Nat, NEW i \in DOMAIN s, NEW j \in DOMAIN s,
                      NEW u \in s[i].left, NEW v \in s[j].left
               PROVE  /\ Covers(s[i], u, path, n) => ~ Emitted(rows, x - 1, path, n)
                      /\ Covers(s[i], u, path, n) /\ Covers(s[j], v, path, n) => i = j /\ u = v
    BY DEF CoversOnce
  <2>3. i = j /\ s[i] = f /\ s[j] = f
    BY <2>2
  <2> QED
    BY <1>5, <1>6, <2>1, <2>3
<1> QED
  BY <1>1, <1>4, <1>7, <1>8, OnceAfter DEF OnceInv

LEMMA EmitRowOnce ==
  ASSUME RInv, OnceInv, EmitRow
  PROVE  OnceInv'
<1>1. /\ UNCHANGED <<tool, hive, roots, next>> /\ stack # << >> /\ rows \in Seq(RowType)
      /\ Top \in FrameType
  BY TopFacts DEF EmitRow
<1>2. PICK t \in Top.left : t.kind = "row" /\ stack' = Rest(t)
        /\ rows' = Append(rows,
            [root |-> next - 1, path |-> Top.path, at |-> t.at,
             abs |-> PathOf(Top.key, Top.abs, t.at),
             mru |-> IF tool = "gosbe" THEN MruPosition(hive.mru[Top.key], t.at)
                                       ELSE Unranked])
  BY DEF EmitRow
<1>3. PICK m \in Nat : t = Row(m) /\ t.at = m
  BY <1>1, <1>2, TaskShape DEF FrameType
<1>4. PICK row : /\ row.root = next - 1 /\ row.path = Top.path /\ row.at = m
                 /\ rows' = Append(rows, row)
  BY <1>2, <1>3
<1>5. PICK s, rs, N : s = stack' /\ rs = rows' /\ N = Len(stack)
  OBVIOUS
<1>6. /\ DOMAIN rs = DOMAIN rows \cup {Len(rows) + 1} /\ rs[Len(rows) + 1] = row
      /\ \A i \in DOMAIN rows : rs[i] = rows[i] /\ i # Len(rows) + 1
  BY <1>1, <1>4, <1>5
<1>7. \A r, path, n : Emitted(rs, r, path, n) <=>
        \/ Emitted(rows, r, path, n)
        \/ r = next - 1 /\ path = Top.path /\ n = m
  BY <1>4, <1>6 DEF Emitted
<1>8. /\ N \in DOMAIN stack /\ stack[N] = Top /\ DOMAIN s = DOMAIN stack
      /\ \A i \in DOMAIN stack : \A u :
           /\ u \in s[i].left <=> u \in stack[i].left /\ ~ (i = N /\ u = t)
           /\ \A path, n : Covers(s[i], u, path, n) <=> Covers(stack[i], u, path, n)
  <2>1. /\ N \in DOMAIN stack /\ stack[N] = Top /\ DOMAIN s = DOMAIN stack
    BY <1>1, <1>2, <1>5, RestShape
  <2>2. s = Rest(t)
    BY <1>2, <1>5
  <2> QED
    BY <1>1, <1>5, <2>1, <2>2, RestCovers
\* Of what the calls covered, the taken task's place is the one emitted.
<1>9. \A path, n : Covers(Top, t, path, n) <=> path = Top.path /\ n = m
  BY <1>3 DEF Covers, Row
<1>10. MissesNothing(s, rs, next)
  <2> SUFFICES ASSUME NEW r \in DOMAIN roots, NEW path \in Seq(Name), NEW n \in Nat,
                      r < next, Wanted(roots[r]), OwedBy(r, path, n), ~ Emitted(rs, r, path, n)
               PROVE  r = next - 1 /\ \E i \in DOMAIN s : \E u \in s[i].left : Covers(s[i], u, path, n)
    BY DEF MissesNothing
  <2>1. ~ Emitted(rows, r, path, n)
    BY <1>7
  <2>2. r = next - 1
    BY <2>1 DEF OnceInv, MissesNothing
  <2>3a. PICK i \in DOMAIN stack : \E u \in stack[i].left : Covers(stack[i], u, path, n)
    BY <2>1 DEF OnceInv, MissesNothing
  <2>3. PICK u \in stack[i].left : Covers(stack[i], u, path, n)
    BY <2>3a
  <2>4. ~ (i = N /\ u = t)
    BY <1>7, <1>8, <1>9, <2>2, <2>3
  <2> QED
    BY <1>8, <2>2, <2>3, <2>4
<1>11. Top.path \in Seq(Name) /\ Covers(stack[N], t, Top.path, m) /\ t \in stack[N].left
  BY <1>1, <1>8, <1>9 DEF FrameType
<1>12. CoversOnce(s, rs, next)
  <2> SUFFICES ASSUME NEW path \in Seq(Name), NEW n \in Nat, NEW i \in DOMAIN s, NEW j \in DOMAIN s,
                      NEW u \in s[i].left, NEW v \in s[j].left
               PROVE  /\ Covers(s[i], u, path, n) => ~ Emitted(rs, next - 1, path, n)
                      /\ Covers(s[i], u, path, n) /\ Covers(s[j], v, path, n) => i = j /\ u = v
    BY DEF CoversOnce
  <2>1. /\ u \in stack[i].left /\ v \in stack[j].left /\ ~ (i = N /\ u = t)
        /\ i \in DOMAIN stack /\ j \in DOMAIN stack
        /\ Covers(s[i], u, path, n) <=> Covers(stack[i], u, path, n)
        /\ Covers(s[j], v, path, n) <=> Covers(stack[j], v, path, n)
    BY <1>8
  <2>2. Covers(stack[i], u, path, n) /\ Covers(stack[j], v, path, n) => i = j /\ u = v
    BY <2>1 DEF OnceInv, CoversOnce
  <2>3. Covers(stack[i], u, path, n) => ~ Emitted(rows, next - 1, path, n)
    BY <2>1 DEF OnceInv, CoversOnce
  <2>4. ASSUME Covers(stack[i], u, path, n), path = Top.path, n = m PROVE FALSE
    BY <1>8, <1>11, <2>1, <2>4 DEF OnceInv, CoversOnce
  <2> QED
    BY <1>7, <2>1, <2>2, <2>3, <2>4
<1>13. EmitsOnce(rs)
  <2>1. ~ Emitted(rows, next - 1, Top.path, m)
    BY <1>3, <1>8, <1>11 DEF OnceInv, CoversOnce
  <2>2. \A i \in DOMAIN rows : Place(rows[i]) # Place(row)
    <3> SUFFICES ASSUME NEW i \in DOMAIN rows, Place(rows[i]) = Place(row) PROVE FALSE
      OBVIOUS
    <3>1. rows[i].root = row.root /\ rows[i].path = row.path /\ rows[i].at = row.at
      BY DEF Place
    <3> QED
      BY <1>4, <2>1, <3>1 DEF Emitted
  <2> QED
    BY <1>6, <2>2 DEF OnceInv, EmitsOnce
<1> QED
  BY <1>1, <1>5, <1>10, <1>12, <1>13, OnceAfter

LEMMA ReturnOnce ==
  ASSUME RInv, OnceInv, Return
  PROVE  OnceInv'
<1>1. /\ UNCHANGED <<tool, hive, roots, next, rows>> /\ stack # << >> /\ Top.left = {}
      /\ stack' = Front(stack) /\ stack \in Seq(FrameType)
  BY DEF Return, RInv, TypeOK
<1>2. PICK s \in Seq(FrameType), n \in Nat :
        /\ s = Front(stack) /\ n = Len(stack) /\ Len(s) = n - 1 /\ n >= 1
        /\ stack[n] = Top /\ \A i \in 1 .. n - 1 : s[i] = stack[i]
  BY <1>1, EndsOfSequences DEF Top
<1>3. /\ DOMAIN s = 1 .. n - 1 /\ DOMAIN stack = 1 .. n
      /\ \A i \in DOMAIN s : i \in DOMAIN stack /\ s[i] = stack[i]
  BY <1>1, <1>2
<1>4. \A i \in DOMAIN stack : i \in DOMAIN s \/ stack[i].left = {}
  BY <1>1, <1>2, <1>3
<1>5. MissesNothing(s, rows, next)
  BY <1>3, <1>4 DEF OnceInv, MissesNothing
<1>6. CoversOnce(s, rows, next)
  BY <1>3 DEF OnceInv, CoversOnce
<1> QED
  BY <1>1, <1>2, <1>5, <1>6, OnceAfter DEF OnceInv

LEMMA OtherOnce ==
  ASSUME RInv, OnceInv, SkipRoot \/ EmitFails \/ Finish \/ UNCHANGED vars
  PROVE  OnceInv'
<1>1. UNCHANGED <<tool, hive, roots, rows, stack>>
  BY DEF SkipRoot, EmitFails, Finish, vars
<1>2. CASE SkipRoot
  <2>1. next \in Nat /\ stack = << >> /\ next' = next + 1 /\ ~ Wanted(roots[next])
    BY <1>2 DEF RInv, TypeOK, SkipRoot
  <2>2. PICK x \in Nat : x = next' /\ x = next + 1
    BY <2>1
  <2>3. MissesNothing(stack, rows, x)
    <3> SUFFICES ASSUME NEW r \in DOMAIN roots, NEW path \in Seq(Name), NEW n \in Nat,
                        r < x, Wanted(roots[r]), OwedBy(r, path, n)
                 PROVE  Emitted(rows, r, path, n)
      BY DEF MissesNothing
    <3>1. r \in Nat
      BY RootsAssumption DEF RInv, TypeOK
    <3>2. r < next
      BY <2>1, <2>2, <3>1
    <3>3. DOMAIN stack = {}
      BY <2>1
    <3> QED
      BY <3>2, <3>3 DEF OnceInv, MissesNothing
  <2>4. CoversOnce(stack, rows, x)
    <3>1. DOMAIN stack = {}
      BY <2>1
    <3> QED
      BY <3>1 DEF CoversOnce
  <2> QED
    BY <1>1, <2>2, <2>3, <2>4, OnceAfter DEF OnceInv
<1>3. CASE EmitFails \/ Finish \/ UNCHANGED vars
  <2>1. next' = next
    BY <1>3 DEF EmitFails, Finish, vars
  <2> QED
    BY <1>1, <2>1, OnceAfter DEF OnceInv
<1> QED
  BY <1>2, <1>3

(* What the new call covers its task covered before. *)
LEMMA ChildCovers ==
  ASSUME NEW c \in FrameType, NEW m \in Nat, NEW sub \in Key, sub = SubkeyOf(c.key, m),
         hive \in Hive, tool \in Tool,
         NEW f \in FrameType, f.path = Append(c.path, KeyName[sub]),
         NEW r \in Root, f.key = sub, f.left \subseteq Tasks(sub, r),
         NEW u \in f.left, NEW path \in Seq(Name), NEW n \in Nat, Covers(f, u, path, n)
  PROVE  Covers(c, Sub(m), path, n)
<1>1. f.path \in Seq(Name) /\ KeyName[sub] \in Name /\ Sub(m).kind = "key" /\ Sub(m).at = m
  BY NameFacts DEF FrameType, Sub
<1>2. Under(f.path, path)
  <2>1. CASE u = Row(n) /\ f.path = path
    BY <1>1, <2>1 DEF Under
  <2>2. CASE u.kind = "key" /\ Under(Append(f.path, KeyName[SubkeyOf(f.key, u.at)]), path)
    <3>1. u \in Task
      BY DEF FrameType
    <3>2. PICK l \in Nat : u = Sub(l) /\ u.at = l
      BY <2>2, <3>1, TaskShape
    <3>3. SubkeyOf(f.key, l) \in Key
      BY <3>2, SubTaskFacts
    <3>4. KeyName[SubkeyOf(f.key, l)] \in Name
      BY <3>3, NameFacts
    <3> QED
      BY <1>1, <2>2, <3>2, <3>4, UnderAppend
  <2> QED
    BY <2>1, <2>2 DEF Covers
<1> QED
  BY <1>1, <1>2 DEF Covers

LEMMA DescendOnce ==
  ASSUME SiblingsApart, RInv, TrailInv, OnceInv, Descend
  PROVE  OnceInv'
<1>1. /\ UNCHANGED <<tool, hive, roots, next, rows>> /\ stack # << >>
      /\ Top \in FrameType /\ CallOK(Top) /\ CurrentRoot \in Root /\ next - 1 \in DOMAIN roots
      /\ hive \in Hive /\ tool \in Tool /\ roots \in Seq(Root) /\ next \in Nat
      /\ Top.key \in Key /\ Top.path \in Seq(Name)
  <2>1. stack # << >>
    BY DEF Descend
  <2>2. Top \in FrameType
    BY <2>1, TopFacts
  <2> QED
    BY <2>1, <2>2, TopFacts, RootsAssumption DEF Descend, RInv, TypeOK, FrameType
<1>20. PICK t \in Top.left : /\ t.kind = "key"
         /\ \E sub : /\ sub = SubkeyOf(Top.key, t.at)
                     /\ stack' = Append(Rest(t),
                          Frame(sub, Append(Top.path, KeyName[sub]),
                                PathOf(Top.key, Top.abs, t.at), CurrentRoot))
  BY DEF Descend
<1>2. PICK sub : /\ sub = SubkeyOf(Top.key, t.at)
                 /\ stack' = Append(Rest(t),
                      Frame(sub, Append(Top.path, KeyName[sub]),
                            PathOf(Top.key, Top.abs, t.at), CurrentRoot))
  BY <1>20
<1>3. PICK m \in Nat : t = Sub(m) /\ m = t.at
  <2>1. t \in Task
    BY <1>1 DEF FrameType
  <2> QED
    BY <1>20, <2>1, TaskShape
<1>4. sub \in Key /\ KeyName[sub] \in Name /\ Leads(CurrentRoot, Top.key, sub)
  <2>1. Sub(m) \in Tasks(Top.key, CurrentRoot)
    BY <1>1, <1>3 DEF CallOK
  <2> QED
    BY <1>1, <1>2, <1>3, <2>1, DescentsLead, NameFacts
<1>5. PICK f, s : /\ f = Frame(sub, Append(Top.path, KeyName[sub]),
                               PathOf(Top.key, Top.abs, t.at), CurrentRoot)
                  /\ s = Append(Rest(t), f) /\ s = stack'
  BY <1>2
<1>50. /\ DOMAIN s = 1 .. Len(stack) + 1 /\ s[Len(stack) + 1] = f
       /\ \A i \in 1 .. Len(stack) : s[i] = Rest(t)[i]
  <2>1. PICK rest \in Seq(FrameType), n \in Nat :
          rest = Rest(t) /\ n = Len(stack) /\ Len(rest) = n
    BY <1>1, RestShape
  <2>2. s = Append(rest, f)
    BY <1>5, <2>1
  <2>3. /\ DOMAIN s = 1 .. n + 1 /\ s[n + 1] = f
        /\ \A i \in 1 .. n : s[i] = rest[i]
    BY <2>1, <2>2
  <2> QED
    BY <2>1, <2>3
<1>6. PICK q \in DOMAIN roots : q = next - 1 /\ CurrentRoot = roots[q] /\ roots[q] \in Root
  BY <1>1 DEF CurrentRoot
<1>7. f \in FrameType /\ f.key = sub /\ f.path = Append(Top.path, KeyName[sub])
      /\ f.left = Tasks(sub, roots[q])
  <2>1. RInv'
    BY DescendRInv
  <2>2. Rest(t) \in Seq(FrameType) /\ s \in Seq(FrameType)
    <3>1. stack' \in Seq(FrameType)
      BY <2>1 DEF RInv, TypeOK
    <3> QED
      BY <1>1, <1>5, <3>1, RestShape
  <2>3. s[Len(stack) + 1] = f /\ Len(stack) + 1 \in DOMAIN s
    BY <1>1, <1>50, RestShape
  <2>4. f \in FrameType
    BY <2>2, <2>3, ElementOf
  <2> QED
    BY <1>5, <1>6, <2>4 DEF Frame
<1>8. PICK N \in Nat : /\ N = Len(stack) /\ N >= 1 /\ DOMAIN stack = 1 .. N /\ stack[N] = Top
                       /\ DOMAIN s = 1 .. N + 1 /\ s[N + 1] = f
                       /\ \A i \in 1 .. N : s[i] = Rest(t)[i]
  <2>1. /\ Len(stack) \in Nat /\ Len(stack) >= 1 /\ DOMAIN stack = 1 .. Len(stack)
        /\ stack[Len(stack)] = Top
    BY <1>1, RestShape
  <2> QED
    BY <1>50, <2>1
<1>9. \A i \in DOMAIN stack : \A u :
        /\ i \in DOMAIN s /\ i # N + 1
        /\ u \in s[i].left <=> u \in stack[i].left /\ ~ (i = N /\ u = t)
        /\ \A path, n : Covers(s[i], u, path, n) <=> Covers(stack[i], u, path, n)
  <2> SUFFICES ASSUME NEW i \in DOMAIN stack, NEW u
               PROVE  /\ i \in DOMAIN s /\ i # N + 1
                      /\ u \in s[i].left <=> u \in stack[i].left /\ ~ (i = N /\ u = t)
                      /\ \A path, n : Covers(s[i], u, path, n) <=> Covers(stack[i], u, path, n)
    OBVIOUS
  <2>1. s[i] = Rest(t)[i] /\ i \in DOMAIN s /\ i # N + 1
    BY <1>8
  <2> QED
    BY <1>1, <1>8, <2>1, RestCovers
<1>10. \A path \in Seq(Name), n \in Nat : \A u \in f.left :
         Covers(f, u, path, n) => Covers(Top, t, path, n)
  <2> SUFFICES ASSUME NEW path \in Seq(Name), NEW n \in Nat, NEW u \in f.left,
                      Covers(f, u, path, n)
               PROVE  Covers(Top, t, path, n)
    OBVIOUS
  <2>1. PICK c \in FrameType : c = Top
    BY <1>1
  <2>2. sub = SubkeyOf(c.key, m) /\ f.path = Append(c.path, KeyName[sub])
    BY <1>2, <1>3, <1>7, <2>1
  <2>3. PICK r \in Root : f.left \subseteq Tasks(sub, r)
    BY <1>6, <1>7
  <2>4. Covers(c, Sub(m), path, n)
    BY <1>1, <1>4, <1>7, <2>2, <2>3, ChildCovers
  <2> QED
    BY <1>3, <2>1, <2>4
<1>11. \A path \in Seq(Name), n \in Nat :
         OwedBy(q, path, n) /\ Covers(Top, t, path, n) => \E u \in f.left : Covers(f, u, path, n)
  <2> SUFFICES ASSUME NEW path \in Seq(Name), NEW n \in Nat, OwedBy(q, path, n),
                      Covers(Top, t, path, n)
               PROVE  \E u \in f.left : Covers(f, u, path, n)
    OBVIOUS
  <2>1. CallTrail(f)
    <3>1. CallTrail(Top)
      BY <1>8 DEF TrailInv
    <3> QED
      BY <1>1, <1>4, <1>7, <3>1, ChildTrail
  <2>2. PICK v \in Seq(Key) : IsTrail(roots[q], v) /\ Names(v, f.path) /\ Last(v) = f.key
    BY <1>6, <2>1 DEF CallTrail
  <2>3. Under(f.path, path)
    BY <1>2, <1>3, <1>7 DEF Covers, Row, Sub
  <2> QED
    BY <1>1, <1>6, <1>7, <2>2, <2>3, FirstTasksCover
<1>12. MissesNothing(s, rows, next)
  <2> SUFFICES ASSUME NEW r \in DOMAIN roots, NEW path \in Seq(Name), NEW n \in Nat,
                      r < next, Wanted(roots[r]), OwedBy(r, path, n), ~ Emitted(rows, r, path, n)
               PROVE  r = next - 1 /\ \E i \in DOMAIN s : \E u \in s[i].left : Covers(s[i], u, path, n)
    BY DEF MissesNothing
  <2>1. r = next - 1 /\ r = q
    BY <1>6 DEF OnceInv, MissesNothing
  <2>2. PICK i \in DOMAIN stack : \E u \in stack[i].left : Covers(stack[i], u, path, n)
    BY DEF OnceInv, MissesNothing
  <2>3. PICK u \in stack[i].left : Covers(stack[i], u, path, n)
    BY <2>2
  <2>4. CASE i = N /\ u = t
    <3>1. \E v \in f.left : Covers(f, v, path, n)
      BY <1>8, <1>11, <2>1, <2>3, <2>4
    <3> QED
      BY <1>8, <2>1, <3>1
  <2>5. CASE ~ (i = N /\ u = t)
    BY <1>9, <2>1, <2>2, <2>3, <2>5
  <2> QED
    BY <2>4, <2>5
\* A task of the new call stands for the task that was taken.
<1>13. ASSUME NEW i \in DOMAIN s, NEW u \in s[i].left, NEW path \in Seq(Name), NEW n \in Nat,
              Covers(s[i], u, path, n)
       PROVE  \/ /\ i = N + 1 /\ u \in f.left /\ Covers(f, u, path, n)
                 /\ t \in stack[N].left /\ Covers(stack[N], t, path, n)
              \/ /\ i \in DOMAIN stack /\ i # N + 1 /\ u \in stack[i].left
                 /\ Covers(stack[i], u, path, n) /\ ~ (i = N /\ u = t)
  <2>1. CASE i = N + 1
    BY <1>8, <1>10, <1>13, <2>1
  <2>2. CASE i # N + 1
    <3>1. i \in DOMAIN stack
      BY <1>8, <2>2
    <3> QED
      BY <1>9, <1>13, <3>1
  <2> QED
    BY <2>1, <2>2
<1>14. CoversOnce(s, rows, next)
  <2> SUFFICES ASSUME NEW path \in Seq(Name), NEW n \in Nat, NEW i \in DOMAIN s, NEW j \in DOMAIN s,
                      NEW u \in s[i].left, NEW v \in s[j].left, Covers(s[i], u, path, n)
               PROVE  /\ ~ Emitted(rows, next - 1, path, n)
                      /\ Covers(s[j], v, path, n) => i = j /\ u = v
    BY DEF CoversOnce
  <2>0. /\ N \in DOMAIN stack
        /\ \A k, l \in DOMAIN stack : \A x \in stack[k].left, y \in stack[l].left :
             /\ Covers(stack[k], x, path, n) => ~ Emitted(rows, next - 1, path, n)
             /\ Covers(stack[k], x, path, n) /\ Covers(stack[l], y, path, n) => k = l /\ x = y
    BY <1>8 DEF OnceInv, CoversOnce
  <2>1. ~ Emitted(rows, next - 1, path, n)
    <3>1. \E k \in DOMAIN stack : \E x \in stack[k].left : Covers(stack[k], x, path, n)
      BY <1>13, <2>0
    <3> QED
      BY <2>0, <3>1
  <2>2. ASSUME Covers(s[j], v, path, n) PROVE i = j /\ u = v
    <3>1. CASE i = N + 1 /\ j = N + 1
      <4>1. u \in f.left /\ v \in f.left /\ Covers(f, u, path, n) /\ Covers(f, v, path, n)
        BY <1>8, <2>2, <3>1
      <4>2. f.left \subseteq Tasks(f.key, roots[q])
        BY <1>7
      <4> QED
        BY <1>1, <1>6, <1>7, <3>1, <4>1, <4>2, TasksApart
    <3>2. CASE i # N + 1 /\ j # N + 1
      BY <1>13, <2>0, <2>2, <3>2
    <3>3. CASE i = N + 1 /\ j # N + 1
      <4>1. t \in stack[N].left /\ Covers(stack[N], t, path, n)
        BY <1>13, <3>3
      <4>2. /\ j \in DOMAIN stack /\ v \in stack[j].left /\ Covers(stack[j], v, path, n)
            /\ ~ (j = N /\ v = t)
        BY <1>13, <2>2, <3>3
      <4> QED
        BY <2>0, <4>1, <4>2
    <3>4. CASE i # N + 1 /\ j = N + 1
      <4>1. t \in stack[N].left /\ Covers(stack[N], t, path, n)
        BY <1>13, <2>2, <3>4
      <4>2. /\ i \in DOMAIN stack /\ u \in stack[i].left /\ Covers(stack[i], u, path, n)
            /\ ~ (i = N /\ u = t)
        BY <1>13, <3>4
      <4> QED
        BY <2>0, <4>1, <4>2
    <3> QED
      BY <3>1, <3>2, <3>3, <3>4
  <2> QED
    BY <2>1, <2>2
<1> QED
  BY <1>1, <1>5, <1>12, <1>14, OnceAfter DEF OnceInv

LEMMA OnceInvariance ==
  ASSUME SiblingsApart
  PROVE  Spec => [](RInv /\ TrailInv /\ OnceInv)
<1>1. RInv /\ TrailInv /\ OnceInv /\ [Next]_vars => OnceInv'
  BY OpenRootOnce, EmitRowOnce, DescendOnce, ReturnOnce, OtherOnce DEF Next
<1> QED
  BY <1>1, InitOnce, TrailInvariance, PTL DEF Spec

-----------------------------------------------------------------------------
(* The walk ends well only past the last root. *)
AllRoots == pc = "done" => next > Len(roots)

LEMMA AllRootsInvariance == Spec => []AllRoots
<1>1. Init => AllRoots
  BY DEF Init, AllRoots
<1>2. AllRoots /\ [Next]_vars => AllRoots'
  BY DEF AllRoots, Next, vars, SkipRoot, OpenRoot, EmitRow, EmitFails, Descend, Return, Finish
<1> QED
  BY <1>1, <1>2, PTL DEF Spec

(* Where no key is below itself a trail goes through a key once, so it is no
   longer than there are keys.                                               *)
LEMMA ShortTrails ==
  ASSUME NoCycles, IsFiniteSet(Key), hive \in Hive, tool \in Tool,
         NEW r \in Root, NEW t \in Seq(Key), IsTrail(r, t)
  PROVE  Len(t) \in 1 .. Cardinality(Key)
<1>1. PICK depth \in [Key -> Nat] :
        \A k \in Key : \A c \in RangeOf(hive.subkeys[k]) : depth[k] < depth[c]
  <2>1. 1 .. Cardinality(Key) \subseteq Nat
    BY FS_CardinalityType
  <2>2. PICK depth \in [Key -> 1 .. Cardinality(Key)] :
          \A k \in Key : \A c \in RangeOf(hive.subkeys[k]) : depth[k] < depth[c]
    BY DEF NoCycles
  <2> QED
    BY <2>1, <2>2
<1>2. PICK n \in Nat : n = Len(t) /\ n >= 1 /\ t \in [1 .. n -> Key]
  BY TrailKeys
<1>3. PICK d \in [1 .. n -> Nat] : \A i \in 1 .. n : d[i] = depth[t[i]]
  <2>1. \A i \in 1 .. n : depth[t[i]] \in Nat
    BY <1>1, <1>2
  <2>2. [i \in 1 .. n |-> depth[t[i]]] \in [1 .. n -> Nat]
    BY <2>1
  <2> QED
    BY <2>2
<1>4. \A i \in 1 .. n - 1 : d[i] < d[i + 1]
  <2> SUFFICES ASSUME NEW i \in 1 .. n - 1 PROVE d[i] < d[i + 1]
    OBVIOUS
  <2>1. i \in 1 .. n /\ i + 1 \in 1 .. n /\ t[i] \in Key
    BY <1>2
  <2>2. t[i + 1] \in RangeOf(hive.subkeys[t[i]])
    BY <1>2, TrailKeys
  <2> QED
    BY <1>1, <1>3, <2>1, <2>2
<1> DEFINE bad == {j \in Nat : j <= n /\ \E i \in 1 .. n : i < j /\ ~ (d[i] < d[j])}
<1>5. bad = {}
  <2> SUFFICES ASSUME bad # {} PROVE FALSE
    OBVIOUS
  <2>1. PICK m \in bad : \A k \in bad : m <= k
    <3>1. bad \in SUBSET Nat
      OBVIOUS
    <3> HIDE DEF bad
    <3> QED
      BY <3>1, LeastNatOf
  <2>2. PICK i \in 1 .. n : m \in Nat /\ m <= n /\ i < m /\ ~ (d[i] < d[m])
    OBVIOUS
  <2>3. PICK l \in 1 .. n - 1 : l + 1 = m /\ l < m /\ i <= l
    <3>1. m - 1 \in 1 .. n - 1 /\ (m - 1) + 1 = m /\ m - 1 < m /\ i <= m - 1
      BY <1>2, <2>2
    <3> QED
      BY <3>1
  <2>4. l \notin bad
    <3> HIDE DEF bad
    <3> QED
      BY <2>1, <2>2, <2>3
  <2>5. d[l] < d[m] /\ l \in 1 .. n /\ m \in 1 .. n
    <3>1. d[l] < d[l + 1]
      BY <1>4
    <3>2. l \in 1 .. n /\ m \in 1 .. n
      BY <1>2, <2>2, <2>3
    <3> QED
      BY <2>3, <3>1, <3>2
  <2>6. i = l \/ d[i] < d[l]
    BY <2>2, <2>3, <2>4, <2>5
  <2>7. d[i] \in Nat /\ d[l] \in Nat /\ d[m] \in Nat
    BY <2>2, <2>5
  <2> QED
    BY <2>2, <2>5, <2>6, <2>7
<1>6. t \in Injection(1 .. n, Key)
  <2> SUFFICES ASSUME NEW i \in 1 .. n, NEW j \in 1 .. n, t[i] = t[j] PROVE i = j
    BY <1>2 DEF Injection, IsInjective
  <2>1. d[i] = d[j] /\ d[i] \in Nat
    BY <1>3
  <2>2. i \notin bad /\ j \notin bad /\ i \in Nat /\ j \in Nat /\ i <= n /\ j <= n
    <3> HIDE DEF bad
    <3>1. i \notin bad /\ j \notin bad
      BY <1>5
    <3> QED
      BY <1>2, <3>1
  <2>3. ~ (d[i] < d[j]) /\ ~ (d[j] < d[i])
    BY <2>1
  <2>4. ~ (i < j) /\ ~ (j < i)
    BY <2>2, <2>3
  <2> QED
    BY <2>2, <2>4
<1>7. IsFiniteSet(1 .. n) /\ Cardinality(1 .. n) = n
  <2> HIDE DEF bad
  <2>1. 1 \in Int /\ n \in Int /\ ~ (1 > n) /\ (n - 1) + 1 = n
    BY <1>2
  <2>2. /\ IsFiniteSet(1 .. n)
        /\ Cardinality(1 .. n) = IF 1 > n THEN 0 ELSE n - 1 + 1
    BY <2>1, FS_Interval, Zenon
  <2> QED
    BY <2>1, <2>2
<1>8. Cardinality(1 .. n) <= Cardinality(Key) /\ Cardinality(Key) \in Nat
  BY <1>6, FS_Injection, FS_CardinalityType
<1> QED
  BY <1>2, <1>7, <1>8

LEMMA FunctionsAreSequences ==
  ASSUME NEW S, NEW n \in Nat, NEW t \in [1 .. n -> S]
  PROVE  t \in Seq(S) /\ Len(t) = n
OBVIOUS

(* What is owed is what the roots that are wanted owe along trails. *)
LEMMA OwedMeans ==
  ASSUME NEW o
  PROVE  o \in Owed <=>
           \E r \in DOMAIN roots : /\ roots[r].key # NoKey /\ (tool = "gosbe" \/ roots[r].fits)
                                   /\ \E t \in Trails(roots[r]) : \E n \in OwedAt(roots[r], t[Len(t)]) :
                                        o = [root |-> r, at |-> n,
                                             path |-> [i \in 1 .. Len(t) - 1 |-> KeyName[t[i + 1]]]]
BY DEF Owed

LEMMA OwedAtNat ==
  ASSUME hive \in Hive, tool \in Tool, NEW k \in Key, NEW r \in Root
  PROVE  OwedAt(r, k) \subseteq Nat
<1>1. hive.values[k] \in Seq(Value) /\ DOMAIN hive.values[k] \subseteq Nat
  BY HiveFacts
<1>2. ASSUME NEW n \in OwedAt(r, k), tool = "gosbe" PROVE n \in Nat
  <2>1. n \in RangeOf(NumberOf) /\ n >= 0
    BY <1>2 DEF OwedAt
  <2>2. n \in Nat \cup {NotNumeric}
    BY <2>1, NameAssumption DEF RangeOf
  <2> QED
    BY <2>1, <2>2 DEF NotNumeric
<1>3. ASSUME NEW n \in OwedAt(r, k), tool # "gosbe" PROVE n \in Nat
  BY <1>1, <1>3 DEF OwedAt
<1> QED
  BY <1>2, <1>3

(* A row that was emitted is owed. *)
LEMMA EmittedIsOwed ==
  ASSUME NoCycles, IsFiniteSet(Key), RInv, TrailInv, NEW i \in DOMAIN rows
  PROVE  Place(rows[i]) \in Owed
<1>1. hive \in Hive /\ tool \in Tool /\ roots \in Seq(Root) /\ rows[i] \in RowType
  BY RootsAssumption, ElementOf DEF RInv, TypeOK
<1>2. PICK row \in RowType : row = rows[i]
  BY <1>1
<1>3. RowTrail(row)
  BY <1>2 DEF TrailInv
<1>4. PICK r \in DOMAIN roots : r = row.root /\ Wanted(roots[r])
  BY <1>3 DEF RowTrail
<1>5. PICK t \in Seq(Key) : /\ IsTrail(roots[r], t) /\ Names(t, row.path)
                            /\ row.at \in OwedAt(roots[r], Last(t))
  BY <1>3, <1>4 DEF RowTrail
<1>6. roots[r] \in Root
  BY <1>1, ElementOf
<1>7. PICK n \in 1 .. Cardinality(Key) : n = Len(t)
  BY <1>1, <1>5, <1>6, ShortTrails
<1>8. t \in Trails(roots[r])
  <2>1. t \in [1 .. n -> Key]
    BY <1>7
  <2>2. t[1] = roots[r].key /\ \A j \in 1 .. Len(t) - 1 : Leads(roots[r], t[j], t[j + 1])
    BY <1>5 DEF IsTrail
  <2> QED
    BY <2>1, <2>2 DEF Trails
<1>9. row.path = [j \in 1 .. Len(t) - 1 |-> KeyName[t[j + 1]]]
  <2>1. /\ row.path \in Seq(Name) /\ Len(t) - 1 = Len(row.path)
        /\ \A j \in 1 .. Len(row.path) : row.path[j] = KeyName[t[j + 1]]
    BY <1>5 DEF Names, RowType
  <2>2. row.path = [j \in 1 .. Len(row.path) |-> row.path[j]]
    BY <2>1
  <2> QED
    BY <2>1, <2>2
<1>10. Place(row) = [root |-> r, at |-> row.at,
                     path |-> [j \in 1 .. Len(t) - 1 |-> KeyName[t[j + 1]]]]
  BY <1>4, <1>9 DEF Place
<1>11. roots[r].key # NoKey /\ (tool = "gosbe" \/ roots[r].fits)
  BY <1>1, <1>4 DEF Wanted, Tool
<1>12. row.at \in OwedAt(roots[r], t[Len(t)])
  BY <1>5 DEF Last
<1> QED
  BY <1>2, <1>8, <1>10, <1>11, <1>12, OwedMeans

(* At the end of the walk what is owed has been emitted. *)
LEMMA OwedIsEmitted ==
  ASSUME RInv, OnceInv, AllRoots, pc = "done", NEW o \in Owed
  PROVE  \E i \in DOMAIN rows : Place(rows[i]) = o
<1>1. hive \in Hive /\ tool \in Tool /\ roots \in Seq(Root) /\ stack = << >> /\ next \in Nat
  BY RootsAssumption DEF RInv, TypeOK
<1>2. PICK r \in DOMAIN roots :
        /\ roots[r].key # NoKey /\ (tool = "gosbe" \/ roots[r].fits)
        /\ \E t \in Trails(roots[r]) : \E n \in OwedAt(roots[r], t[Len(t)]) :
             o = [root |-> r, at |-> n,
                  path |-> [i \in 1 .. Len(t) - 1 |-> KeyName[t[i + 1]]]]
  BY OwedMeans
<1>3. PICK t \in Trails(roots[r]) : \E n \in OwedAt(roots[r], t[Len(t)]) :
        o = [root |-> r, at |-> n, path |-> [i \in 1 .. Len(t) - 1 |-> KeyName[t[i + 1]]]]
  BY <1>2
<1>4. PICK n \in OwedAt(roots[r], t[Len(t)]) :
        o = [root |-> r, at |-> n, path |-> [i \in 1 .. Len(t) - 1 |-> KeyName[t[i + 1]]]]
  BY <1>3
<1>5. PICK l \in 1 .. Cardinality(Key) : t \in [1 .. l -> Key]
  BY <1>3 DEF Trails
<1>6. l \in Nat /\ l >= 1
  BY <1>5
<1>7. t \in Seq(Key) /\ Len(t) = l
  BY <1>5, <1>6, FunctionsAreSequences
<1>8. IsTrail(roots[r], t)
  BY <1>3, <1>6, <1>7 DEF Trails, IsTrail
<1>9. PICK path : path = [i \in 1 .. l - 1 |-> KeyName[t[i + 1]]]
  OBVIOUS
<1>10. path \in Seq(Name) /\ Len(path) = l - 1 /\ Names(t, path)
  <2>1. l - 1 \in Nat /\ \A i \in 1 .. l - 1 : i + 1 \in 1 .. l
    BY <1>6
  <2>2. path \in [1 .. l - 1 -> Name]
    BY <1>5, <1>9, <2>1, NameFacts
  <2>3. path \in Seq(Name) /\ Len(path) = l - 1
    BY <2>1, <2>2, FunctionsAreSequences
  <2> QED
    BY <1>6, <1>7, <1>9, <2>3 DEF Names
<1>11. t[Len(t)] \in Key /\ roots[r] \in Root
  BY <1>1, <1>5, <1>6, <1>7, ElementOf
<1>12. n \in Nat
  BY <1>1, <1>4, <1>11, OwedAtNat
<1>13. Wanted(roots[r]) /\ r < next
  <2>1. r \in Nat /\ r <= Len(roots) /\ Len(roots) \in Nat
    BY <1>1
  <2> QED
    BY <1>1, <1>2, <2>1 DEF Wanted, AllRoots
<1>14. OwedBy(r, path, n)
  BY <1>4, <1>7, <1>8, <1>10 DEF OwedBy, Last
<1>15. Emitted(rows, r, path, n)
  <2>1. DOMAIN stack = {}
    BY <1>1
  <2> QED
    BY <1>10, <1>12, <1>13, <1>14, <2>1 DEF OnceInv, MissesNothing
<1>16. o = [root |-> r, path |-> path, at |-> n]
  BY <1>4, <1>7, <1>9
<1> QED
  BY <1>15, <1>16 DEF Emitted, Place

(* EachRowOnce: in any hives of finitely many keys in which siblings have names
   of their own and no key is below itself, a walk that ends well has emitted
   what the roots ask for and nothing else, each row once.                   *)
THEOREM EveryRowOnce ==
  ASSUME SiblingsApart, NoCycles, IsFiniteSet(Key)
  PROVE  Spec => []EachRowOnce
<1>1. RInv /\ TrailInv /\ OnceInv /\ AllRoots => EachRowOnce
  <2> SUFFICES ASSUME RInv, TrailInv, OnceInv, AllRoots, pc = "done"
               PROVE  /\ {Place(rows[i]) : i \in DOMAIN rows} = Owed
                      /\ Len(rows) = Cardinality(Owed)
    BY DEF EachRowOnce
  <2>1. {Place(rows[i]) : i \in DOMAIN rows} = Owed
    BY EmittedIsOwed, OwedIsEmitted
  <2>2. PICK n \in Nat : n = Len(rows) /\ DOMAIN rows = 1 .. n
    BY DEF RInv, TypeOK
  <2>3. PICK f : f = [i \in 1 .. n |-> Place(rows[i])]
    OBVIOUS
  <2>4. f \in [1 .. n -> Owed]
    BY <2>1, <2>2, <2>3
  <2>5. \A i, j \in 1 .. n : f[i] = f[j] => i = j
    BY <2>2, <2>3 DEF OnceInv, EmitsOnce
  <2>6. \A o \in Owed : \E i \in 1 .. n : f[i] = o
    BY <2>1, <2>2, <2>3
  <2>7. f \in Bijection(1 .. n, Owed)
    BY <2>4, <2>5, <2>6 DEF Bijection, Injection, Surjection, IsInjective
  <2>8. Cardinality(Owed) = n
    BY <2>7, FS_CountingElements DEF ExistsBijection
  <2> QED
    BY <2>1, <2>2, <2>8
<1> QED
  BY <1>1, OnceInvariance, AllRootsInvariance, PTL
=============================================================================
