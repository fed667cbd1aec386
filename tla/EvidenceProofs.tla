--------------------------- MODULE EvidenceProofs ---------------------------
(***************************************************************************)
(* Theorems about what the parsers make of the numbers they read from the  *)
(* evidence, whatever they are: the lengths and offsets of a jump list     *)
(* (JumpList) and the points in time of four formats (Instants).           *)
(***************************************************************************)
EXTENDS JumpList, Instants, WellFoundedInduction, TLAPS

-----------------------------------------------------------------------------
(* JumpList, for every stream.  The invariant adds to the types where the next
   entry is looked for: where the format puts it.                            *)

(* What is known of the offsets. *)
Placed ==
  /\ pc \in {"header", "entry"} => created = << >>
  /\ pc = "header" => entries = << >> /\ reach = 0
  /\ pc = "entry" =>
       /\ off >= Header /\ Length(stream) >= Header
       /\ Len(entries) + 1 \in DOMAIN Written(stream) =>
            off = Written(stream)[Len(entries) + 1]
  /\ \A i \in DOMAIN entries :
       i \in DOMAIN Written(stream) => entries[i].at = Written(stream)[i]

(* The enrichment is reached only by a list that is not short. *)
NotShort ==
  pc \in {"enrich", "done"} =>
    (Declared(stream) > 0 => Len(entries) >= Declared(stream))

JInv == TypeOK /\ NoOverrun /\ Placed /\ NotShort

-----------------------------------------------------------------------------
LEMMA StreamFacts ==
  ASSUME NEW s \in Stream
  PROVE  /\ Length(s) \in Nat /\ Version(s) \in Nat /\ Declared(s) \in Nat
         /\ \A o \in 0 .. Length(s) : Chars(s, o) \in Nat /\ Number(s, o) \in Nat
         /\ Written(s) \in Seq(Nat)
BY StreamAssumption, WrittenAssumption

(* Where the program looks for the path length, and where it finds the entry's
   end when the path fits, is where the format has them.                      *)
LEMMA RoundFacts ==
  ASSUME stream \in Stream, off \in Nat, PathLengthFits
  PROVE  /\ PathLengthAt = off + Fixed(stream)
         /\ PathLengthAt \in 0 .. Length(stream)
         /\ PathChars \in Nat
         /\ NextOff = EntryEnd(stream, off)
         /\ NextOff \in Nat
<1>1. Length(stream) \in Nat
  BY StreamFacts
<1>2. PathLengthAt = off + Fixed(stream)
  BY DEF PathLengthAt, Fixed
<1>3. PathLengthAt \in 0 .. Length(stream)
  BY <1>1 DEF PathLengthAt, PathLengthFits
<1>4. PathChars \in Nat
  BY <1>3, StreamFacts DEF PathChars
<1>5. NextOff = EntryEnd(stream, off)
  BY <1>2, <1>4 DEF NextOff, PathEnd, PathAt, PathChars, EntryEnd, Fixed
<1>6. NextOff \in Nat
  BY <1>3, <1>4 DEF NextOff, PathEnd, PathAt
<1> QED
  BY <1>2, <1>3, <1>4, <1>5, <1>6

(* A candidate name is a LNK stream's, or none is taken. *)
LEMMA CreatedFromType ==
  ASSUME NEW n, NEW links \in [LinkNumber -> {"absent", "damaged", "good"}]
  PROVE  CreatedFrom(n, links) \in LinkNumber \cup {NoLink}
BY DEF CreatedFrom

LEMMA InitJInv == Init => JInv
<1> SUFFICES ASSUME Init
             PROVE  JInv
  OBVIOUS
<1>1. Length(stream) \in Nat
  BY StreamFacts DEF Init
<1> QED
  BY <1>1 DEF Init, JInv, TypeOK, NoOverrun, Placed, NotShort

LEMMA ReadEntryJInv ==
  ASSUME JInv, ReadEntry
  PROVE  JInv'
<1> USE DEF JInv
<1>1. stream \in Stream /\ off \in Nat /\ reach \in Nat /\ stream' = stream
      /\ entries \in Seq([at : Nat, number : Nat]) /\ pc = "entry" /\ pc' = "entry"
  BY DEF TypeOK, ReadEntry
<1>2. Length(stream) \in Nat /\ Written(stream) \in Seq(Nat)
  BY <1>1, StreamFacts
<1>3. /\ NextOff = EntryEnd(stream, off) /\ NextOff \in Nat /\ PathChars \in Nat
      /\ PathLengthAt = off + Fixed(stream)
  BY <1>1, RoundFacts DEF ReadEntry
<1>4. Number(stream, off + 88) \in Nat
  <2>1. off + 88 \in 0 .. Length(stream)
    BY <1>1, <1>2 DEF ReadEntry, PrefixFits
  <2> QED
    BY <2>1, <1>1, StreamFacts
<1> DEFINE e == [at |-> off, number |-> Number(stream, off + 88)]
<1>5. e \in [at : Nat, number : Nat] /\ entries' = Append(entries, e)
  BY <1>1, <1>4 DEF ReadEntry
<1> HIDE DEF e
<1>6. /\ Len(entries) \in Nat /\ Len(entries') = Len(entries) + 1
      /\ DOMAIN entries' = 1 .. Len(entries) + 1
      /\ \A i \in DOMAIN entries : entries'[i] = entries[i]
      /\ entries'[Len(entries) + 1] = e
      /\ entries' \in Seq([at : Nat, number : Nat])
  BY <1>1, <1>5
<1>7. reach' \in Nat /\ reach' <= Length(stream)
  <2>1. PathEnd \in Nat /\ PathEnd <= Length(stream)
    BY <1>1, <1>2, <1>3 DEF ReadEntry, PathFits, PathEnd, PathAt, Fixed
  <2>2. PrefixEnd \in Nat /\ PrefixEnd <= Length(stream)
    BY <1>1, <1>2 DEF ReadEntry, PrefixFits, PrefixEnd
  <2> QED
    BY <1>1, <1>2, <2>1, <2>2 DEF ReadEntry, MaxOf, NoOverrun
<1>8. TypeOK' /\ NoOverrun' /\ NotShort'
  BY <1>1, <1>3, <1>6, <1>7 DEF ReadEntry, TypeOK, NoOverrun, NotShort
<1>9. Placed'
  <2>1. off' = EntryEnd(stream, off)
    BY <1>3 DEF ReadEntry
  <2>2. off' >= Header /\ Length(stream) >= Header
    BY <1>1, <1>2, <1>3 DEF ReadEntry, Placed, NextOff, PathEnd, PathAt, Fixed, Header
  <2>3. ASSUME Len(entries') + 1 \in DOMAIN Written(stream)
        PROVE  off' = Written(stream)[Len(entries') + 1]
    <3>1. Len(entries) + 1 \in DOMAIN Written(stream)
      BY <2>3, <1>2, <1>6
    <3>2. off = Written(stream)[Len(entries) + 1]
      BY <3>1, <1>1 DEF Placed
    <3>3. Written(stream)[Len(entries) + 2] = EntryEnd(stream, Written(stream)[Len(entries) + 1])
      <4>1. Len(entries) + 2 # 1 /\ Len(entries) + 2 - 1 = Len(entries) + 1
            /\ Len(entries) + 2 \in DOMAIN Written(stream)
        BY <1>6, <2>3
      <4>2. \A i \in DOMAIN Written(stream) :
              i # 1 => Written(stream)[i] = EntryEnd(stream, Written(stream)[i - 1])
        BY <1>1, WrittenAssumption
      <4>3. Written(stream)[Len(entries) + 2] =
              EntryEnd(stream, Written(stream)[(Len(entries) + 2) - 1])
        BY <4>1, <4>2, Zenon
      <4> QED
        BY <4>1, <4>3
    <3>4. Len(entries') + 1 = Len(entries) + 2
      BY <1>6
    <3> QED
      BY <3>4, <2>1, <3>2, <3>3
  <2>4. ASSUME NEW i \in DOMAIN entries', i \in DOMAIN Written(stream)
        PROVE  entries'[i].at = Written(stream)[i]
    <3>1. CASE i \in DOMAIN entries
      BY <3>1, <1>6, <2>4 DEF Placed
    <3>2. CASE i = Len(entries) + 1
      <4>1. off = Written(stream)[i]
        BY <3>2, <1>1, <2>4 DEF Placed
      <4>2. entries'[i].at = off
        BY <3>2, <1>6 DEF e
      <4> QED
        BY <4>1, <4>2
    <3>3. DOMAIN entries = 1 .. Len(entries)
      BY <1>1
    <3> QED
      BY <3>1, <3>2, <3>3, <1>6
  <2>5. created' = << >>
    BY <1>1 DEF ReadEntry, Placed
  <2> QED
    BY <1>1, <2>2, <2>3, <2>4, <2>5 DEF Placed
<1> QED
  BY <1>8, <1>9

(* The ways the loop fails: only how far the slices reach changes. *)
LEMMA FailJInv ==
  ASSUME JInv, Fail, reach' \in Nat, reach' <= Length(stream)
  PROVE  JInv'
BY DEF JInv, Fail, TypeOK, NoOverrun, Placed, NotShort

LEMMA NextJInv == JInv /\ [Next]_vars => JInv'
<1> SUFFICES ASSUME JInv, [Next]_vars
             PROVE  JInv'
  OBVIOUS
<1> USE DEF JInv
<1>0. /\ stream \in Stream /\ off \in Nat /\ reach \in Nat
      /\ entries \in Seq([at : Nat, number : Nat])
      /\ Length(stream) \in Nat /\ Declared(stream) \in Nat
      /\ Written(stream) \in Seq(Nat) /\ reach <= Length(stream)
  BY StreamFacts DEF TypeOK, NoOverrun
<1>1. CASE ReadHeader
  <2>1. CASE Length(stream) < Header
    BY <1>0, <1>1, <2>1, FailJInv DEF ReadHeader
  <2>2. CASE ~(Length(stream) < Header)
    <3>1. Length(stream) >= Header
      BY <1>0, <2>2 DEF Header
    <3>2. 1 \in DOMAIN Written(stream) => Written(stream)[1] = Header
      BY <1>0, WrittenAssumption
    <3>3. /\ pc = "header" /\ pc' = "entry" /\ off' = Header /\ reach' = 8
          /\ stream' = stream /\ entries' = entries /\ created' = created
      BY <1>1, <2>2 DEF ReadHeader
    <3>4. entries = << >> /\ created = << >>
      BY <3>3 DEF Placed
    <3>5. TypeOK' /\ NoOverrun' /\ NotShort'
      BY <1>0, <3>1, <3>3 DEF TypeOK, NoOverrun, NotShort, Header
    <3>6. Placed'
      BY <1>0, <3>1, <3>2, <3>3, <3>4 DEF Placed, Header
    <3> QED
      BY <3>5, <3>6
  <2> QED
    BY <2>1, <2>2
<1>2. CASE ReadEntry
  BY <1>2, ReadEntryJInv
<1>3. CASE LengthCut
  <2>1. PrefixEnd \in Nat /\ PrefixEnd <= Length(stream)
    BY <1>0, <1>3 DEF LengthCut, PrefixFits, PrefixEnd
  <2>2. reach' \in Nat /\ reach' <= Length(stream)
    BY <1>0, <1>3, <2>1 DEF LengthCut, MaxOf
  <2> QED
    BY <1>3, <2>2, FailJInv DEF LengthCut
<1>4. CASE PathCut
  <2>1. PrefixEnd \in Nat /\ PrefixEnd <= Length(stream)
    BY <1>0, <1>4 DEF PathCut, PrefixFits, PrefixEnd
  <2>2. PathAt \in Nat /\ PathAt <= Length(stream)
    BY <1>0, <1>4 DEF PathCut, PathLengthFits, PathAt, PathLengthAt
  <2>3. reach' \in Nat /\ reach' <= Length(stream)
    BY <1>0, <1>4, <2>1, <2>2 DEF PathCut, MaxOf
  <2> QED
    BY <1>4, <2>3, FailJInv DEF PathCut
<1>5. CASE EndOfList
  <2>1. CASE Short
    BY <1>0, <1>5, <2>1, FailJInv DEF EndOfList
  <2>2. CASE ~Short
    <3>1. Declared(stream) > 0 => Len(entries) >= Declared(stream)
      BY <1>0, <2>2 DEF Short
    <3> QED
      BY <1>0, <1>5, <2>2, <3>1
      DEF EndOfList, TypeOK, NoOverrun, Placed, NotShort
  <2> QED
    BY <2>1, <2>2
<1>6. CASE Enrich
  <2>1. created' \in Seq(LinkNumber \cup {NoLink}) /\ Len(created') = Len(entries)
    <3>1. DOMAIN entries = 1 .. Len(entries) /\ Len(entries) \in Nat
      BY <1>0
    <3>2. link' \in [LinkNumber -> {"absent", "damaged", "good"}]
      BY <1>6 DEF Enrich
    <3>3. \A i \in DOMAIN entries :
            CreatedFrom(entries[i].number, link') \in LinkNumber \cup {NoLink}
      BY <3>2, CreatedFromType
    <3>4. created' \in [1 .. Len(entries) -> LinkNumber \cup {NoLink}]
      BY <1>6, <3>1, <3>3 DEF Enrich
    <3> QED
      BY <3>1, <3>4
  <2> QED
    BY <1>0, <1>6, <2>1 DEF Enrich, TypeOK, NoOverrun, Placed, NotShort
<1>7. CASE UNCHANGED vars
  BY <1>7 DEF vars, TypeOK, NoOverrun, Placed, NotShort
<1> QED
  BY <1>1, <1>2, <1>3, <1>4, <1>5, <1>6, <1>7 DEF Next

THEOREM Invariance == Spec => []JInv
BY InitJInv, NextJInv, PTL DEF Spec

-----------------------------------------------------------------------------
(* The variables keep their types. *)
THEOREM JumpListTypeCorrect == Spec => []TypeOK
<1>1. JInv => TypeOK
  BY DEF JInv
<1> QED
  BY <1>1, Invariance, PTL

(* No slice the parser takes reaches behind the stream, for any bytes. *)
THEOREM ParserStaysInside == Spec => []NoOverrun
<1>1. JInv => NoOverrun
  BY DEF JInv
<1> QED
  BY <1>1, Invariance, PTL

(* A parse that succeeds has every entry that was written, where it is. *)
THEOREM NoEntryIsLost == Spec => []NoShortList
<1>1. JInv => NoShortList
  <2> SUFFICES ASSUME JInv, pc = "done", Written(stream) # << >>,
                      Declared(stream) = Len(Written(stream))
               PROVE  /\ Len(entries) >= Len(Written(stream))
                      /\ \A i \in DOMAIN Written(stream) :
                           entries[i].at = Written(stream)[i]
    BY DEF NoShortList
  <2>1. Written(stream) \in Seq(Nat) /\ entries \in Seq([at : Nat, number : Nat])
    BY StreamFacts DEF JInv, TypeOK
  <2>2. Len(Written(stream)) \in Nat /\ Len(Written(stream)) > 0
        /\ DOMAIN Written(stream) = 1 .. Len(Written(stream))
        /\ DOMAIN entries = 1 .. Len(entries) /\ Len(entries) \in Nat
    BY <2>1
  <2>3. Len(entries) >= Len(Written(stream))
    BY <2>2 DEF JInv, NotShort
  <2>4. \A i \in DOMAIN Written(stream) : i \in DOMAIN entries
    BY <2>2, <2>3
  <2> QED
    BY <2>3, <2>4 DEF JInv, Placed
<1> QED
  BY <1>1, Invariance, PTL

(* Every round moves on: the check for progress behind it is never true. *)
THEOREM EveryRoundMovesOn == Spec => OffGrows
<1>1. JInv /\ [Next]_vars =>
        [pc = "entry" /\ off' # off => off' > off + 112]_vars
  <2> SUFFICES ASSUME JInv, Next, pc = "entry", off' # off
               PROVE  off' > off + 112
    OBVIOUS
  <2>1. CASE ReadEntry
    <3>1. off \in Nat /\ PathChars \in Nat /\ off' = NextOff
      BY <2>1, RoundFacts DEF JInv, TypeOK, ReadEntry
    <3> QED
      BY <3>1 DEF NextOff, PathEnd, PathAt, PathLengthAt
  <2>2. CASE ReadHeader
    BY <2>2 DEF ReadHeader
  <2>3. CASE LengthCut \/ PathCut \/ EndOfList \/ Enrich
    BY <2>3 DEF LengthCut, PathCut, EndOfList, Enrich, Fail
  <2> QED
    BY <2>1, <2>2, <2>3 DEF Next
<1> QED
  BY <1>1, Invariance, PTL DEF Spec, OffGrows

-----------------------------------------------------------------------------
LEMMA LeastNat ==
  ASSUME NEW S \in SUBSET Nat, S # {}
  PROVE  \E m \in S : \A k \in S : m <= k
<1> DEFINE less == OpToRel(<, Nat)
<1>1. IsWellFoundedOn(less, Nat)
  BY NatLessThanWellFounded
<1>2. less = {p \in Nat \X Nat : p[1] < p[2]}
  BY DEF OpToRel
<1> HIDE DEF less
<1>3. PICK m \in S : \A k \in S : ~ (<<k, m>> \in less)
  BY <1>1, WFMin, Zenon
<1>4. ASSUME NEW k \in S PROVE m <= k
  <2>1. <<k, m>> \notin less
    BY <1>3
  <2> QED
    BY <1>2, <2>1
<1> QED
  BY <1>4

LEMMA EntrySize ==
  ASSUME NEW o \in Nat, NEW fixed \in {112, 128}, NEW c \in Nat \ {0}, NEW tail \in {0, 4},
         NEW e, e = o + fixed + 2 + 2 * c + tail
  PROVE  e \in Nat /\ e >= o + 116 /\ (c >= 3 => e >= o + 120)
OBVIOUS

(* A whole stream: entries lie one behind the other, none behind the last. *)
LEMMA WholeFacts ==
  ASSUME NEW s \in Stream, Whole(s)
  PROVE  /\ Len(Written(s)) \in Nat \ {0} /\ DOMAIN Written(s) = 1 .. Len(Written(s))
         /\ Written(s)[1] = Header /\ Length(s) >= Header
         /\ \A i \in 1 .. Len(Written(s)) :
              LET o == Written(s)[i]
                  chars == Chars(s, o + Fixed(s))
              IN  /\ o \in Nat /\ chars \in Nat \ {0}
                  /\ EntryEnd(s, o) <= Length(s)
                  /\ o + 120 <= Length(s)
                  /\ i = Len(Written(s)) => EntryEnd(s, o) = Length(s)
<1>1. PICK w \in Seq(Nat), n \in Nat \ {0} : w = Written(s) /\ n = Len(w) /\ DOMAIN w = 1 .. n
  BY StreamFacts DEF Whole
<1>2. PICK len \in Nat, fixed \in {112, 128}, tail \in {0, 4} :
        /\ len = Length(s) /\ fixed = Fixed(s) /\ tail = IF Version(s) = 4 THEN 4 ELSE 0
  BY StreamFacts DEF Fixed
<1> DEFINE chars(i) == Chars(s, w[i] + fixed)
<1>3. /\ \A i \in 1 .. n : chars(i) \in Nat \ {0}
      /\ chars(n) >= 3
      /\ len = EntryEnd(s, w[n])
  BY <1>1, <1>2 DEF Whole
<1>4. /\ \A i \in 1 .. n : /\ w[i] \in Nat /\ EntryEnd(s, w[i]) \in Nat
                           /\ EntryEnd(s, w[i]) >= w[i] + 116
      /\ EntryEnd(s, w[n]) >= w[n] + 120
  <2>1. ASSUME NEW i \in 1 .. n
        PROVE  w[i] \in Nat /\ EntryEnd(s, w[i]) = w[i] + fixed + 2 + 2 * chars(i) + tail
    BY <1>1, <1>2 DEF EntryEnd
  <2>2. ASSUME NEW i \in 1 .. n
        PROVE  /\ EntryEnd(s, w[i]) \in Nat /\ EntryEnd(s, w[i]) >= w[i] + 116
               /\ chars(i) >= 3 => EntryEnd(s, w[i]) >= w[i] + 120
    <3>1. chars(i) \in Nat \ {0}
      BY <1>3
    <3> HIDE DEF chars
    <3>2. PICK c \in Nat \ {0}, o \in Nat : c = chars(i) /\ o = w[i]
      BY <2>1, <3>1
    <3>3. EntryEnd(s, w[i]) = o + fixed + 2 + 2 * c + tail
      BY <2>1, <3>2
    <3>4. PICK e : e = EntryEnd(s, w[i])
      OBVIOUS
    <3>5. e = o + fixed + 2 + 2 * c + tail
      BY <3>3, <3>4
    <3>6. e \in Nat /\ e >= o + 116 /\ (c >= 3 => e >= o + 120)
      <4>1. fixed \in {112, 128} /\ tail \in {0, 4} /\ c \in Nat \ {0} /\ o \in Nat
        BY <1>2, <3>2
      <4> QED
        BY <3>5, <4>1, EntrySize
    <3> QED
      BY <3>2, <3>4, <3>6, Zenon
  <2>3. n \in 1 .. n
    OBVIOUS
  <2>4. EntryEnd(s, w[n]) >= w[n] + 120
    BY <1>3, <2>2, <2>3
  <2> QED
    BY <2>1, <2>2, <2>4
<1>5. \A i \in 1 .. n : w[i] = IF i = 1 THEN Header ELSE EntryEnd(s, w[i - 1])
  <2>1. \A i \in DOMAIN Written(s) :
          Written(s)[i] = IF i = 1 THEN Header ELSE EntryEnd(s, Written(s)[i - 1])
    BY WrittenAssumption
  <2> QED
    BY <1>1, <2>1
<1> HIDE DEF chars
<1>6. ASSUME NEW i \in 1 .. n, i # n PROVE w[i + 1] = EntryEnd(s, w[i]) /\ w[i + 1] >= w[i] + 116
  <2>1. i + 1 \in 1 .. n /\ i + 1 # 1 /\ (i + 1) - 1 = i
    BY <1>6
  <2>2. w[i + 1] = EntryEnd(s, w[(i + 1) - 1])
    BY <1>5, <2>1, Zenon
  <2> QED
    BY <1>4, <2>1, <2>2
<1>7. ASSUME NEW i \in 1 .. n PROVE w[i] <= w[n]
  <2> DEFINE bad == {k \in Nat : k < n /\ ~ (w[n - k] <= w[n])}
  <2>1. bad = {}
    <3> SUFFICES ASSUME bad # {} PROVE FALSE
      OBVIOUS
    <3>1. PICK m \in bad : \A k \in bad : m <= k
      <4>1. bad \in SUBSET Nat
        OBVIOUS
      <4> HIDE DEF bad
      <4> QED
        BY <4>1, LeastNat
    <3>2. m \in Nat /\ m < n /\ ~ (w[n - m] <= w[n])
      OBVIOUS
    <3>3. m # 0
      BY <1>4, <3>2
    <3>4. m - 1 \in Nat /\ m - 1 < n /\ m - 1 \notin bad
      <4>1. m - 1 \in Nat /\ m - 1 < n /\ ~ (m <= m - 1)
        BY <3>2, <3>3
      <4> HIDE DEF bad
      <4> QED
        BY <3>1, <4>1
    <3>5. w[n - (m - 1)] <= w[n]
      BY <3>4
    <3>6. n - m \in 1 .. n /\ n - m # n /\ n - (m - 1) = (n - m) + 1
      BY <3>2, <3>3
    <3>7. w[(n - m) + 1] >= w[n - m] + 116
      BY <1>6, <3>6
    <3>8. (n - m) + 1 \in 1 .. n
      BY <3>2, <3>3, <3>6
    <3>9. w[(n - m) + 1] <= w[n]
      BY <3>5, <3>6
    <3>10. w[n - m] \in Nat /\ w[(n - m) + 1] \in Nat /\ w[n] \in Nat
      BY <1>1, <3>6, <3>8
    <3>11. PICK a \in Nat, b \in Nat, c \in Nat : a = w[n - m] /\ b = w[(n - m) + 1] /\ c = w[n]
      BY <3>10, Zenon
    <3>12. b >= a + 116 /\ b <= c /\ ~ (a <= c)
      BY <3>2, <3>7, <3>9, <3>11
    <3> QED
      BY <3>12
  <2>2. n - i \in Nat /\ n - i < n /\ n - (n - i) = i
    OBVIOUS
  <2>3. n - i \notin bad
    BY <2>1
  <2> QED
    BY <2>2, <2>3
<1>8. ASSUME NEW i \in 1 .. n
      PROVE  EntryEnd(s, w[i]) <= len /\ w[i] + 120 <= len /\ (i = n => EntryEnd(s, w[i]) = len)
  <2>1. CASE i = n
    BY <1>3, <1>4, <2>1
  <2>2. CASE i # n
    <3>1. i + 1 \in 1 .. n
      BY <2>2
    <3>2. w[i + 1] <= w[n] /\ w[i + 1] \in Nat /\ w[n] \in Nat
      BY <1>4, <1>7, <3>1
    <3>3. len >= w[n] + 116
      BY <1>3, <1>4
    <3>4. w[i] \in Nat /\ w[i + 1] = EntryEnd(s, w[i]) /\ w[i + 1] >= w[i] + 116
      BY <1>4, <1>6, <2>2
    <3>5. PICK a \in Nat, b \in Nat, c \in Nat : a = w[i] /\ b = w[i + 1] /\ c = w[n]
      BY <3>2, <3>4
    <3>6. b <= c /\ len >= c + 116 /\ b >= a + 116
      BY <3>2, <3>3, <3>4, <3>5
    <3>7. b <= len /\ a + 120 <= len
      BY <3>6
    <3> QED
      BY <2>2, <3>4, <3>5, <3>7
  <2> QED
    BY <2>1, <2>2
<1>9. 1 \in 1 .. n /\ w[1] = Header
  BY <1>5
<1>10. len >= Header
  BY <1>8, <1>9 DEF Header
<1> QED
  BY <1>1, <1>2, <1>3, <1>4, <1>8, <1>9, <1>10 DEF chars

(* In a whole stream the parse is at an entry, or behind the last one. *)
OnTrack ==
  Whole(stream) =>
    /\ pc = "entry" =>
         /\ Len(entries) <= Len(Written(stream))
         /\ Len(entries) = Len(Written(stream)) => off = Length(stream)
    /\ Declared(stream) = Len(Written(stream)) => pc # "failed"

LEMMA NextOnTrack ==
  ASSUME JInv, OnTrack, [Next]_vars
  PROVE  OnTrack'
<1> SUFFICES ASSUME Whole(stream)
             PROVE  OnTrack'
  <2>1. stream' = stream
    BY DEF Next, ReadHeader, ReadEntry, LengthCut, PathCut, EndOfList, Enrich, Fail, vars
  <2> QED
    BY <2>1 DEF OnTrack
<1>1. /\ stream \in Stream /\ off \in Nat /\ entries \in Seq([at : Nat, number : Nat])
      /\ Length(stream) \in Nat
  BY StreamFacts DEF JInv, TypeOK
<1>2. PICK n \in Nat \ {0} : n = Len(Written(stream)) /\ DOMAIN Written(stream) = 1 .. n
  BY <1>1, WholeFacts
<1>3. Len(entries) \in Nat
  BY <1>1
\* Before the last entry is read, the next one fits.
<1>4. ASSUME pc = "entry", Len(entries) < n
      PROVE  /\ PrefixFits /\ PathLengthFits /\ PathFits /\ NextOff <= Length(stream)
             /\ Len(entries) + 1 = n => NextOff = Length(stream)
  <2> DEFINE i == Len(entries) + 1
  <2>1. i \in 1 .. n
    BY <1>3, <1>4
  <2>2. off = Written(stream)[i]
    BY <1>2, <1>4, <2>1 DEF JInv, Placed
  <2>3. /\ Chars(stream, off + Fixed(stream)) \in Nat \ {0}
        /\ EntryEnd(stream, off) <= Length(stream) /\ off + 120 <= Length(stream)
        /\ i = n => EntryEnd(stream, off) = Length(stream)
    BY <1>1, <1>2, <2>1, <2>2, WholeFacts
  <2> HIDE DEF i
  <2>4. PathLengthAt = off + Fixed(stream) /\ PathChars = Chars(stream, off + Fixed(stream))
    BY DEF PathLengthAt, Fixed, PathChars
  <2>5. EntryEnd(stream, off) = NextOff
    BY <1>1, <2>3, <2>4 DEF EntryEnd, NextOff, PathEnd, PathAt, PathLengthAt, Fixed
  <2>6. PathLengthFits /\ PathFits
    BY <1>1, <2>3, <2>4, <2>5 DEF PathLengthFits, PathFits, NextOff, PathEnd, PathAt, PathLengthAt
  <2> QED
    BY <2>3, <2>5, <2>6 DEF PrefixFits, i
\* Behind it, no other does.
<1>5. ASSUME pc = "entry", PrefixFits PROVE Len(entries) < n
  BY <1>1, <1>2, <1>3, <1>5 DEF OnTrack, PrefixFits
<1>6. CASE ReadHeader
  <2>1. Length(stream) >= Header
    BY <1>1, WholeFacts
  <2>2. pc' = "entry" /\ UNCHANGED <<stream, entries>> /\ entries = << >>
    BY <1>1, <1>6, <2>1 DEF ReadHeader, JInv, Placed, Header
  <2> QED
    BY <1>2, <2>2 DEF OnTrack
<1>7. CASE ReadEntry
  <2>1. pc = "entry" /\ pc' = "entry" /\ PrefixFits /\ stream' = stream /\ off' = NextOff
        /\ Len(entries') = Len(entries) + 1
    BY <1>1, <1>7 DEF ReadEntry
  <2> QED
    BY <1>2, <1>3, <1>4, <1>5, <2>1 DEF OnTrack
<1>8. CASE LengthCut \/ PathCut
  BY <1>4, <1>5, <1>8 DEF LengthCut, PathCut
<1>9. CASE EndOfList
  <2>1. Len(entries) = n
    BY <1>2, <1>3, <1>4, <1>9 DEF EndOfList, OnTrack
  <2>2. ASSUME Declared(stream) = n PROVE ~ Short
    BY <2>1, <2>2 DEF Short
  <2> QED
    BY <1>2, <1>9, <2>2 DEF EndOfList, Fail, OnTrack
<1>10. CASE Enrich
  BY <1>10 DEF Enrich, OnTrack
<1>11. CASE UNCHANGED vars
  BY <1>11 DEF vars, OnTrack
<1> QED
  BY <1>6, <1>7, <1>8, <1>9, <1>10, <1>11 DEF Next

(* WholeIsParsed: a whole stream with the right number in its header is parsed
   without an error, for any version and any number of entries.              *)
THEOREM WholeListsAreParsed == Spec => []WholeIsParsed
<1>1. Init => OnTrack
  BY DEF Init, OnTrack
<1>2. OnTrack => WholeIsParsed
  BY DEF OnTrack, WholeIsParsed
<1> QED
  BY <1>1, <1>2, NextOnTrack, Invariance, PTL DEF Spec

-----------------------------------------------------------------------------
(* Instants, for any units, any epoch and any inputs: with the constants of the
   code, every date a parser can read.                                       *)

-----------------------------------------------------------------------------
(* Arithmetic *)

LEMMA Products ==
  ASSUME NEW a \in Nat, NEW b \in Nat
  PROVE  a * b \in Nat /\ (a > 0 /\ b > 0 => a * b > 0)
OBVIOUS

(* A factor keeps the order. *)
LEMMA Cancel ==
  ASSUME NEW b \in Nat \ {0}, NEW q \in Int, NEW p \in Int, b * q < b * p
  PROVE  q < p
<1> SUFFICES ASSUME p <= q PROVE FALSE
  OBVIOUS
<1>1. PICK d \in Nat : q = p + d
  <2>1. q - p \in Nat /\ q = p + (q - p)
    OBVIOUS
  <2> QED
    BY <2>1
<1>2. b * q = b * p + b * d
  BY <1>1
<1>3. b * d \in Nat
  BY <1>1
<1>4. b * p \in Int
  OBVIOUS
<1> QED
  BY <1>2, <1>3, <1>4

LEMMA Division ==
  ASSUME NEW a \in Int, NEW b \in Nat \ {0}
  PROVE  /\ a \div b \in Int /\ a % b \in 0 .. b - 1
         /\ a = b * (a \div b) + (a % b)
OBVIOUS

LEMMA QuotientIs ==
  ASSUME NEW b \in Nat \ {0}, NEW q \in Int, NEW r \in 0 .. b - 1
  PROVE  (b * q + r) \div b = q /\ (b * q + r) % b = r
OBVIOUS

(* A number x of ticks, given as u units of k ticks and less than a unit more,
   all in parts of b to the tick, lies in the unit u.                        *)
LEMMA Floored ==
  ASSUME NEW b \in Nat \ {0}, NEW k \in Nat \ {0}, NEW u \in Int, NEW x \in Int,
         NEW r \in Nat, r < k * b, x * b = u * (k * b) + r
  PROVE  u * k <= x /\ x < (u + 1) * k
<1>1. PICK w \in Int, v \in Int : w = u * k /\ v = (u + 1) * k /\ v = w + k
  <2>1. (u + 1) * k = u * k + k
    OBVIOUS
  <2>2. u * k \in Int /\ (u + 1) * k \in Int
    OBVIOUS
  <2> QED
    BY <2>1, <2>2
<1>2. b * x = b * w + r
  <2>1. u * (k * b) = b * (u * k)
    OBVIOUS
  <2>2. x * b = b * x
    OBVIOUS
  <2> QED
    BY <1>1, <2>1, <2>2
<1>3. b * (w - 1) = b * w - b /\ b * v = b * w + k * b
  BY <1>1
<1>4. b * (w - 1) < b * x /\ b * x < b * v
  <2>1. PICK bw \in Int, kb \in Int, bx \in Int : bw = b * w /\ kb = k * b /\ bx = b * x
    OBVIOUS
  <2> QED
    BY <1>2, <1>3, <2>1
<1>5. w - 1 < x /\ x < v
  BY <1>4, Cancel
<1> QED
  BY <1>1, <1>5

(* Truncated division. *)
LEMMA Truncation ==
  ASSUME NEW a \in Int, NEW b \in Nat \ {0}
  PROVE  /\ Quot(a, b) \in Int /\ Rem(a, b) \in 1 - b .. b - 1
         /\ a = b * Quot(a, b) + Rem(a, b)
         /\ a >= 0 => Quot(a, b) >= 0 /\ Rem(a, b) >= 0
         /\ a < 0 => Quot(a, b) <= 0 /\ Rem(a, b) <= 0
<1>1. CASE a >= 0
  <2>1. /\ a \div b \in Int /\ a % b \in 0 .. b - 1
        /\ a = b * (a \div b) + (a % b)
    BY Division
  <2>2. a \div b >= 0
    <3>1. b * (-1) < b * (a \div b)
      BY <1>1, <2>1
    <3>2. -1 < a \div b
      BY <2>1, <3>1, Cancel
    <3> QED
      BY <2>1, <3>2
  <2>3. Quot(a, b) = a \div b /\ Rem(a, b) = a % b
    BY <1>1, <2>1 DEF Quot, Rem
  <2> QED
    BY <1>1, <2>1, <2>2, <2>3
<1>2. CASE a < 0
  <2>1. PICK c \in Nat : c = - a
    BY <1>2
  <2>2. /\ c \div b \in Int /\ c % b \in 0 .. b - 1
        /\ c = b * (c \div b) + (c % b)
    BY <2>1, Division
  <2>3. c \div b >= 0
    <3>1. b * (-1) < b * (c \div b)
      BY <2>1, <2>2
    <3>2. -1 < c \div b
      BY <2>2, <3>1, Cancel
    <3> QED
      BY <2>2, <3>2
  <2>4. Quot(a, b) = - (c \div b)
    BY <1>2, <2>1 DEF Quot
  <2>5. PICK q \in Int : q = c \div b
    BY <2>2
  <2>6. b * (- q) = - (b * q)
    OBVIOUS
  <2>7. Rem(a, b) = - (c % b)
    BY <2>1, <2>2, <2>4, <2>5, <2>6 DEF Rem
  <2> QED
    BY <1>2, <2>1, <2>2, <2>3, <2>4, <2>5, <2>6, <2>7
<1> QED
  BY <1>1, <1>2

LEMMA NanosType == Nanos \in Nat \ {0} /\ Nanos = Ticks * PerTick
BY UnitAssumption, Products DEF Nanos

(* time.Unix keeps the instant. *)
LEMMA UnixFacts ==
  ASSUME NEW sec \in Int, NEW nsec \in Int
  PROVE  /\ Unix(sec, nsec).sec \in Int /\ Unix(sec, nsec).nsec \in 0 .. Nanos - 1
         /\ Unix(sec, nsec) \in [sec : Int, nsec : Int]
         /\ Nanos * Unix(sec, nsec).sec + Unix(sec, nsec).nsec = Nanos * sec + nsec
<1>1. PICK N \in Nat \ {0} : N = Nanos
  BY NanosType
<1>2. PICK q \in Int, r \in 0 .. N - 1 :
        q = nsec \div N /\ r = nsec % N /\ nsec = N * q + r
  BY Division
<1>3. Unix(sec, nsec) = [sec |-> sec + q, nsec |-> r]
  BY <1>1, <1>2 DEF Unix
<1>4. N * (sec + q) + r = N * sec + (N * q + r)
  OBVIOUS
<1> QED
  BY <1>1, <1>2, <1>3, <1>4

(* A FILETIME's instant, in ticks since 1970 and in nanoseconds. *)
LEMMA FiletimeFacts ==
  ASSUME NEW ft \in Int
  PROVE  /\ FiletimeToTime(ft) \in [sec : Int, nsec : Int]
         /\ FiletimeToTime(ft).nsec \in 0 .. Nanos - 1
         /\ (FiletimeToTime(ft).sec + Gap) * Nanos + FiletimeToTime(ft).nsec = ft * PerTick
<1>1. PICK T \in Nat \ {0}, P \in Nat \ {0}, N \in Nat \ {0}, G \in Nat :
        T = Ticks /\ P = PerTick /\ N = Nanos /\ G = Gap /\ N = T * P
  BY NanosType, UnitAssumption
<1>2. PICK q \in Int, r \in Int : q = Quot(ft, T) /\ r = Rem(ft, T) /\ ft = T * q + r
  <2>1. /\ Quot(ft, T) \in Int /\ Rem(ft, T) \in 1 - T .. T - 1
        /\ ft = T * Quot(ft, T) + Rem(ft, T)
    BY Truncation
  <2>2. Rem(ft, T) \in Int
    BY <2>1
  <2> QED
    BY <2>1, <2>2
<1>3. PICK u \in [sec : Int, nsec : Int] :
        /\ u = Unix(q - G, r * P) /\ u.nsec \in 0 .. N - 1
        /\ N * u.sec + u.nsec = N * (q - G) + r * P
  BY <1>1, UnixFacts
<1>4. FiletimeToTime(ft) = u
  BY <1>1, <1>2, <1>3 DEF FiletimeToTime
<1>5. (u.sec + G) * N + u.nsec = ft * P
  <2>1. (u.sec + G) * N + u.nsec = (N * u.sec + u.nsec) + N * G
    OBVIOUS
  <2>2. N * (q - G) + r * P + N * G = N * q + r * P
    OBVIOUS
  <2>3. (T * q + r) * P = (T * P) * q + r * P
    OBVIOUS
  <2> QED
    BY <1>1, <1>2, <1>3, <2>1, <2>2, <2>3
<1> QED
  BY <1>1, <1>3, <1>4, <1>5

(* A readable moment, once stored, is read as its second. *)
LEMMA StoredFacts ==
  ASSUME NEW m \in Moment \cup {[form |-> NoNumber]}, Readable(m)
  PROVE  Given(m) /\ EpochOf(Stored(m)) = m.sec /\ m.sec \in - Gap .. FiletimeMin
<1>1. m \in Moment /\ m.sec \in Int /\ m.sec \in - Gap .. FiletimeMin /\ m.form # NoNumber
  BY DEF Readable, Moment
<1>2. CASE m.form = "unix"
  BY <1>1, <1>2, UnitAssumption DEF Readable, Stored, Given, EpochOf
<1>3. CASE m.form = "filetime"
  <2>0. PICK T \in Nat \ {0} : T = Ticks
    BY UnitAssumption
  <2>1. PICK q \in Int, r \in 0 .. T - 1 : q = m.sec + Gap /\ r = m.tick
    BY <1>1, <2>0, UnitAssumption DEF Moment
  <2>2. Stored(m) = T * q + r
    BY <1>3, <2>0, <2>1 DEF Stored
  <2>3. Stored(m) > FiletimeMin
    BY <1>3 DEF Readable
  <2>4. Quot(Stored(m), Ticks) = q
    <3>1. Stored(m) >= 0
      BY <2>0, <2>1, <2>2, <2>3, UnitAssumption
    <3> QED
      BY <2>0, <2>1, <2>2, <3>1, QuotientIs DEF Quot
  <2> QED
    BY <1>1, <2>1, <2>2, <2>3, <2>4, UnitAssumption DEF Given, EpochOf
<1> QED
  BY <1>1, <1>2, <1>3 DEF Moment, Form

(* A duration that is not negative is what its hours, minutes and seconds say. *)
LEMMA ClockFacts ==
  ASSUME NEW total \in Nat
  PROVE  LET d == HoursMinutesSeconds(total) IN
         /\ d[1] \in Nat /\ d[2] \in 0 .. Sixty - 1 /\ d[3] \in 0 .. Sixty - 1
         /\ Sixty * (Sixty * d[1] + d[2]) + d[3] = total
<1>1. PICK S \in Nat \ {0} : S = Sixty
  BY UnitAssumption
<1>2. PICK H \in Nat \ {0} : H = S * S
  <2>1. S * S \in Nat /\ S * S > 0
    BY Products
  <2> QED
    BY <2>1
<1>3. PICK h \in Nat, r \in 0 .. H - 1 :
        h = Quot(total, H) /\ r = Rem(total, H) /\ total = H * h + r
  <2>1. /\ Quot(total, H) \in Int /\ Rem(total, H) \in 1 - H .. H - 1
        /\ total = H * Quot(total, H) + Rem(total, H)
        /\ Quot(total, H) >= 0 /\ Rem(total, H) >= 0
    BY Truncation
  <2>2. Quot(total, H) \in Nat /\ Rem(total, H) \in 0 .. H - 1
    BY <2>1
  <2> QED
    BY <2>1, <2>2
<1>4. PICK m \in Nat, s \in 0 .. S - 1 : m = Quot(r, S) /\ s = Rem(r, S) /\ r = S * m + s
  <2>1. /\ Quot(r, S) \in Int /\ Rem(r, S) \in 1 - S .. S - 1
        /\ r = S * Quot(r, S) + Rem(r, S)
        /\ Quot(r, S) >= 0 /\ Rem(r, S) >= 0
    BY Truncation
  <2>2. Quot(r, S) \in Nat /\ Rem(r, S) \in 0 .. S - 1
    BY <2>1
  <2> QED
    BY <2>1, <2>2
<1>5. m \in 0 .. S - 1
  <2>1. S * m \in Int /\ S * m <= r /\ r < S * S
    BY <1>2, <1>3, <1>4
  <2>2. S * m < S * S
    BY <1>2, <2>1
  <2>3. m < S
    BY <2>2, Cancel
  <2> QED
    BY <2>3
<1>6. total = S * (S * h + m) + s
  <2>1. S * (S * h + m) = (S * S) * h + S * m
    OBVIOUS
  <2>2. S * m \in Int /\ H * h \in Int
    OBVIOUS
  <2> QED
    BY <1>2, <1>3, <1>4, <2>1, <2>2
<1>7. Rem(total, S) = s
  <2>1. PICK k \in Int : k = S * h + m
    OBVIOUS
  <2>2. total \div S = k /\ total % S = s
    BY <1>6, <2>1, QuotientIs
  <2>3. total - S * k = s
    BY <1>6, <2>1
  <2> QED
    BY <2>2, <2>3 DEF Rem, Quot
<1>8. HoursMinutesSeconds(total) = <<h, m, s>>
  BY <1>1, <1>2, <1>3, <1>4, <1>7 DEF HoursMinutesSeconds
<1> QED
  BY <1>1, <1>5, <1>6, <1>8

LEMMA WrapFacts ==
  ASSUME NEW n \in 0 .. Half - 1
  PROVE  Wrap(n) = n
<1>0. PICK M \in Nat \ {0} : M = 2 * Half
  BY UnitAssumption
<1>1. PICK w \in 0 .. M - 1 : w = n + Half
  BY <1>0, UnitAssumption
<1>2. w % M = w
  <2>1. M * 0 + w = w
    OBVIOUS
  <2> QED
    BY <2>1, QuotientIs
<1> QED
  BY <1>0, <1>1, <1>2, UnitAssumption DEF Wrap

(* Rounding is to the nearest, and never past a whole. *)
LEMMA RoundedFacts ==
  ASSUME NEW n \in Int
  PROVE  /\ Rounded(n) \in Int
         /\ 2 * (Fine * Rounded(n) - n) <= Fine /\ - Fine <= 2 * (Fine * Rounded(n) - n)
         /\ n >= 0 => Rounded(n) >= 0
         /\ n < 0 => Rounded(n) <= 0
<1>0. PICK F \in Nat \ {0} : F = Fine
  BY UnitAssumption
<1>1. PICK D \in Nat \ {0} : F = Fine /\ D = 2 * F
  BY <1>0
<1>2. PICK a \in Int : a = 2 * n + (IF n < 0 THEN - F ELSE F)
  OBVIOUS
<1>3. Rounded(n) = Quot(a, D)
  BY <1>1, <1>2 DEF Rounded
<1>4. PICK q \in Int, r \in 1 - D .. D - 1 :
        /\ q = Quot(a, D) /\ a = D * q + r
        /\ a >= 0 => q >= 0 /\ r >= 0
        /\ a < 0 => q <= 0 /\ r <= 0
  <2>1. /\ Quot(a, D) \in Int /\ Rem(a, D) \in 1 - D .. D - 1
        /\ a = D * Quot(a, D) + Rem(a, D)
        /\ a >= 0 => Quot(a, D) >= 0 /\ Rem(a, D) >= 0
        /\ a < 0 => Quot(a, D) <= 0 /\ Rem(a, D) <= 0
    BY Truncation
  <2> QED
    BY <2>1
<1>5. PICK p \in Int : p = F * q
  OBVIOUS
<1>6. D * q = 2 * p
  BY <1>1, <1>5
<1> QED
  BY <1>1, <1>2, <1>3, <1>4, <1>5, <1>6

LEMMA SystemTimeFacts ==
  ASSUME NEW v \in Int
  PROVE  LET t == SystemTime(v)
             err == (t.sec * Nanos + t.nsec) * Fine - v
         IN  /\ t \in [sec : Int, nsec : Int] /\ t.nsec \in 0 .. Nanos - 1
             /\ 2 * err <= Fine /\ - Fine <= 2 * err
<1>1. PICK N \in Nat \ {0}, F \in Nat \ {0} : N = Nanos /\ F = Fine
  BY NanosType, UnitAssumption
<1>2. PICK U \in Nat \ {0} : U = N * F
  <2>1. N * F \in Nat /\ N * F > 0
    BY Products
  <2> QED
    BY <2>1
<1>3. PICK q \in Int, f \in 1 - U .. U - 1 :
        q = Quot(v, U) /\ v = U * q + f
  <2>1. /\ Quot(v, U) \in Int /\ Rem(v, U) \in 1 - U .. U - 1
        /\ v = U * Quot(v, U) + Rem(v, U)
    BY Truncation
  <2> QED
    BY <2>1
<1>4. f = v - q * N * F
  <2>1. q * N * F = U * q
    BY <1>2
  <2>2. U * q \in Int
    OBVIOUS
  <2> QED
    BY <1>3, <2>1, <2>2
<1>5. PICK n \in Int : /\ n = Rounded(f)
                       /\ 2 * (F * n - f) <= F /\ - F <= 2 * (F * n - f)
  <2>1. f \in Int
    OBVIOUS
  <2> QED
    BY <1>1, <2>1, RoundedFacts
<1>6. n <= N /\ - N <= n
  <2>1. PICK p \in Int, u \in Int : p = F * n /\ u = F * N /\ u = U
    BY <1>2
  <2>2. F * (2 * n) = 2 * p /\ F * (2 * N + 1) = 2 * u + F
        /\ F * (-2 * N - 1) = -2 * u - F
    BY <2>1
  <2>3. F * (2 * n) < F * (2 * N + 1)
    BY <1>5, <2>1, <2>2
  <2>4. F * (-2 * N - 1) < F * (2 * n)
    BY <1>5, <2>1, <2>2
  <2>5. 2 * n < 2 * N + 1 /\ -2 * N - 1 < 2 * n
    BY <2>3, <2>4, Cancel
  <2> QED
    BY <2>5
<1>7. PICK t \in [sec : Int, nsec : 0 .. N - 1] :
        t = SystemTime(v) /\ t.sec * N + t.nsec = q * N + n
  <2>1. SystemTime(v) = IF n >= N THEN [sec |-> q + 1, nsec |-> n - N]
                        ELSE IF n < 0 THEN [sec |-> q - 1, nsec |-> n + N]
                        ELSE [sec |-> q, nsec |-> n]
    BY <1>1, <1>2, <1>3, <1>4, <1>5 DEF SystemTime
  <2>2. (q + 1) * N + (n - N) = q * N + n /\ (q - 1) * N + (n + N) = q * N + n
    OBVIOUS
  <2>3. CASE n >= N
    <3>1. SystemTime(v) = [sec |-> q + 1, nsec |-> n - N] /\ n - N \in 0 .. N - 1
      BY <1>6, <2>1, <2>3
    <3> QED
      BY <2>2, <3>1
  <2>4. CASE n < 0
    <3>1. SystemTime(v) = [sec |-> q - 1, nsec |-> n + N] /\ n + N \in 0 .. N - 1
      BY <1>6, <2>1, <2>4
    <3> QED
      BY <2>2, <3>1
  <2>5. CASE n \in 0 .. N - 1
    <3>1. SystemTime(v) = [sec |-> q, nsec |-> n]
      BY <2>1, <2>5
    <3> QED
      BY <2>5, <3>1
  <2> QED
    BY <2>3, <2>4, <2>5
<1>8. (t.sec * N + t.nsec) * F - v = F * n - f
  <2>1. (q * N + n) * F = U * q + F * n
    <3>1. (q * N + n) * F = (N * F) * q + F * n
      OBVIOUS
    <3> QED
      BY <1>2, <3>1
  <2>2. U * q \in Int /\ F * n \in Int
    OBVIOUS
  <2> QED
    BY <1>3, <1>7, <2>1, <2>2
<1> QED
  BY <1>1, <1>5, <1>7, <1>8

-----------------------------------------------------------------------------
(* What was given, and what is shown for it. *)
Converted ==
  /\ tool \in Tool /\ input \in Inputs[tool] /\ phase \in {"given", "shown"}
  /\ phase = "given" => shown = NoTime
  /\ phase = "shown" /\ tool = "gorb" => shown = DeletedOn(input)
  /\ phase = "shown" /\ tool = "gojle" => shown = DotnetDate(input)
  /\ phase = "shown" /\ tool = "goevtx" => shown = SystemTime(input)
  /\ phase = "shown" /\ tool = "gowxt" =>
       shown = [start |-> ToEpochSeconds(input.start), end |-> ToEpochSeconds(input.end),
                duration |-> DurationOf(input.start, input.end)]

THEOREM ConversionInvariance == InstantsSpec => []Converted
<1>1. InstantsInit => Converted
  BY DEF InstantsInit, Converted
<1>2. Converted /\ [InstantsNext]_instantsVars => Converted'
  <2> SUFFICES ASSUME Converted, [InstantsNext]_instantsVars PROVE Converted'
    OBVIOUS
  <2>1. CASE Convert
    <3>1. /\ tool' = tool /\ input' = input /\ phase' = "shown" /\ tool \in Tool
          /\ input \in Inputs[tool]
      BY <2>1 DEF Convert, Converted
    <3>2. CASE tool = "gorb"
      BY <2>1, <3>1, <3>2 DEF Convert, Converted
    <3>3. CASE tool = "gojle"
      BY <2>1, <3>1, <3>3 DEF Convert, Converted
    <3>4. CASE tool = "gowxt"
      BY <2>1, <3>1, <3>4 DEF Convert, Converted
    <3>5. CASE tool = "goevtx"
      BY <2>1, <3>1, <3>5 DEF Convert, Converted
    <3> QED
      BY <3>1, <3>2, <3>3, <3>4, <3>5 DEF Tool
  <2>2. CASE UNCHANGED instantsVars
    BY <2>2 DEF Converted, instantsVars
  <2> QED
    BY <2>1, <2>2 DEF InstantsNext
<1> QED
  BY <1>1, <1>2, PTL DEF InstantsSpec

(* gorb and gojle: for every FILETIME, 64 bits or more, what is printed is its
   instant rounded down to the second or to the millisecond.                 *)
THEOREM FiletimesAreFloored == InstantsSpec => []FiletimeIsFloored
<1>1. ASSUME Converted, phase = "shown", tool = "gorb"
      PROVE  LET sec == shown[1] + Gap
             IN  sec * Ticks <= input /\ input < (sec + 1) * Ticks
  <2>1. PICK T \in Nat \ {0}, P \in Nat \ {0}, G \in Nat, ft \in Int :
          T = Ticks /\ P = PerTick /\ G = Gap /\ ft = input
    BY <1>1, UnitAssumption, InputAssumption DEF Converted
  <2>2. PICK s \in Int, n \in 0 .. Nanos - 1 :
          /\ s = FiletimeToTime(ft).sec /\ n = FiletimeToTime(ft).nsec
          /\ (s + G) * Nanos + n = ft * P
    BY <2>1, FiletimeFacts
  <2>3. shown[1] = s
    BY <1>1, <2>1, <2>2 DEF Converted, DeletedOn
  <2>4. n \in Nat /\ n < T * P /\ ft * P = (s + G) * (T * P) + n
    BY <2>1, <2>2, NanosType
  <2>5. s + G \in Int
    OBVIOUS
  <2>6. (s + G) * T <= ft /\ ft < ((s + G) + 1) * T
    BY <2>4, <2>5, Floored
  <2> QED
    BY <2>1, <2>3, <2>6
<1>2. ASSUME Converted, phase = "shown", tool = "gojle", input # 0
      PROVE  LET ms == shown[1] + Gap * Millis
             IN  ms * MilliTicks <= input /\ input < (ms + 1) * MilliTicks
  <2>1. PICK M \in Nat \ {0}, K \in Nat \ {0}, T \in Nat \ {0}, P \in Nat \ {0},
             G \in Nat, ft \in Int :
          /\ M = Millis /\ K = MilliTicks /\ T = Ticks /\ P = PerTick /\ G = Gap
          /\ ft = input /\ T = M * K
    <3>1. input \in Int
      BY <1>2, InputAssumption DEF Converted
    <3> QED
      BY <3>1, UnitAssumption
  <2>2. PICK s \in Int, n \in 0 .. Nanos - 1 :
          /\ s = FiletimeToTime(ft).sec /\ n = FiletimeToTime(ft).nsec
          /\ (s + G) * Nanos + n = ft * P
    BY <2>1, FiletimeFacts
  <2>3. PICK U \in Nat \ {0} : U = K * P
    BY <2>1, Products
  <2>4. PICK q \in Int, d \in 0 .. U - 1 : q = n \div U /\ d = n % U /\ n = U * q + d
    <3>1. n \in Int
      BY <2>2, NanosType
    <3>2. /\ n \div U \in Int /\ n % U \in 0 .. U - 1
          /\ n = U * (n \div U) + (n % U)
      BY <3>1, Division
    <3> QED
      BY <3>2
  <2>5. shown[1] = s * M + q
    BY <1>2, <2>1, <2>2, <2>3, <2>4 DEF Converted, DotnetDate
  <2>6. PICK u \in Int : u = (s + G) * M + q /\ u = (s * M + q) + G * M
    <3>1. (s + G) * M + q = (s * M + q) + G * M
      OBVIOUS
    <3>2. (s + G) * M + q \in Int
      OBVIOUS
    <3> QED
      BY <3>1, <3>2
  <2>7. ft * P = u * (K * P) + d
    <3>1. Nanos = M * U
      <4>1. (M * K) * P = M * (K * P)
        OBVIOUS
      <4> QED
        BY <2>1, <2>3, <4>1, NanosType
    <3>2. (s + G) * (M * U) = ((s + G) * M) * U
      OBVIOUS
    <3>3. ((s + G) * M + q) * U = ((s + G) * M) * U + U * q
      OBVIOUS
    <3>4. ft * P = (s + G) * (M * U) + (U * q + d)
      BY <2>2, <2>4, <3>1
    <3>5. PICK a \in Int, c \in Int : a = ((s + G) * M) * U /\ c = U * q
      OBVIOUS
    <3> QED
      BY <2>3, <2>6, <3>2, <3>3, <3>4, <3>5
  <2>8. d \in Nat /\ d < K * P
    BY <2>3, <2>4
  <2>9. u * K <= ft /\ ft < (u + 1) * K
    BY <2>7, <2>8, Floored
  <2> QED
    BY <2>1, <2>5, <2>6, <2>9
<1>3. Converted => FiletimeIsFloored
  BY <1>1, <1>2 DEF FiletimeIsFloored
<1> QED
  BY <1>3, ConversionInvariance, PTL

LEMMA RowFacts ==
  ASSUME Converted, tool = "gowxt"
  PROVE  /\ input.start \in Moment \cup {[form |-> NoNumber]}
         /\ input.end \in Moment \cup {[form |-> NoNumber]}
BY InputAssumption DEF Converted

LEMMA EpochType ==
  ASSUME NEW m \in Moment \cup {[form |-> NoNumber]}
  PROVE  /\ Given(m) => EpochOf(Stored(m)) \in Int
         /\ ToEpochSeconds(m) \in Seq(Int)
<1>1. ASSUME m \in Moment PROVE EpochOf(Stored(m)) \in Int
  <2>1. Stored(m) \in Int
    <3>1. (m.sec + Gap) * Ticks + m.tick \in Int /\ m.sec \in Int
      BY <1>1, UnitAssumption DEF Moment
    <3> QED
      BY <3>1 DEF Stored
  <2>2. Quot(Stored(m), Ticks) \in Int
    BY <2>1, UnitAssumption, Truncation
  <2> QED
    BY <2>1, <2>2, UnitAssumption DEF EpochOf
<1>2. Given(m) => m \in Moment
  BY DEF Given
<1> QED
  BY <1>1, <1>2 DEF ToEpochSeconds, NoTime

LEMMA DurationType ==
  ASSUME NEW a \in Moment \cup {[form |-> NoNumber]}, NEW b \in Moment \cup {[form |-> NoNumber]}
  PROVE  DurationOf(a, b) \in {NoTime} \cup Int \X (1 - Sixty .. Sixty - 1) \X (1 - Sixty .. Sixty - 1)
<1> SUFFICES ASSUME Given(a), Given(b)
             PROVE  HoursMinutesSeconds(Wrap(EpochOf(Stored(b)) - EpochOf(Stored(a))))
                      \in Int \X (1 - Sixty .. Sixty - 1) \X (1 - Sixty .. Sixty - 1)
  BY DEF DurationOf
<1>1. PICK n \in Int : n = EpochOf(Stored(b)) - EpochOf(Stored(a))
  BY EpochType
<1>2. PICK w \in Int : w = Wrap(n)
  <2>1. 2 * Half \in Nat \ {0} /\ n + Half \in Int
    BY UnitAssumption
  <2>2. (n + Half) % (2 * Half) \in 0 .. 2 * Half - 1
    BY <2>1, Division
  <2>3. PICK v \in Int : v = (n + Half) % (2 * Half)
    BY <2>1, <2>2
  <2>4. Wrap(n) = v - Half
    BY <2>3, Zenon DEF Wrap
  <2>5. v - Half \in Int
    BY UnitAssumption
  <2> QED
    BY <2>4, <2>5
<1>3. PICK S \in Nat \ {0}, H \in Nat \ {0} : S = Sixty /\ H = Sixty * Sixty
  <2>1. Sixty * Sixty \in Nat /\ Sixty * Sixty > 0
    BY UnitAssumption, Products
  <2> QED
    BY <2>1, UnitAssumption
<1>4. Quot(w, H) \in Int /\ Rem(w, H) \in 1 - H .. H - 1 /\ Rem(w, S) \in 1 - S .. S - 1
  BY Truncation
<1>5. PICK r \in Int, h \in Int, s \in 1 - S .. S - 1 : r = Rem(w, H) /\ h = Quot(w, H) /\ s = Rem(w, S)
  BY <1>4
<1>6. Quot(r, S) \in 1 - S .. S - 1
  <2>1. PICK q \in Int, t \in 1 - S .. S - 1 :
          /\ q = Quot(r, S) /\ r = S * q + t
          /\ r >= 0 => t >= 0
          /\ r < 0 => t <= 0
    BY Truncation
  <2>2. PICK p \in Int, u \in Int : p = S * q /\ u = S * S /\ u = H /\ S * (- S) = - u
    BY <1>3
  <2>3. r \in 1 - H .. H - 1
    BY <1>4, <1>5
  <2>4. p < u /\ - u < p
    BY <2>1, <2>2, <2>3
  <2>5. S * q < S * S /\ S * (- S) < S * q
    BY <2>2, <2>4
  <2>6. q < S /\ - S < q
    BY <2>5, Cancel
  <2> QED
    BY <2>1, <2>6
<1>7. HoursMinutesSeconds(w) = <<h, Quot(r, S), s>>
  BY <1>3, <1>5 DEF HoursMinutesSeconds
<1> QED
  BY <1>1, <1>2, <1>3, <1>6, <1>7

(* What is shown has its type, whatever number or row was given. *)
THEOREM ShownTypeCorrect == InstantsSpec => []InstantsTypeOK
<1>1. Converted => InstantsTypeOK
  <2> SUFFICES ASSUME Converted, phase = "shown"
               PROVE  IF tool = "gowxt"
                      THEN shown \in [start : Seq(Int), end : Seq(Int),
                             duration : {NoTime} \cup Int \X (1 - Sixty .. Sixty - 1)
                                                          \X (1 - Sixty .. Sixty - 1)]
                      ELSE IF tool = "goevtx" THEN shown \in [sec : Int, nsec : Int]
                      ELSE shown \in Seq(Int)
    BY DEF Converted, InstantsTypeOK
  <2>1. CASE tool = "gowxt"
    BY <2>1, RowFacts, EpochType, DurationType DEF Converted
  <2>2. CASE tool = "gorb"
    <3>1. input \in Int /\ shown = DeletedOn(input)
      BY <2>2, InputAssumption DEF Converted
    <3>2. PICK s \in Int : s = FiletimeToTime(input).sec
      BY <3>1, FiletimeFacts
    <3>3. shown = <<s>>
      BY <3>1, <3>2 DEF DeletedOn
    <3> QED
      BY <2>2, <3>3
  <2>4. CASE tool = "gojle"
    <3>1. input \in Int /\ shown = DotnetDate(input)
      BY <2>4, InputAssumption DEF Converted
    <3>2. CASE input = 0
      BY <2>4, <3>1, <3>2 DEF DotnetDate, NoTime
    <3>3. CASE input # 0
      <4>1. PICK s \in Int, n \in Nat :
              s = FiletimeToTime(input).sec /\ n = FiletimeToTime(input).nsec
        BY <3>1, FiletimeFacts, NanosType
      <4>2. PICK U \in Nat \ {0} : U = MilliTicks * PerTick
        BY UnitAssumption, Products
      <4>3. n \div U \in Int
        BY Division
      <4>4. s * Millis + n \div U \in Int
        BY <4>3, UnitAssumption
      <4>5. shown = <<s * Millis + n \div U>>
        BY <3>1, <3>3, <4>1, <4>2 DEF DotnetDate
      <4> QED
        BY <2>4, <4>4, <4>5
    <3> QED
      BY <3>2, <3>3
  <2>3. CASE tool = "goevtx"
    BY <2>3, SystemTimeFacts, InputAssumption DEF Converted
  <2> QED
    BY <2>1, <2>2, <2>3, <2>4 DEF Converted, Tool
<1> QED
  BY <1>1, ConversionInvariance, PTL

(* gowxt: an instant reads the same as Unix seconds and as a FILETIME. *)
THEOREM EitherFormReads == InstantsSpec => []EitherFormIsRead
<1>1. Converted => EitherFormIsRead
  <2> SUFFICES ASSUME Converted, phase = "shown", tool = "gowxt"
               PROVE  /\ Readable(input.start) => shown.start = <<input.start.sec>>
                      /\ Readable(input.end) => shown.end = <<input.end.sec>>
    BY DEF EitherFormIsRead
  <2>1. shown.start = ToEpochSeconds(input.start) /\ shown.end = ToEpochSeconds(input.end)
    BY DEF Converted
  <2> QED
    BY <2>1, RowFacts, StoredFacts DEF ToEpochSeconds
<1> QED
  BY <1>1, ConversionInvariance, PTL

(* gowxt: the duration is the time elapsed, whatever forms its two instants
   are stored in; none is shown for an end before its start.                 *)
THEOREM DurationsAreElapsed == InstantsSpec => []DurationIsElapsed
<1>1. Converted => DurationIsElapsed
  <2> SUFFICES ASSUME Converted, phase = "shown", tool = "gowxt",
                      Readable(input.start), Readable(input.end)
               PROVE  IF input.end.sec < input.start.sec THEN shown.duration = NoTime
                      ELSE LET d == shown.duration IN
                           /\ d[1] \in Nat /\ d[2] \in 0 .. Sixty - 1 /\ d[3] \in 0 .. Sixty - 1
                           /\ input.start.sec + Sixty * (Sixty * d[1] + d[2]) + d[3]
                                = input.end.sec
    BY DEF DurationIsElapsed
  <2>1. PICK a \in Int, b \in Int :
          /\ a = input.start.sec /\ b = input.end.sec
          /\ EpochOf(Stored(input.start)) = a /\ EpochOf(Stored(input.end)) = b
          /\ Given(input.start) /\ Given(input.end)
          /\ a >= - Gap /\ b <= FiletimeMin
    BY RowFacts, StoredFacts, UnitAssumption
  <2>2. shown.duration = IF b < a THEN NoTime ELSE HoursMinutesSeconds(Wrap(b - a))
    BY <2>1 DEF Converted, DurationOf
  <2>3. CASE b < a
    BY <2>1, <2>2, <2>3
  <2>4. CASE a <= b
    <3>1. PICK total \in Nat : total = b - a /\ total \in 0 .. Half - 1
      BY <2>1, <2>4, UnitAssumption
    <3>2. PICK d : d = HoursMinutesSeconds(total)
      OBVIOUS
    <3>3. shown.duration = d
      BY <2>2, <2>4, <3>1, <3>2, WrapFacts
    <3>4. /\ d[1] \in Nat /\ d[2] \in 0 .. Sixty - 1 /\ d[3] \in 0 .. Sixty - 1
          /\ Sixty * (Sixty * d[1] + d[2]) + d[3] = total
      BY <3>2, ClockFacts
    <3>5. a + Sixty * (Sixty * d[1] + d[2]) + d[3] = b
      <4>1. PICK S \in Int, h \in Int, m \in Int, s \in Int :
              S = Sixty /\ h = d[1] /\ m = d[2] /\ s = d[3]
        BY <3>4, UnitAssumption
      <4>2. PICK x \in Int : x = S * (S * h + m)
        OBVIOUS
      <4>3. x + s = total
        BY <3>4, <4>1, <4>2
      <4>4. a + x + s = b
        BY <3>1, <4>3
      <4> QED
        BY <4>1, <4>2, <4>4
    <3> QED
      BY <2>1, <2>4, <3>3, <3>4, <3>5, UnitAssumption
  <2> QED
    BY <2>1, <2>3, <2>4, UnitAssumption
<1> QED
  BY <1>1, ConversionInvariance, PTL

(* goevtx: nanoseconds in range and the instant exact to half of one, for any
   float, before 1970 too.                                                   *)
THEOREM EventTimesAreNearest == InstantsSpec => []NanosInRange
<1>1. Converted => NanosInRange
  <2> SUFFICES ASSUME Converted, phase = "shown", tool = "goevtx"
               PROVE  LET err == (shown.sec * Nanos + shown.nsec) * Fine - input
                      IN  /\ shown.nsec \in 0 .. Nanos - 1
                          /\ 2 * err <= Fine /\ - Fine <= 2 * err
    BY DEF NanosInRange
  <2>1. input \in Int
    BY InputAssumption DEF Converted
  <2>2. shown = SystemTime(input)
    BY DEF Converted
  <2> QED
    BY <2>1, <2>2, SystemTimeFacts
<1> QED
  BY <1>1, ConversionInvariance, PTL
=============================================================================
