------------------------------ MODULE JumpList ------------------------------
(***************************************************************************)
(* How gojle reads one AutomaticDestinations file (gojle/main.go): the     *)
(* loop of parseDestList over the entries of the DestList stream, and the  *)
(* search of parseOne for each entry's LNK stream.                         *)
(*                                                                         *)
(* The stream is bytes; what the loop's control depends on are its length, *)
(* the header's two numbers and the path length it finds at an offset.     *)
(* The other fields of an entry are fixed slices, of which only the end is *)
(* kept.  That the path of an entry without one comes from its LNK stream  *)
(* is left out.                                                            *)
(***************************************************************************)
EXTENDS Integers, Sequences

CONSTANTS
  Stream,         \* DestList streams
  Length(_),      \* Length(s): bytes in stream s
  Version(_),     \* Version(s), Declared(s): the header's first two numbers
  Declared(_),
  Chars(_, _),    \* Chars(s, o): the uint16 at offset o of stream s
  Number(_, _),   \* Number(s, o): the uint32 there
  LinkNumber,     \* the numbers LNK streams are named by, in hexadecimal
  Written(_)      \* Written(s): the offsets of the entries that were written
                  \* into s, which the code does not know

ASSUME StreamAssumption ==
  \A s \in Stream :
    /\ Length(s) \in Nat /\ Version(s) \in Nat /\ Declared(s) \in Nat
    /\ \A o \in 0 .. Length(s) : Chars(s, o) \in Nat /\ Number(s, o) \in Nat
ASSUME LinkAssumption == LinkNumber \subseteq Nat

NoLink == -1
Header == 32

(* The format: where an entry at offset o of stream s ends, and that entries are
   written one behind the other.                                             *)
Fixed(s) == IF Version(s) = 1 THEN 112 ELSE 128
EntryEnd(s, o) ==
  o + Fixed(s) + 2 + 2 * Chars(s, o + Fixed(s)) + (IF Version(s) = 4 THEN 4 ELSE 0)
ASSUME WrittenAssumption ==
  \A s \in Stream :
    /\ Written(s) \in Seq(Nat)
    /\ \A i \in DOMAIN Written(s) :
         Written(s)[i] = IF i = 1 THEN Header ELSE EntryEnd(s, Written(s)[i - 1])

VARIABLES
  stream,     \* the DestList stream of the file
  pc,         \* where the program is
  off,        \* offset of the next entry
  entries,    \* the entries parsed: their offsets and numbers
  reach,      \* end of the furthest slice taken so far
  link,       \* link[n]: the LNK stream named n in hexadecimal
  created     \* created[i]: the LNK stream CreatedOn of entry i is from

vars == <<stream, pc, off, entries, reach, link, created>>

MaxOf(a, b) == IF a < b THEN b ELSE a

-----------------------------------------------------------------------------
(* parseDestList *)

Init ==
  /\ stream \in Stream
  /\ pc = "header"
  /\ off = 0 /\ entries = << >> /\ reach = 0
  /\ link = << >> /\ created = << >>

Fail == pc' = "failed" /\ UNCHANGED <<stream, off, entries, link, created>>

ReadHeader ==
  /\ pc = "header"
  /\ IF Length(stream) < Header
     THEN Fail /\ reach' = reach
     ELSE /\ pc' = "entry" /\ off' = Header /\ reach' = 8
          /\ UNCHANGED <<stream, entries, link, created>>

(* Mutant: the loop asks for what versions 3 and 4 need. *)
PrefixFitsAlways == off + 130 <= Length(stream)

(* The condition of the loop, and the slices its body takes first. *)
PrefixFits == off + 120 <= Length(stream)
PrefixEnd == off + (IF Version(stream) >= 3 THEN 120 ELSE 112)

PathLengthAt == off + (IF Version(stream) = 1 THEN 112 ELSE 128)
PathChars == Chars(stream, PathLengthAt)
PathAt == PathLengthAt + 2
PathEnd == PathAt + 2 * PathChars

(* Mutant: the condition of the loop is taken to cover the path length too. *)
PathLengthFitsAlways == TRUE
PathLengthFits == PathLengthAt + 2 <= Length(stream)
PathFits == PathChars > 0 /\ PathEnd <= Length(stream)

NextOff == PathEnd + (IF Version(stream) = 4 THEN 4 ELSE 0)

(* One round of the loop, through its end. *)
ReadEntry ==
  /\ pc = "entry"
  /\ PrefixFits /\ PathLengthFits /\ PathFits
  /\ entries' = Append(entries, [at |-> off, number |-> Number(stream, off + 88)])
  /\ reach' = MaxOf(reach, MaxOf(PrefixEnd, PathEnd))
  /\ off' = NextOff
  /\ UNCHANGED <<stream, pc, link, created>>

(* The path length lies behind the end of the stream. *)
LengthCut ==
  /\ pc = "entry"
  /\ PrefixFits /\ ~PathLengthFits
  /\ reach' = MaxOf(reach, PrefixEnd)
  /\ Fail

(* Mutant: a bad entry is skipped, and met again. *)
PathCutSkipped ==
  /\ pc = "entry"
  /\ PrefixFits /\ PathLengthFits /\ ~PathFits
  /\ reach' = MaxOf(reach, MaxOf(PrefixEnd, PathAt))
  /\ UNCHANGED <<stream, pc, off, entries, link, created>>

(* The path is empty, or lies behind it. *)
PathCut ==
  /\ pc = "entry"
  /\ PrefixFits /\ PathLengthFits /\ ~PathFits
  /\ reach' = MaxOf(reach, MaxOf(PrefixEnd, PathAt))
  /\ Fail

(* Mutant: what the header declares is not compared. *)
ShortNever == FALSE
Short == Declared(stream) > 0 /\ Len(entries) < Declared(stream)

EndOfList ==
  /\ pc = "entry"
  /\ ~PrefixFits
  /\ IF Short
     THEN Fail /\ reach' = reach
     ELSE pc' = "enrich" /\ UNCHANGED <<stream, off, entries, reach, link, created>>

-----------------------------------------------------------------------------
(* parseOne *)

(* A stream's name is a string of digits; it is identified with the number the
   digits spell in base 16.  The name "%x" makes of a number is the number
   itself, and the name "%d" makes of it is this.                            *)
DecimalName[n \in Nat] ==
  IF n < 10 THEN n ELSE 16 * DecimalName[n \div 10] + (n % 10)

(* The loop over the two candidate names: the first one that is there ends it,
   whether the LNK in it can be read or not.                                 *)
CreatedFrom(n, links) ==
  LET Present(name) == name \in DOMAIN links /\ links[name] # "absent"
      taken == IF Present(DecimalName[n]) THEN DecimalName[n] ELSE n
  IN  IF Present(taken) /\ links[taken] = "good" THEN taken ELSE NoLink

(* The enrichment of every entry; only now the LNK streams matter. *)
Enrich ==
  /\ pc = "enrich"
  /\ link' \in [LinkNumber -> {"absent", "damaged", "good"}]
  /\ created' = [i \in DOMAIN entries |-> CreatedFrom(entries[i].number, link')]
  /\ pc' = "done"
  /\ UNCHANGED <<stream, off, entries, reach>>

Next ==
  ReadHeader \/ ReadEntry \/ LengthCut \/ PathCut \/ EndOfList \/ Enrich

Spec == Init /\ [][Next]_vars

(* The program keeps running. *)
FairSpec == Spec /\ WF_vars(Next)

-----------------------------------------------------------------------------
(* Properties *)

TypeOK ==
  /\ stream \in Stream
  /\ pc \in {"header", "entry", "enrich", "done", "failed"}
  /\ off \in Nat /\ reach \in Nat
  /\ entries \in Seq([at : Nat, number : Nat])
  /\ pc = "done" => /\ created \in Seq(LinkNumber \cup {NoLink})
                    /\ Len(created) = Len(entries)

(* No slice reaches behind the end of the stream, whatever its bytes say and
   wherever it was cut: Go would end the whole run with a panic.  The loop's
   own condition does not cover it for versions 3 and 4, nor for any path.   *)
NoOverrun == reach <= Length(stream)

(* Every round moves on by more than an entry's fixed part, so that the check
   "made no forward progress" can never be true.                             *)
OffGrows == [][pc = "entry" /\ off' # off => off' > off + 112]_vars

(* The comment behind the loop: a stream that was cut short is surfaced rather
   than reported as a clean partial parse.  When the header declares the
   entries that were written, a parse that succeeds has all of them, each at
   its place.                                                                *)
NoShortList ==
  pc = "done" /\ Declared(stream) = Len(Written(stream)) /\ Written(stream) # << >> =>
    /\ Len(entries) >= Len(Written(stream))
    /\ \A i \in DOMAIN Written(stream) : entries[i].at = Written(stream)[i]

(* A stream that is whole is parsed, if no path is empty and the last one has
   three characters, the fewest a rooted path can have: a shorter one, in
   version 1, ends before the fixed part the loop asks for.                  *)
Whole(s) ==
  LET n == Len(Written(s))
      CharsOf(i) == Chars(s, Written(s)[i] + Fixed(s))
  IN  /\ Written(s) # << >> /\ Length(s) = EntryEnd(s, Written(s)[n])
      /\ \A i \in 1 .. n : CharsOf(i) \in Nat \ {0}
      /\ CharsOf(n) >= 3
WholeIsParsed == Whole(stream) /\ Declared(stream) = Len(Written(stream)) => pc # "failed"

(* The comment on the enrichment (line 250): the LNK stream is named by the
   entry's number in hexadecimal.  No entry takes its CreatedOn from another's,
   and one whose own stream is sound has it.                                 *)
CreatedIsOwn ==
  pc = "done" =>
    \A i \in DOMAIN entries :
      LET n == entries[i].number IN
      created[i] = IF n \in LinkNumber /\ link[n] = "good" THEN n ELSE NoLink

(* Parsing ends, whatever the bytes. *)
ParseEnds == pc = "header" ~> pc \in {"done", "failed"}
=============================================================================
