-------------------------- MODULE EvtxRunProofs ---------------------------
(***************************************************************************)
(* Proofs about EvtxRun, for any number of logs and any number of items in *)
(* them: type correctness, that the sidecar lacks only a tail of the JSONL *)
(* stream, that this stream has no gap, that exit code 2 delivers the rest *)
(* on a sound disk, and that exit code 0 leaves the sidecar complete and   *)
(* tells of every loss.                                                    *)
(***************************************************************************)
EXTENDS EvtxRun, FiniteSetTheorems, TLAPS

(* The records the walk has come past: those of the logs before the one at
   hand, and the first places of that one.                                  *)
Met(r) == r[1] < at \/ (r[1] = at /\ r[2] <= place)

(* The JSONL stream holds what was met and nothing else; it holds all of it as
   long as no write has failed.                                              *)
JsonIsMet ==
  /\ \A r \in json : r[1] \in readable /\ IsRecord(r) /\ Met(r)
  /\ ~jbroken => \A r \in Record :
                   r[1] \in readable /\ IsRecord(r) /\ Met(r) => r \in json

(* Between two logs of which no write has failed, the last one is at its end. *)
LogsAreWhole ==
  pc = "logs" /\ ~jbroken /\ at \in readable => place = size[at]

(* Exit codes 0 and 2 come behind the last log, 0 without a failed one; the
   sidecar is open while the program runs.                                   *)
Ends ==
  /\ pc = "open" => at = NoLog
  /\ exit # Running <=> pc = "done"
  /\ exit = 0 => failed = {}
  /\ exit \in {0, 2} => at = NumLogs
  /\ exit \in {0, 2} /\ ~jbroken /\ at \in readable => place = size[at]

(* File and buffer of the sidecar, together, are what the JSONL stream is as
   long as no flush has failed; the file alone lacks only a tail of it.      *)
SidecarFollows ==
  /\ xfile \subseteq json /\ xbuf \subseteq json
  /\ \A r \in xfile, q \in json : Before(q, r) => q \in xfile
  /\ ~sidecar => xfile = {} /\ xbuf = {}
  /\ sidecar /\ ~xbroken => json = xfile \cup xbuf

Inv ==
  /\ TypeOK /\ JsonIsMet /\ LogsAreWhole /\ Ends /\ SidecarFollows
  /\ JsonHasNoGap /\ SidecarComplete

-----------------------------------------------------------------------------

LEMMA InitInv == Init => Inv
<1>. SUFFICES ASSUME Init PROVE Inv
  OBVIOUS
<1>1. TypeOK
  <2>1. /\ readable \subseteq Log /\ size \in [Log -> 0 .. MaxItems]
        /\ item \in [Log -> [Place -> Item]] /\ sidecar \in BOOLEAN
        /\ quiet \in BOOLEAN /\ jbroken \in BOOLEAN /\ jfull \in BOOLEAN
        /\ xbroken \in BOOLEAN /\ xfull \in BOOLEAN /\ closed \in BOOLEAN
    BY DEF Init
  <2>2. place \in 0 .. MaxItems /\ pc = "open"
    BY MaxItemsAssumption DEF Init
  <2>3. /\ skipped \in Nat /\ failed = {} /\ parsed = {} /\ dropped \in Nat
        /\ announced \in Nat /\ json = {} /\ xfile = {} /\ xbuf = {}
        /\ exit = Running /\ at = NoLog
    BY DEF Init
  <2>. QED BY <2>1, <2>2, <2>3 DEF TypeOK
<1>2. JsonIsMet
  <2>1. \A r \in Record : r[1] > 0
    BY NumLogsAssumption DEF Record, Log
  <2>. QED BY <2>1 DEF Init, JsonIsMet, Met, NoLog, Record, Log
<1>3. LogsAreWhole /\ Ends
  BY DEF Init, LogsAreWhole, Ends, Running
<1>4. SidecarFollows /\ JsonHasNoGap /\ SidecarComplete
  BY DEF Init, SidecarFollows, JsonHasNoGap, SidecarComplete, Running
<1>. QED BY <1>1, <1>2, <1>3, <1>4 DEF Inv

(* The record at hand is one, and comes behind every record met so far. *)
LEMMA CurrentIsLast ==
  ASSUME TypeOK, pc = "items", place < size[at]
  PROVE  /\ Current \in Record /\ Current[1] = at /\ Current[2] = place + 1
         /\ place + 1 \in Place /\ at \in Log
         /\ \A r \in Record : Met(r) => Before(r, Current) /\ ~Before(Current, r)
<1>1. at \in Log /\ size[at] \in 0 .. MaxItems /\ place \in 0 .. MaxItems
  BY DEF TypeOK
<1>2. place + 1 \in Place /\ at \in Nat
  BY <1>1, NumLogsAssumption, MaxItemsAssumption DEF Place, Log
<1>3. Current \in Record /\ Current[1] = at /\ Current[2] = place + 1
  BY <1>1, <1>2 DEF Current, Record
<1>4. ASSUME NEW r \in Record, Met(r)
      PROVE  Before(r, Current) /\ ~Before(Current, r)
  <2>1. r[1] \in Nat /\ r[2] \in Nat
    BY NumLogsAssumption, MaxItemsAssumption DEF Record, Log, Place
  <2>. QED BY <1>1, <1>2, <1>3, <1>4, <2>1 DEF Before, Met
<1>. QED BY <1>1, <1>2, <1>3, <1>4

(* Two records that are not the same come one before the other. *)
LEMMA Ordered ==
  ASSUME NEW q \in Record, NEW r \in Record
  PROVE  /\ q = r \/ Before(q, r) \/ Before(r, q)
         /\ ~(Before(q, r) /\ Before(r, q))
         /\ q[1] \in Nat /\ q[2] \in Nat /\ ~Before(q, q)
<1>1. /\ q[1] \in Nat /\ q[2] \in Nat /\ r[1] \in Nat /\ r[2] \in Nat
      /\ q = <<q[1], q[2]>> /\ r = <<r[1], r[2]>>
  BY NumLogsAssumption, MaxItemsAssumption DEF Record, Log, Place
<1>. QED BY <1>1 DEF Before

LEMMA BeforeTransitive ==
  ASSUME NEW p \in Record, NEW q \in Record, NEW r \in Record,
         Before(p, q), Before(q, r)
  PROVE  Before(p, r)
<1>1. /\ p[1] \in Nat /\ p[2] \in Nat /\ q[1] \in Nat /\ q[2] \in Nat
      /\ r[1] \in Nat /\ r[2] \in Nat
  BY Ordered
<1>. QED BY <1>1 DEF Before

(* What a step keeps that leaves the walk and the outputs alone. *)
LEMMA OutputsKept ==
  ASSUME Inv, UNCHANGED <<given, at, place, jsonVars, xfile, xbuf, xbroken>>
  PROVE  JsonIsMet' /\ SidecarFollows' /\ JsonHasNoGap'
BY DEF Inv, JsonIsMet, SidecarFollows, JsonHasNoGap, given, jsonVars, Met,
       IsRecord, Before

-----------------------------------------------------------------------------
(* emitXML keeps what the sidecar promises when the record is new in the JSONL
   stream and comes behind all others there.                                 *)
LEMMA EmitXMLFollows ==
  ASSUME TypeOK, SidecarFollows, NEW r \in Record,
         \A q \in json : q \in Record /\ Before(q, r) /\ ~Before(r, q),
         json' = json \cup {r}, sidecar' = sidecar, EmitXML(r)
  PROVE  /\ SidecarFollows'
         /\ xfile' \subseteq Record /\ xbuf' \subseteq Record
         /\ xbroken' \in BOOLEAN
<1>. xfile \subseteq json /\ xbuf \subseteq json /\ xbroken \in BOOLEAN
  BY DEF TypeOK, SidecarFollows
<1>. json \subseteq Record
  OBVIOUS
<1>1. CASE ~sidecar \/ xbroken
  <2>1. xfile' = xfile /\ xbuf' = xbuf /\ xbroken' = xbroken
    BY <1>1 DEF EmitXML
  <2>. QED BY <1>1, <2>1 DEF SidecarFollows
<1>2. CASE sidecar /\ ~xbroken
  <2>. json = xfile \cup xbuf
    BY <1>2 DEF SidecarFollows
  <2>1. CASE xbuf' = xbuf \cup {r} /\ UNCHANGED <<xfile, xbroken>>
    BY <1>2, <2>1 DEF SidecarFollows
  <2>2. CASE \E last \in xbuf \cup {r} :
               LET passed == {q \in xbuf \cup {r} : ~Before(last, q)} IN
               IF xfull
               THEN \E part \in SUBSET passed :
                      /\ \A p \in part, q \in passed : Before(q, p) => q \in part
                      /\ xfile' = xfile \cup part
                      /\ xbuf' = {} /\ xbroken' = TRUE
               ELSE /\ xfile' = xfile \cup passed
                    /\ xbuf' = (xbuf \cup {r}) \ passed
                    /\ xbroken' = xbroken
    <3>1. PICK last \in xbuf \cup {r} :
               LET passed == {q \in xbuf \cup {r} : ~Before(last, q)} IN
               IF xfull
               THEN \E part \in SUBSET passed :
                      /\ \A p \in part, q \in passed : Before(q, p) => q \in part
                      /\ xfile' = xfile \cup part
                      /\ xbuf' = {} /\ xbroken' = TRUE
               ELSE /\ xfile' = xfile \cup passed
                    /\ xbuf' = (xbuf \cup {r}) \ passed
                    /\ xbroken' = xbroken
      BY <2>2
    <3>. DEFINE passed == {q \in xbuf \cup {r} : ~Before(last, q)}
    <3>2. \A p \in passed, q \in xbuf \cup {r} : Before(q, p) => q \in passed
      <4>. SUFFICES ASSUME NEW p \in passed, NEW q \in xbuf \cup {r},
                           Before(q, p), Before(last, q)
                    PROVE  FALSE
        OBVIOUS
      <4>1. p \in Record /\ q \in Record /\ last \in Record
        OBVIOUS
      <4>2. Before(last, p)
        BY <4>1, BeforeTransitive
      <4>. QED BY <4>2
    <3>3. ASSUME NEW part \in SUBSET passed,
                 \A p \in part, q \in passed : Before(q, p) => q \in part
          PROVE  \A s \in xfile \cup part, q \in json \cup {r} :
                   Before(q, s) => q \in xfile \cup part
      <4>. SUFFICES ASSUME NEW s \in xfile \cup part, NEW q \in json \cup {r},
                           Before(q, s), q \notin xfile
                    PROVE  q \in part
        OBVIOUS
      <4>1. q \in xbuf \cup {r}
        OBVIOUS
      <4>2. s \in part
        BY DEF SidecarFollows
      <4>. QED BY <3>2, <3>3, <4>1, <4>2
    <3>. HIDE DEF passed
    <3>4. passed \subseteq xbuf \cup {r}
      BY DEF passed
    <3>5. CASE xfull
      <4>1. PICK part \in SUBSET passed :
                      /\ \A p \in part, q \in passed : Before(q, p) => q \in part
                      /\ xfile' = xfile \cup part
                      /\ xbuf' = {} /\ xbroken' = TRUE
        BY <3>1, <3>5 DEF passed
      <4>. QED BY <1>2, <3>3, <3>4, <4>1 DEF SidecarFollows
    <3>6. CASE ~xfull
      <4>1. /\ xfile' = xfile \cup passed /\ xbuf' = (xbuf \cup {r}) \ passed
            /\ xbroken' = xbroken
        BY <3>1, <3>6 DEF passed
      <4>2. \A s \in xfile \cup passed, q \in json \cup {r} :
                   Before(q, s) => q \in xfile \cup passed
        BY <3>3
      <4>. QED BY <1>2, <3>4, <4>1, <4>2 DEF SidecarFollows
    <3>. QED BY <3>5, <3>6
  <2>. QED BY <1>2, <2>1, <2>2 DEF EmitXML
<1>. QED BY <1>1, <1>2 DEF TypeOK

-----------------------------------------------------------------------------
(* Every step keeps the invariant. *)

-----------------------------------------------------------------------------
(* Every step keeps the invariant. *)

LEMMA OpenOutputsInv == Inv /\ OpenOutputs => Inv'
<1>. SUFFICES ASSUME Inv, OpenOutputs PROVE Inv'
  OBVIOUS
<1>1. TypeOK' /\ LogsAreWhole' /\ Ends' /\ SidecarComplete'
  <2>1. NoLog \notin readable
    BY DEF Inv, TypeOK, Log, NoLog
  <2>. QED BY <2>1 DEF Inv, TypeOK, LogsAreWhole, Ends, SidecarComplete,
              OpenOutputs, given, counts, jsonVars, xmlVars, Running
<1>2. JsonIsMet' /\ SidecarFollows' /\ JsonHasNoGap'
  BY OutputsKept DEF OpenOutputs, xmlVars
<1>. QED BY <1>1, <1>2 DEF Inv

LEMMA NextLogInv == Inv /\ NextLog => Inv'
<1>. SUFFICES ASSUME Inv, NextLog PROVE Inv'
  OBVIOUS
<1>0. at \in Nat /\ at < NumLogs /\ at' = at + 1 /\ place' = 0 /\ pc = "logs"
  BY NumLogsAssumption DEF Inv, TypeOK, NextLog, Log, NoLog
<1>1. TypeOK'
  <2>1. at' \in Log
    BY <1>0, NumLogsAssumption DEF Log
  <2>2. 0 \in 0 .. MaxItems /\ \A l \in Log : 0 <= size[l]
    BY MaxItemsAssumption DEF Inv, TypeOK
  <2>. QED BY <2>1, <2>2 DEF Inv, TypeOK, NextLog, given, jsonVars, xmlVars
<1>2. LogsAreWhole' /\ Ends' /\ SidecarComplete'
  BY <1>0 DEF Inv, NextLog, LogsAreWhole, Ends, SidecarComplete, Running,
              given, jsonVars, xmlVars, NoLog
<1>3. JsonIsMet'
  <2>1. ASSUME NEW r \in Record
        PROVE  /\ Met(r) => Met(r)'
               /\ Met(r)' /\ r[1] # at => Met(r)
               /\ Met(r)' /\ r[1] = at /\ at \in readable /\ ~jbroken
                    /\ IsRecord(r) => Met(r)
    <3>1. r[1] \in Nat \ {0} /\ r[2] \in Nat \ {0}
      BY NumLogsAssumption, MaxItemsAssumption DEF Record, Log, Place
    <3>2. ~jbroken /\ at \in readable => place = size[at]
      BY <1>0 DEF Inv, LogsAreWhole
    <3>. QED BY <1>0, <3>1, <3>2 DEF Met, IsRecord
  <2>2. readable' = readable /\ size' = size /\ item' = item /\ json' = json
        /\ jbroken' = jbroken
    BY DEF NextLog, given, jsonVars
  <2>3. json \subseteq Record
    BY DEF Inv, TypeOK
  <2>. QED BY <2>1, <2>2, <2>3 DEF Inv, JsonIsMet, IsRecord
<1>4. SidecarFollows' /\ JsonHasNoGap'
  BY DEF Inv, NextLog, SidecarFollows, JsonHasNoGap, given, jsonVars, xmlVars,
         IsRecord, Before
<1>. QED BY <1>1, <1>2, <1>3, <1>4 DEF Inv

(* One more place is met: what Met says of the records of the walk. *)
LEMMA MetNext ==
  ASSUME TypeOK, pc = "items", place < size[at], at' = at, place' = place + 1,
         NEW r \in Record
  PROVE  Met(r)' <=> Met(r) \/ r = Current
<1>1. r = <<r[1], r[2]>> /\ r[1] \in Nat /\ r[2] \in Nat
  BY Ordered DEF Record
<1>2. at \in Nat /\ place \in Nat
  BY NumLogsAssumption, MaxItemsAssumption DEF TypeOK, Log, NoLog
<1>. QED BY <1>1, <1>2 DEF Met, Current

LEMMA DropInv == Inv /\ Drop => Inv'
<1>. SUFFICES ASSUME Inv, Drop PROVE Inv'
  OBVIOUS
<1>0. TypeOK /\ pc = "items" /\ place < size[at] /\ at' = at
      /\ place' = place + 1 /\ ~IsRecord(Current)
  BY DEF Inv, Drop
<1>1. TypeOK'
  <2>1. place' \in 0 .. MaxItems /\ place' <= size[at]
    BY <1>0, MaxItemsAssumption DEF TypeOK
  <2>2. skipped' \in Nat
    BY <1>0 DEF TypeOK, Drop
  <2>. QED BY <1>0, <2>1, <2>2
           DEF TypeOK, Drop, given, counts, jsonVars, xmlVars
<1>2. LogsAreWhole' /\ Ends' /\ SidecarComplete'
  BY <1>0 DEF Inv, Drop, LogsAreWhole, Ends, SidecarComplete, Running,
              given, counts, jsonVars, xmlVars
<1>3. JsonIsMet'
  <2>1. readable' = readable /\ size' = size /\ item' = item /\ json' = json
        /\ jbroken' = jbroken
    BY DEF Drop, given, jsonVars
  <2>2. json \subseteq Record
    BY <1>0 DEF TypeOK
  <2>. QED BY <1>0, <2>1, <2>2, MetNext DEF Inv, JsonIsMet, IsRecord
<1>4. SidecarFollows' /\ JsonHasNoGap'
  BY DEF Inv, Drop, SidecarFollows, JsonHasNoGap, given, jsonVars, xmlVars,
         IsRecord, Before
<1>. QED BY <1>1, <1>2, <1>3, <1>4 DEF Inv

LEMMA EmitInv == Inv /\ Emit => Inv'
<1>. SUFFICES ASSUME Inv, Emit PROVE Inv'
  OBVIOUS
<1>0. TypeOK /\ pc = "items" /\ place < size[at] /\ at' = at
      /\ place' = place + 1 /\ IsRecord(Current) /\ json' = json \cup {Current}
      /\ ~jbroken /\ jbroken' = jbroken
  BY DEF Inv, Emit
<1>1. /\ Current \in Record /\ Current[1] = at /\ at \in readable
      /\ \A r \in Record : Met(r) => Before(r, Current) /\ ~Before(Current, r)
  BY <1>0, CurrentIsLast DEF TypeOK
<1>2. /\ readable' = readable /\ size' = size /\ item' = item
      /\ sidecar' = sidecar /\ EmitXML(Current) /\ closed' = closed
  BY DEF Emit, given
<1>3. \A q \in json : q \in Record /\ Before(q, Current) /\ ~Before(Current, q)
  BY <1>0, <1>1 DEF Inv, JsonIsMet, TypeOK
<1>4. /\ SidecarFollows' /\ xfile' \subseteq Record /\ xbuf' \subseteq Record
      /\ xbroken' \in BOOLEAN
  BY <1>0, <1>1, <1>2, <1>3, EmitXMLFollows DEF Inv
<1>5. TypeOK'
  <2>1. place' \in 0 .. MaxItems /\ place' <= size[at]
    BY <1>0, MaxItemsAssumption DEF TypeOK
  <2>2. json' \subseteq Record
    BY <1>0, <1>1 DEF TypeOK
  <2>3. UNCHANGED <<given, pc, at, skipped, counts, announced, exit, jbroken,
                    jfull, xfull, closed>>
    BY DEF Emit
  <2>. QED BY <1>0, <1>4, <2>1, <2>2, <2>3 DEF TypeOK, given, counts
<1>6. LogsAreWhole' /\ Ends' /\ SidecarComplete'
  BY <1>0 DEF Inv, Emit, LogsAreWhole, Ends, SidecarComplete, Running, given,
              counts
<1>7. JsonIsMet'
  <2>1. json \subseteq Record
    BY <1>0 DEF TypeOK
  <2>. QED BY <1>0, <1>1, <1>2, <2>1, MetNext DEF Inv, JsonIsMet, IsRecord
<1>8. JsonHasNoGap'
  <2>1. ASSUME NEW q \in Record, q[1] \in readable, IsRecord(q),
               Before(q, Current)
        PROVE  q \in json
    <3>1. q[1] \in Nat /\ q[2] \in Nat /\ at \in Nat /\ place \in Nat
      BY <1>0, <1>1, NumLogsAssumption, MaxItemsAssumption, Ordered
      DEF TypeOK, Log
    <3>2. Current[2] = place + 1
      BY <1>0, CurrentIsLast
    <3>3. Met(q)
      BY <1>1, <2>1, <3>1, <3>2 DEF Met, Before
    <3>. QED BY <1>0, <2>1, <3>3 DEF Inv, JsonIsMet
  <2>. QED BY <1>0, <1>2, <2>1 DEF Inv, JsonHasNoGap, IsRecord, Before
<1>. QED BY <1>4, <1>5, <1>6, <1>7, <1>8 DEF Inv

LEMMA EmitFailsInv == Inv /\ EmitFails => Inv'
<1>. SUFFICES ASSUME Inv, EmitFails PROVE Inv'
  OBVIOUS
<1>1. TypeOK'
  <2>1. at \in Log
    BY DEF Inv, TypeOK, EmitFails
  <2>. QED BY <2>1 DEF Inv, TypeOK, EmitFails, given, xmlVars
<1>2. LogsAreWhole' /\ Ends' /\ SidecarComplete'
  BY DEF Inv, EmitFails, LogsAreWhole, Ends, SidecarComplete, Running, xmlVars
<1>3. JsonIsMet' /\ SidecarFollows' /\ JsonHasNoGap'
  BY DEF Inv, EmitFails, JsonIsMet, SidecarFollows, JsonHasNoGap, given,
         xmlVars, Met, IsRecord, Before
<1>. QED BY <1>1, <1>2, <1>3 DEF Inv

LEMMA EndLogInv == Inv /\ EndLog => Inv'
<1>. SUFFICES ASSUME Inv, EndLog PROVE Inv'
  OBVIOUS
<1>1. TypeOK'
  <2>1. at \in readable /\ dropped + skipped \in Nat
    BY DEF Inv, TypeOK, EndLog
  <2>. QED BY <2>1 DEF Inv, TypeOK, EndLog, given, jsonVars, xmlVars
<1>2. LogsAreWhole' /\ Ends' /\ SidecarComplete'
  BY DEF Inv, EndLog, LogsAreWhole, Ends, SidecarComplete, Running, given,
         jsonVars, xmlVars
<1>3. JsonIsMet' /\ SidecarFollows' /\ JsonHasNoGap'
  BY OutputsKept DEF EndLog, xmlVars
<1>. QED BY <1>1, <1>2, <1>3 DEF Inv

LEMMA FinishFailedInv == Inv /\ FinishFailed => Inv'
<1>. SUFFICES ASSUME Inv, FinishFailed PROVE Inv'
  OBVIOUS
<1>1. TypeOK'
  <2>1. announced' \in Nat
    BY DEF Inv, TypeOK, FinishFailed, Summary
  <2>. QED BY <2>1 DEF Inv, TypeOK, FinishFailed, given, counts, jsonVars, xmlVars
<1>2. LogsAreWhole' /\ Ends' /\ SidecarComplete'
  BY DEF Inv, FinishFailed, LogsAreWhole, Ends, SidecarComplete, Running, given,
         counts, jsonVars, xmlVars
<1>3. JsonIsMet' /\ SidecarFollows' /\ JsonHasNoGap'
  BY OutputsKept DEF FinishFailed, xmlVars
<1>. QED BY <1>1, <1>2, <1>3 DEF Inv

LEMMA FinishInv == Inv /\ Finish => Inv'
<1>. SUFFICES ASSUME Inv, Finish PROVE Inv'
  OBVIOUS
<1>0. UNCHANGED <<given, at, place, skipped, counts, jsonVars, jfull, xfull>>
      /\ pc' = "done" /\ exit' = 0 /\ pc = "logs" /\ at = NumLogs /\ failed = {}
  BY DEF Finish
<1>1. \/ /\ sidecar /\ ~xbroken /\ xfile' = xfile \cup xbuf /\ xbuf' = {}
         /\ closed' = TRUE /\ xbroken' = xbroken
      \/ /\ sidecar /\ ~xbroken /\ xbuf' = {} /\ xbroken' = TRUE
         /\ closed' = closed
         /\ \E part \in SUBSET xbuf :
              /\ \A p \in part, q \in xbuf : Before(q, p) => q \in part
              /\ xfile' = xfile \cup part
      \/ (~sidecar \/ xbroken) /\ UNCHANGED xmlVars
  BY DEF Finish
<1>2. TypeOK'
  <2>1. announced' \in Nat
    BY DEF Inv, TypeOK, Finish, Summary
  <2>2. xfile' \subseteq Record /\ xbuf' \subseteq Record
    BY <1>1 DEF Inv, TypeOK, xmlVars
  <2>3. xbroken' \in BOOLEAN /\ closed' \in BOOLEAN
    BY <1>1 DEF Inv, TypeOK, xmlVars
  <2>. QED BY <1>0, <2>1, <2>2, <2>3
           DEF Inv, TypeOK, given, counts, jsonVars
<1>3. LogsAreWhole' /\ Ends'
  BY <1>0 DEF Inv, LogsAreWhole, Ends, Running, given, counts, jsonVars
<1>4. JsonIsMet' /\ JsonHasNoGap'
  BY <1>0 DEF Inv, JsonIsMet, JsonHasNoGap, given, jsonVars, Met, IsRecord,
              Before
<1>5. SidecarFollows' /\ SidecarComplete'
  <2>1. json' = json /\ sidecar' = sidecar
    BY <1>0 DEF given, jsonVars
  <2>2. CASE sidecar /\ ~xbroken /\ xfile' = xfile \cup xbuf /\ xbuf' = {}
             /\ closed' = TRUE /\ xbroken' = xbroken
    BY <2>1, <2>2 DEF Inv, SidecarFollows, SidecarComplete
  <2>3. CASE /\ sidecar /\ ~xbroken /\ xbuf' = {} /\ xbroken' = TRUE
             /\ \E part \in SUBSET xbuf :
                  /\ \A p \in part, q \in xbuf : Before(q, p) => q \in part
                  /\ xfile' = xfile \cup part
    BY <2>1, <2>3 DEF Inv, SidecarFollows, SidecarComplete
  <2>4. CASE (~sidecar \/ xbroken) /\ UNCHANGED xmlVars
    BY <2>1, <2>4 DEF Inv, SidecarFollows, SidecarComplete, xmlVars
  <2>. QED BY <1>1, <2>2, <2>3, <2>4
<1>. QED BY <1>2, <1>3, <1>4, <1>5 DEF Inv

LEMMA EnvironmentInv == Inv /\ (DiskChanges \/ Kill) => Inv'
<1>1. ASSUME Inv, DiskChanges PROVE Inv'
  <2>1. TypeOK'
    <3>1. jfull' \in BOOLEAN /\ xfull' \in BOOLEAN
      BY <1>1 DEF Inv, TypeOK, DiskChanges
    <3>. QED BY <1>1, <3>1
             DEF Inv, TypeOK, DiskChanges, given, counts, jsonVars, xmlVars
  <2>2. LogsAreWhole' /\ Ends' /\ SidecarComplete'
    BY <1>1 DEF Inv, DiskChanges, LogsAreWhole, Ends, SidecarComplete, given,
                counts, jsonVars, xmlVars
  <2>3. JsonIsMet' /\ SidecarFollows' /\ JsonHasNoGap'
    BY <1>1, OutputsKept DEF DiskChanges, xmlVars
  <2>. QED BY <2>1, <2>2, <2>3 DEF Inv
<1>2. ASSUME Inv, Kill PROVE Inv'
  <2>1. TypeOK' /\ LogsAreWhole' /\ Ends' /\ SidecarComplete'
    BY <1>2 DEF Inv, TypeOK, Kill, LogsAreWhole, Ends, SidecarComplete, given,
                counts, jsonVars, xmlVars, Running, Killed
  <2>2. JsonIsMet' /\ SidecarFollows' /\ JsonHasNoGap'
    BY <1>2, OutputsKept DEF Kill, xmlVars
  <2>. QED BY <2>1, <2>2 DEF Inv
<1>. QED BY <1>1, <1>2

THEOREM Invariance == Spec => []Inv
<1>1. Init => Inv
  BY InitInv
<1>2. Inv /\ [Next]_vars => Inv'
  <2>. SUFFICES ASSUME Inv, [Next]_vars PROVE Inv'
    OBVIOUS
  <2>1. CASE UNCHANGED vars
    <3>1. TypeOK' /\ LogsAreWhole' /\ Ends' /\ SidecarComplete'
      BY <2>1 DEF Inv, TypeOK, LogsAreWhole, Ends, SidecarComplete, vars
    <3>2. JsonIsMet' /\ SidecarFollows' /\ JsonHasNoGap'
      BY <2>1, OutputsKept DEF vars, given, jsonVars
    <3>. QED BY <3>1, <3>2 DEF Inv
  <2>. QED BY <2>1, OpenOutputsInv, NextLogInv, DropInv, EmitInv, EmitFailsInv,
           EndLogInv, FinishFailedInv, FinishInv, EnvironmentInv
           DEF Next, Program
<1>. QED BY <1>1, <1>2, PTL DEF Spec

-----------------------------------------------------------------------------

(* Every variable keeps its type. *)
THEOREM EvtxTypeCorrect == Spec => []TypeOK
BY Invariance, PTL DEF Inv

(* The sidecar lacks only a tail of what the JSONL stream has, however the run
   ends: by its end, a kill, a full disk or os.Exit.                         *)
THEOREM SidecarLacksOnlyATail == Spec => []SidecarIsPrefix
<1>1. Inv => SidecarIsPrefix
  BY DEF Inv, SidecarFollows, SidecarIsPrefix
<1>. QED BY <1>1, Invariance, PTL

(* The JSONL stream has no gap, for any logs and any failures. *)
THEOREM JsonStreamHasNoGap == Spec => []JsonHasNoGap
BY Invariance, PTL DEF Inv

(* On a disk that takes every write, exit codes 0 and 2 mean that every log
   that can be read has been emitted in full.                                *)
THEOREM TheRestIsEmitted == Spec => []RestIsEmitted
<1>1. Inv => RestIsEmitted
  <2>. SUFFICES ASSUME Inv, exit \in {0, 2}, ~jbroken,
                       NEW r \in Record, r[1] \in readable, IsRecord(r)
                PROVE  r \in json
    BY DEF RestIsEmitted
  <2>1. at = NumLogs /\ (at \in readable => place = size[at])
    BY DEF Inv, Ends
  <2>2. r[1] \in 1 .. NumLogs
    BY DEF Record, Log
  <2>3. Met(r)
    BY <2>1, <2>2, NumLogsAssumption DEF Met, IsRecord
  <2>. QED BY <2>3 DEF Inv, JsonIsMet
<1>. QED BY <1>1, Invariance, PTL

(* Exit code 0 leaves a sidecar that is closed and complete, unless a write to
   it failed.                                                                *)
THEOREM ZeroClosesSidecar == Spec => []SidecarComplete
BY Invariance, PTL DEF Inv

-----------------------------------------------------------------------------
(* What was met and dropped, and, as long as no log has failed, how the counters
   stand to it.                                                              *)
Dropped == {r \in Record : Met(r) /\ r[2] <= size[r[1]] /\ ~IsRecord(r)}
LossInv ==
  /\ failed = {} => ~jbroken /\ \A l \in 1 .. at : l \in readable
  /\ failed = {} /\ pc = "items" => dropped + skipped = Cardinality(Dropped)
  /\ failed = {} /\ pc \in {"open", "logs"} => dropped = Cardinality(Dropped)
  /\ LossIsReported

(* What was dropped can be counted. *)
LEMMA DroppedIsFinite == IsFiniteSet(Dropped) /\ Cardinality(Dropped) \in Nat
<1>1. IsFiniteSet(Log) /\ IsFiniteSet(Place)
  BY NumLogsAssumption, MaxItemsAssumption, FS_Interval DEF Log, Place
<1>2. IsFiniteSet(Record)
  BY <1>1, FS_Product DEF Record
<1>3. Dropped \in SUBSET Record
  BY DEF Dropped
<1>4. IsFiniteSet(Dropped)
  BY <1>2, <1>3, FS_Subset
<1>. QED BY <1>4, FS_CardinalityType

LEMMA InitLoss == Init => LossInv
<1>. SUFFICES ASSUME Init PROVE LossInv
  OBVIOUS
<1>1. at = 0 /\ place = 0 /\ dropped = 0 /\ ~jbroken /\ exit = Running /\ pc = "open"
  BY DEF Init, NoLog
<1>2. \A r \in Record : r[1] > 0
  BY NumLogsAssumption DEF Record, Log
<1>3. Dropped = {}
  BY <1>1, <1>2 DEF Dropped, Met, Record, Log
<1>4. Cardinality(Dropped) = 0
  BY <1>3, FS_EmptySet
<1>. QED BY <1>1, <1>4 DEF LossInv, LossIsReported, Running

(* The next log begins where the last one ended: nothing is dropped yet. *)
LEMMA NextLogLoss ==
  ASSUME Inv, LossInv, NextLog PROVE LossInv'
<1>1. /\ pc = "logs" /\ at' = at + 1 /\ place' = 0 /\ skipped' = 0
      /\ UNCHANGED <<size, item, readable, jbroken, dropped, exit>>
      /\ pc' \in {"logs", "items"} /\ at \in Nat /\ at' \in Log
      /\ IF at' \in readable THEN pc' = "items" /\ failed' = failed
         ELSE failed' = failed \cup {at'}
  BY NumLogsAssumption DEF NextLog, given, jsonVars, Inv, TypeOK, Log, NoLog
<1>2. LossIsReported'
  BY <1>1, NumLogsAssumption DEF NextLog, LossIsReported, Inv, Ends, Running
<1>3. ASSUME failed' = {}
      PROVE  ~jbroken' /\ (\A l \in 1 .. at' : l \in readable')
             /\ pc' = "items" /\ dropped' + skipped' = Cardinality(Dropped')
  <2>1. failed = {} /\ at' \in readable /\ pc' = "items" /\ ~jbroken
    BY <1>1, <1>3 DEF LossInv
  <2>2. \A l \in 1 .. at : l \in readable
    BY <2>1 DEF LossInv
  <2>3. at > 0 => place = size[at]
    BY <1>1, <2>1, <2>2 DEF Inv, LogsAreWhole
  <2>4. ASSUME NEW r \in Record, r[2] <= size[r[1]]
        PROVE  Met(r)' <=> Met(r)
    <3>1. r[1] \in Nat /\ r[1] > 0 /\ r[2] \in Nat /\ r[2] > 0 /\ size[r[1]] \in Nat
      BY NumLogsAssumption, MaxItemsAssumption DEF Record, Log, Place, Inv, TypeOK
    <3>2. Met(r)' <=> r[1] <= at
      BY <1>1, <3>1 DEF Met
    <3>3. Met(r) <=> r[1] <= at
      BY <1>1, <2>3, <2>4, <3>1 DEF Met
    <3>. QED BY <3>2, <3>3
  <2>5. Dropped' = Dropped
    BY <1>1, <2>4 DEF Dropped, IsRecord
  <2>6. dropped = Cardinality(Dropped) /\ dropped \in Nat
    BY <1>1, <2>1 DEF LossInv, Inv, TypeOK
  <2>. QED BY <1>1, <2>1, <2>2, <2>5, <2>6
<1>. QED BY <1>1, <1>2, <1>3 DEF LossInv

(* An item that is dropped is counted, once. *)
LEMMA DropLoss ==
  ASSUME Inv, LossInv, Drop PROVE LossInv'
<1>1. /\ pc = "items" /\ pc' = "items" /\ place < size[at] /\ ~IsRecord(Current)
      /\ place' = place + 1 /\ skipped' = skipped + 1
      /\ UNCHANGED <<at, size, item, readable, jbroken, failed, dropped, exit>>
  BY DEF Drop, given, counts, jsonVars
<1>2. /\ Current \in Record /\ Current[1] = at /\ Current[2] = place + 1
      /\ \A r \in Record : Met(r) => Before(r, Current) /\ ~Before(Current, r)
  BY <1>1, CurrentIsLast DEF Inv
<1>3. place \in Nat /\ at \in Nat /\ size[at] \in Nat
  BY <1>1, NumLogsAssumption, MaxItemsAssumption DEF Inv, TypeOK, Log
<1>4. ~Met(Current)
  BY <1>2, <1>3 DEF Met
<1>5. \A r \in Record : Met(r)' <=> Met(r) \/ r = Current
  <2>. TAKE r \in Record
  <2>1. r[1] \in Nat /\ r[2] \in Nat /\ r = <<r[1], r[2]>>
    BY NumLogsAssumption, MaxItemsAssumption DEF Record, Log, Place
  <2>2. r[2] <= place + 1 <=> r[2] <= place \/ r[2] = place + 1
    BY <1>3, <2>1
  <2>. QED BY <1>1, <2>1, <2>2 DEF Met, Current
<1>6. Dropped' = Dropped \cup {Current}
  BY <1>1, <1>2, <1>3, <1>5 DEF Dropped, IsRecord
<1>7. Current \notin Dropped
  BY <1>4 DEF Dropped
<1>8. Cardinality(Dropped') = Cardinality(Dropped) + 1
  BY <1>6, <1>7, DroppedIsFinite, FS_AddElement
<1>9. dropped \in Nat /\ skipped \in Nat
  BY DEF Inv, TypeOK
<1>10. LossIsReported'
  BY <1>1 DEF LossIsReported, Inv, Ends, Running
<1>. QED BY <1>1, <1>8, <1>9, <1>10, DroppedIsFinite DEF LossInv

LEMMA EmitLoss ==
  ASSUME Inv, LossInv, Emit PROVE LossInv'
<1>1. /\ pc = "items" /\ pc' = "items" /\ place < size[at] /\ IsRecord(Current)
      /\ place' = place + 1
      /\ UNCHANGED <<at, size, item, readable, jbroken, failed, dropped, skipped, exit>>
  BY DEF Emit, given, counts
<1>2. place \in Nat /\ at \in Nat
  BY <1>1, NumLogsAssumption, MaxItemsAssumption DEF Inv, TypeOK, Log
<1>3. \A r \in Record : Met(r)' <=> Met(r) \/ r = Current
  <2>. TAKE r \in Record
  <2>1. r[1] \in Nat /\ r[2] \in Nat /\ r = <<r[1], r[2]>>
    BY NumLogsAssumption, MaxItemsAssumption DEF Record, Log, Place
  <2>2. r[2] <= place + 1 <=> r[2] <= place \/ r[2] = place + 1
    BY <1>2, <2>1
  <2>. QED BY <1>1, <2>1, <2>2 DEF Met, Current
<1>4. Dropped' = Dropped
  BY <1>1, <1>3 DEF Dropped, IsRecord
<1>5. LossIsReported'
  BY <1>1 DEF LossIsReported, Inv, Ends, Running
<1>. QED BY <1>1, <1>4, <1>5 DEF LossInv

(* Exit code 0: what is not in the stream is what was dropped. *)
LEMMA FinishLoss ==
  ASSUME Inv, LossInv, Finish PROVE LossInv'
<1>1. /\ pc = "logs" /\ pc' = "done" /\ at = NumLogs /\ failed = {}
      /\ announced' = Summary
      /\ UNCHANGED <<at, size, item, readable, quiet, jbroken, failed, json, dropped>>
  BY DEF Finish, given, counts, jsonVars
<1>2. /\ ~jbroken /\ dropped = Cardinality(Dropped)
      /\ \A l \in 1 .. at : l \in readable
  BY <1>1 DEF LossInv
<1>3. at \in Log /\ at \in readable /\ place = size[at]
  BY <1>1, <1>2, NumLogsAssumption DEF Inv, LogsAreWhole, Log
<1>4. ASSUME NEW r \in Record, r[2] <= size[r[1]]
      PROVE  /\ Met(r)
             /\ r \in json <=> IsRecord(r)
  <2>1. r[1] \in 1 .. at /\ r[2] \in Nat
    BY <1>1, NumLogsAssumption, MaxItemsAssumption DEF Record, Log, Place
  <2>2. Met(r)
    BY <1>1, <1>3, <1>4, <2>1, NumLogsAssumption DEF Met
  <2>. QED BY <1>2, <2>1, <2>2 DEF Inv, JsonIsMet
<1>5. Lost = Dropped
  BY <1>4 DEF Lost, Dropped
<1>6. Lost' = Lost
  BY <1>1 DEF Lost
<1>7. \A r \in Lost' : ~IsRecord(r)'
  BY <1>1, <1>5, <1>6 DEF Dropped, IsRecord
<1>8. ~quiet => announced' = Cardinality(Lost')
  BY <1>1, <1>2, <1>5, <1>6 DEF Summary
<1>. QED BY <1>1, <1>2, <1>7, <1>8 DEF LossInv, LossIsReported

LEMMA NextLoss == Inv /\ LossInv /\ [Next]_vars => LossInv'
<1>. SUFFICES ASSUME Inv, LossInv, [Next]_vars PROVE LossInv'
  OBVIOUS
<1>1. CASE NextLog \/ Drop \/ Emit \/ Finish
  BY <1>1, NextLogLoss, DropLoss, EmitLoss, FinishLoss
<1>2. CASE OpenOutputs \/ FinishFailed \/ Kill \/ DiskChanges
  <2>1. UNCHANGED <<at, place, size, item, readable, jbroken, failed, dropped, skipped>>
    BY <1>2 DEF OpenOutputs, FinishFailed, Kill, DiskChanges, given, counts, jsonVars
  <2>2. Dropped' = Dropped
    BY <2>1 DEF Dropped, Met, IsRecord
  <2>3. exit' # 0
    BY <1>2 DEF OpenOutputs, FinishFailed, Kill, DiskChanges, Inv, Ends, Running, Killed
  <2>4. pc' = "items" => pc = "items"
    BY <1>2 DEF OpenOutputs, FinishFailed, Kill, DiskChanges
  <2>5. pc' \in {"open", "logs"} => pc \in {"open", "logs"}
    BY <1>2 DEF OpenOutputs, FinishFailed, Kill, DiskChanges
  <2>. QED BY <2>1, <2>2, <2>3, <2>4, <2>5 DEF LossInv, LossIsReported
<1>3. CASE EmitFails
  <2>1. failed' # {} /\ exit' = exit /\ pc = "items"
    BY <1>3 DEF EmitFails
  <2>. QED BY <2>1 DEF LossInv, LossIsReported, Inv, Ends, Running
<1>4. CASE EndLog
  <2>1. /\ pc = "items" /\ pc' = "logs" /\ dropped' = dropped + skipped
        /\ UNCHANGED <<at, place, size, item, readable, jbroken, failed, exit>>
    BY <1>4 DEF EndLog, given, jsonVars
  <2>2. Dropped' = Dropped
    BY <2>1 DEF Dropped, Met, IsRecord
  <2>. QED BY <2>1, <2>2 DEF LossInv, LossIsReported, Inv, Ends, Running
<1>5. CASE UNCHANGED vars
  <2>1. Dropped' = Dropped /\ Lost' = Lost
    BY <1>5 DEF vars, Dropped, Met, IsRecord, Lost
  <2>2. UNCHANGED <<pc, at, failed, dropped, skipped, jbroken, readable>>
    BY <1>5 DEF vars
  <2>3. LossIsReported'
    BY <1>5, <2>1 DEF vars, LossInv, LossIsReported, IsRecord
  <2>. QED BY <2>1, <2>2, <2>3 DEF LossInv
<1>. QED BY <1>1, <1>2, <1>3, <1>4, <1>5 DEF Next, Program

(* Exit code 0 means that nothing is missing from the JSONL stream but what was
   dropped, and that the last line on stderr has counted exactly that.       *)
THEOREM EveryLossIsCounted == Spec => []LossIsReported
<1>1. LossInv => LossIsReported
  BY DEF LossInv
<1>. QED BY <1>1, InitLoss, NextLoss, Invariance, PTL DEF Spec
=============================================================================
