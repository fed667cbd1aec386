---------------------------- MODULE OutputLedger ----------------------------
(***************************************************************************)
(* What the batch promises about finished plugin outputs, without images,  *)
(* processes or files: a ledger of (folder, plugin) pairs that count as    *)
(* done.  An invocation is either forced or not.  Any invocation may enter *)
(* pairs; only a forced one may strike a pair out.  PiiatBatch implements  *)
(* this specification.                                                     *)
(***************************************************************************)
CONSTANT Output     \* the (folder, plugin) pairs an output file can exist for

VARIABLES
  done,             \* the pairs whose output counts as done
  forced            \* was the invocation under way given PIIAT_FORCE?

vars == <<done, forced>>

Init ==
  /\ done = {}
  /\ forced \in BOOLEAN

Invoke ==
  /\ forced' \in BOOLEAN
  /\ done' = done

Enter ==
  /\ \E S \in SUBSET Output : done' = done \cup S
  /\ forced' = forced

Strike ==
  /\ forced
  /\ \E o \in done : done' = done \ {o}
  /\ forced' = forced

Next == Invoke \/ Enter \/ Strike

Spec == Init /\ [][Next]_vars
=============================================================================
