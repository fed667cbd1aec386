---------------------------- MODULE MCWxtWorkdir ----------------------------
(* Instances of WxtWorkdir for TLC. *)
EXTENDS WxtWorkdir, TLC

\* Three databases, two with the base name Windows gives them all.
MCBases == <<"A", "A", "B">>
MCSides == <<Side, {}, {"-wal"}>>
=============================================================================
