---------------------------- MODULE MCGoeseDump ----------------------------
(* Instances of GoeseDump for TLC. *)
EXTENDS GoeseDump, TLC

MCAlias == (<<"{", "G", "}">> :> <<"E">>)
GuidTable == <<"{", "G", "}">>
PlainTable == <<"{", "P", "}">>
System == <<"M", "S", "y", "s", "O">>

\* Two SRUM databases of one name, and two SUM databases whose names only fold
\* to the same one.
MCKinds == <<"SRUM", "SRUM", "SUM", "SUM">>
MCStems == << <<"S">>, <<"S">>, <<"C", " ", "1">>, <<"C", "_", "1">> >>
MCTables == << <<System, GuidTable, PlainTable>>, <<GuidTable>>, <<PlainTable>>, <<System, PlainTable>> >>
MCRequests == {<< >>, << <<"E">>, PlainTable >>, << <<"E">>, <<"E">> >>}

\* The theorems' hypothesis.
ASSUME MCNamesAssumption == NamesApart
=============================================================================
