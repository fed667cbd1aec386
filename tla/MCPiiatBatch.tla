---------------------------- MODULE MCPiiatBatch ----------------------------
(* Instances of PiiatBatch for TLC. *)
EXTENDS PiiatBatch

\* Two images whose folders differ although they share a basename.
MCTwoCorpora == << <<"a", "/", "x">>, <<"b", " ", "/", "x">> >>
\* A request of two plugins, one of them twice, and one with no valid name.
MCRequests == {<<"p", "../x", "q", "p">>, <<"../x">>}
MCOneRequest == {<<"p">>}
MCPluginName == {"p", "q"}
MCDefault == <<"q">>
=============================================================================
