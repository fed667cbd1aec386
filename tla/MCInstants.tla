---------------------------- MODULE MCInstants ----------------------------
(* A second of 5 ms of 2 ticks of 2 ns, 1970 thirty seconds after 1601; numbers above
   40 are FILETIMEs.  The inputs reach to both sides of every boundary.      *)
EXTENDS Instants

Numbers == {[form |-> NoNumber]} \cup
  [form : Form, sec : -31 .. 42, tick : {0, 1, 9}]
MCInputs ==
  [gorb |-> -320 .. 320, gojle |-> 0 .. 640, goevtx |-> -300 .. 300,
   gowxt |-> [start : Numbers, end : Numbers]]
=============================================================================
