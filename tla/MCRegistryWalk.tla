--------------------------- MODULE MCRegistryWalk ---------------------------
(* Hives of four keys: the top one holds left and right, which spell the same
   number, in either order, or left alone; left holds one below.             *)
EXTENDS RegistryWalk

MCKey == {"top", "left", "right", "below"}
Each(top, left, right, below) ==
  [k \in MCKey |-> CASE k = "top" -> top [] k = "left" -> left
                     [] k = "right" -> right [] k = "below" -> below]

MCName == {"", "0", "1", "01", "x"}
MCNumber == [n \in MCName |-> CASE n = "0" -> 0 [] n = "1" -> 1 [] n = "01" -> 1
                                [] OTHER -> NotNumeric]
MCKeyName == Each("x", "1", "01", "0")

V(name, item) == [name |-> name, item |-> item]
MCOuter == {<< >>, <<V("0", "C:"), V("1", "a")>>, <<V("1", "a"), V("01", "b")>>,
            <<V("x", "c"), V("1", Undecoded), V("0", NoData)>>}
MCInner == {<< >>, <<V("0", "b"), V("", "c")>>}
MCLists == {<< >>, <<1, 0, -1>>, <<0, -1, 1>>, <<1, 0, 1>>}

MCHive ==
  {[values |-> Each(top, left, right, <<V("0", "d")>>),
    subkeys |-> Each(order, <<"below">>, << >>, << >>),
    mru |-> Each(list, <<0, -1>>, << >>, <<1>>)] :
     top \in MCOuter, left \in MCInner, right \in MCInner, list \in MCLists,
     order \in {<<"left", "right">>, <<"right", "left">>, <<"left">>}}

R(key, recursive, named, fits) ==
  [key |-> key, recursive |-> recursive, named |-> named, fits |-> fits]
MCRoots ==
  [t \in Tool |->
     IF t = "gosbe" THEN {<<R("top", FALSE, NoName, TRUE), R(NoKey, FALSE, NoName, TRUE)>>}
     ELSE {<<R("top", TRUE, NoName, TRUE), R("left", FALSE, "0", TRUE), R("right", FALSE, NoName, FALSE)>>,
           <<R(NoKey, TRUE, NoName, TRUE), R("top", FALSE, NoName, TRUE), R("top", TRUE, "0", TRUE)>>}]

(* What the theorems ask of the hives. *)
ASSUME MCHivesAssumption == SiblingsApart /\ NoCycles
=============================================================================
