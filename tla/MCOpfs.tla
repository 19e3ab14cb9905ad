------------------------------- MODULE MCOpfs -------------------------------
(* A disk of a few blocks: three files with an indirect block fill it. *)
EXTENDS Opfs

Byte(c) == [n |-> c, i |-> 0]
MCInputs == {<<>>, <<[name |-> "a", data |-> <<Byte("x"), Byte("y"), Byte("z")>>]>>,
             <<[name |-> "a", data |-> <<Byte("x")>>], [name |-> "b", data |-> <<>>]>>,
             <<[name |-> "a", data |-> <<Byte("x")>>], [name |-> "b", data |-> <<>>],
               [name |-> "c", data |-> <<>>]>>}
MCPaths == {<<"a">>, <<"d">>, <<"e">>, <<"d", "a">>, <<"d", "">>}
MCTexts == {[k \in 1..1 |-> Byte("p")], [k \in 1..7 |-> Byte("r")]}
=============================================================================
