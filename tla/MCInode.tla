------------------------------- MODULE MCInode -------------------------------
(* Two processes in a small directory tree. *)
EXTENDS Inode

CONSTANTS p1, p2, r, i1, i2, i3

Two == {p1, p2}
Disk == {r, i1, i2, i3}
P(op, abs, path) == [op |-> op, abs |-> abs, path |-> path]
O(abs, path, create, mode) ==
  [op |-> "open", abs |-> abs, path |-> path, create |-> create, mode |-> mode]
\* One process works in the tree, the other one takes it away.
Jobs == (p1 :> {P("mkdir", TRUE, <<"a">>), P("mkdir", FALSE, <<"b">>), P("chdir", FALSE, <<"a">>),
                O(FALSE, <<"b">>, TRUE, "w"), O(TRUE, <<"a", "b">>, FALSE, "r"),
                [op |-> "link", abs |-> TRUE, path |-> <<"b">>, newabs |-> FALSE, new |-> <<"a">>],
                [op |-> "fork"], [op |-> "pipe"], [op |-> "close"], [op |-> "dup"], [op |-> "io"]})
     @@ (p2 :> {P("unlink", TRUE, <<"a">>), P("unlink", TRUE, <<"a", "b">>),
                P("chdir", FALSE, <<"a">>), P("chdir", TRUE, <<>>), P("mknod", FALSE, <<"b">>),
                O(FALSE, <<"a">>, FALSE, "w"), P("chmod", TRUE, <<"b">>),
                [op |-> "exit"], [op |-> "io"]})
\* The empty disk, and one with a directory /a that holds a file b or a directory b.
Blank == [i \in Disk |-> IF i = r THEN Dir(1, r, r, <<>>) ELSE FreeInode]
Boot ==
  {Blank} \cup UNION {IF x = y THEN {} ELSE
    {[Blank EXCEPT ![r] = Dir(2, r, r, [a |-> x]), ![x] = Dir(1, x, r, [b |-> y]),
                   ![y] = [FreeInode EXCEPT !.type = "file", !.nlink = 1]],
     [Blank EXCEPT ![r] = Dir(2, r, r, [a |-> x]), ![x] = Dir(2, x, r, [b |-> y]),
                   ![y] = Dir(1, y, x, <<>>)]} : x, y \in {i1, i2, i3}}
Symmetry == Permutations({i1, i2, i3})
=============================================================================
