------------------------------ MODULE MCNames ------------------------------
(* Two processes, the root and two more inodes, paths of one and two       *)
(* elements; a process in a removed directory may go on to its "..".       *)
EXTENDS Names, TLC

CONSTANTS p1, p2

Abs(e) == [abs |-> TRUE, elems |-> e]
Rel(e) == [abs |-> FALSE, elems |-> e]
On(op, S) == {[op |-> op, path |-> x, type |-> IF op = "mkdir" THEN "DIR"
                ELSE IF op = "mknod" THEN "DEVICE" ELSE "FILE", write |-> TRUE] : x \in S}
LinkCalls(S, T) == {[op |-> "link", path |-> x, new |-> y] : x \in S, y \in T}

MCProcs == {p1, p2}
MCInums == 1..3
MCNamesSet == {"a", "b"}
A == Abs(<<"a">>)
B == Abs(<<"b">>)
AB == Abs(<<"a", "b">>)
MCCalls == On("create", {AB}) \cup On("mkdir", {A, AB}) \cup On("open", {Rel(<<"..">>)})
           \cup On("unlink", {A, AB}) \cup LinkCalls({AB}, {B})
           \cup On("chdir", {AB}) \cup On("close", {A})
Symmetry == Permutations(MCProcs)
==============================================================================
