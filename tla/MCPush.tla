------------------------------- MODULE MCPush -------------------------------
(* Small instances of Push for TLC. *)
EXTENDS Push, TLC

CONSTANTS w1, w2, ann, bob, cyd, one, many, bad

OneWorker == {w1}
TwoWorkers == {w1, w2}

\* A chat between two users; a group of three; a record nobody can parse.
Single == {one}
Group == {many}
GroupAndBad == {many, bad}
Pair == {ann, bob}
Trio == {ann, bob, cyd}
None == {}
BadOnly == {bad}

Recipient == [m \in Messages |-> IF m = many THEN NoUser ELSE bob]
Author == [m \in Messages |-> ann]

WorkerSymmetry == Permutations({w1, w2})
MemberSymmetry == Permutations({bob, cyd})
=============================================================================
