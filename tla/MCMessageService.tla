-------------------------- MODULE MCMessageService --------------------------
(* Small instances of MessageService for TLC.                              *)
EXTENDS MessageService, TLC

CONSTANTS t1, t2, room

TwoThreads == {t1, t2}
OneThread == {t1}
Two == {1, 2}
Pair == {{1, 2}}
Room == {room}
PairAndRoom == {{1, 2}, room}
Sequenced == {7}
Unsequenced == {0}

ThreadSymmetry == Permutations(Threads)
=============================================================================
