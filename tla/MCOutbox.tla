------------------------------ MODULE MCOutbox ------------------------------
(* Finite instances of Outbox for TLC. *)
EXTENDS Outbox, TLC

CONSTANTS w1, w2

TwoWorkers == {w1, w2}
OneWorker == {w1}
OneEvent == {1}
TwoEvents == {1, 2}

\* The workers are interchangeable.
WorkerSymmetry == Permutations({w1, w2})

=============================================================================
