-------------------------- MODULE MCTaskLifecycle --------------------------
(* Model-checking instance of TaskLifecycle: workers are interchangeable. *)
EXTENDS TaskLifecycle, TLC

CONSTANTS t1, t2, w1, w2

WorkerSymmetry == Permutations({w1, w2})
=============================================================================
