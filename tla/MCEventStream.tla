--------------------------- MODULE MCEventStream ---------------------------
(* Model-checking instance of EventStream: one client of one task. *)
EXTENDS EventStream, TLC

CONSTANTS t1, w1, w2, c1

WorkerSymmetry == Permutations({w1, w2})

FollowsFirst == [c \in {c1} |-> t1]
=============================================================================
