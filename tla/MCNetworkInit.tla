--------------------------- MODULE MCNetworkInit ---------------------------
(* TLC instances of NetworkInit and of queries to it.                      *)
EXTENDS NetworkQueries

MCEnvValues == {Undefined, NaN, -1, 0, 1, 3}

MCAsked == -1..4

(* Started from the environment alone, or by a parent that gives a         *)
(* checkpoint: then with batches of one block, or of two; or now with a    *)
(* parent and now without.                                                 *)
Standalone   == [checkpoints |-> {Undefined}, maxBatch |-> 2]
Child        == [checkpoints |-> {-2, -1, 1, 2}, maxBatch |-> 1]
BatchedChild == [checkpoints |-> {-2, -1, 1, 2}, maxBatch |-> 2]
Sometimes    == [checkpoints |-> {Undefined, -1, 1, 2}, maxBatch |-> 1]

MCDeployments      == {Standalone, Child, BatchedChild, Sometimes}
MCChildDeployments == {BatchedChild}
=============================================================================
