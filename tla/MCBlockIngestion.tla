-------------------------- MODULE MCBlockIngestion --------------------------
(* TLC instance of BlockIngestion: one genesis block, a fork right above   *)
(* it and a fork one block higher.                                         *)
EXTENDS BlockIngestion

g  == [height |-> 0, hash |-> "0", prev |-> "none"]
a1 == [height |-> 1, hash |-> "1a", prev |-> "0"]
a2 == [height |-> 2, hash |-> "2a", prev |-> "1a"]
b1 == [height |-> 1, hash |-> "1b", prev |-> "0"]
b2 == [height |-> 2, hash |-> "2b", prev |-> "1b"]
b3 == [height |-> 3, hash |-> "3b", prev |-> "2b"]
c2 == [height |-> 2, hash |-> "2c", prev |-> "1a"]
c3 == [height |-> 3, hash |-> "3c", prev |-> "2c"]
d2 == [height |-> 2, hash |-> "2d", prev |-> "1b"]
d3 == [height |-> 3, hash |-> "3d", prev |-> "2d"]
d4 == [height |-> 4, hash |-> "4d", prev |-> "3d"]

MCChains == {<<g, a1>>, <<g, a1, a2>>, <<g, b1, b2, b3>>, <<g, a1, c2, c3>>,
             <<g, b1, d2, d3, d4>>}

(* m1 reacts to every block, m2 skips one block of each branch.            *)
MCEmits == [m1 |-> {g, a1, a2, b1, b2, b3, c2, c3, d2, d3, d4},
            m2 |-> {g, a2, b1, b3, c3, d3}]
MCModels == DOMAIN MCEmits
=============================================================================
