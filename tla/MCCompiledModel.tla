-------------------------- MODULE MCCompiledModel --------------------------
(* TLC instances of CompiledModel: the second block spends an output of    *)
(* the first and one of its own, the third two outputs in one transaction. *)
EXTENDS CompiledModel

MCBlocks == <<
  <<[txid |-> "t1", vin |-> <<>>, vout |-> <<"o1", "o2">>]>>,
  <<[txid |-> "t2", vin |-> <<"o1">>, vout |-> <<"o3">>],
    [txid |-> "t3", vin |-> <<"o3">>, vout |-> <<"o4">>]>>,
  <<[txid |-> "t4", vin |-> <<"o2", "o4">>, vout |-> <<>>]>> >>

MCPool == << [txid |-> "t5", vin |-> <<"o4">>, vout |-> <<"o5">>] >>

MCSources == {{"vout", "vin", "tx", "block"}, {"vout", "block"}, {"tx", "block", "mempool"}}

MCDescriptors == {[state |-> "function", sources |-> s] : s \in MCSources}
                 \cup {[state |-> "none", sources |-> {"block"}]}

(* As in the quick start: the state is written as an object.               *)
MCObjectDescriptors == {[state |-> "object", sources |-> s] : s \in MCSources}
=============================================================================
