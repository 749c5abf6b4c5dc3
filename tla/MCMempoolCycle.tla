--------------------------- MODULE MCMempoolCycle ---------------------------
(* TLC instance of MempoolCycle and MempoolQueries: a start height that    *)
(* passes the check of InitMempool because it is 0, and one that is        *)
(* refused; metadata with the modified fee, and as in the documentation.   *)
EXTENDS MempoolQueries

CONSTANTS t1, t2

MCTxids == {t1, t2}

MCStartHeights == {0, 1}

MCTips == {1}

NoFees == [modified |-> Undefined, base |-> Undefined]

MCMetadata ==
  t1 :> [vsize |-> 2, modifiedfee |-> 5, fee |-> Undefined, fees |-> NoFees]
  @@ t2 :> [vsize |-> 2, modifiedfee |-> Undefined, fee |-> 5, fees |-> NoFees]

MCTxRate == t1 :> <<5, 2>> @@ t2 :> Undefined
=============================================================================
