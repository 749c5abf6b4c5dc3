--------------------------- MODULE MempoolQueries ---------------------------
(***************************************************************************)
(* What clients, and user models through ctx.mempool, are answered about a *)
(* transaction from the stored Mempool of MempoolCycle.                    *)
(*                                                                         *)
(* A rate is a pair <<fee, vsize>>.  A value of JavaScript is an integer,  *)
(* NaN, Text (a string that reads as the number 1), False or Undefined.    *)
(***************************************************************************)
EXTENDS MempoolCycle

CONSTANTS
  NaN, Text, False,
  Metadata,    (* Metadata[t]: what providers report of t                  *)
  TxRate       (* TxRate[t]: the rate t carries once it is loaded          *)

-----------------------------------------------------------------------------
IsNumber(x) == x \notin {Text, False, Undefined}       (* typeof 'number'  *)

IsFinite(x) == IsNumber(x) /\ x # NaN

(* Number(x).                                                              *)
ToNumber(x) == CASE x = Undefined -> NaN [] x = Text -> 1 [] x = False -> 0 [] OTHER -> x

(* a ?? b: b only for null and undefined.                                  *)
Coalesce(a, b) == IF a = Undefined THEN b ELSE a

(* typeof x === 'number' && x                                              *)
NumberOrFalse(x) == IF IsNumber(x) THEN x ELSE False

FeeRateFromMetadata(md) ==
  LET v == ToNumber(md.vsize)
      n == Coalesce(NumberOrFalse(md.modifiedfee),
           Coalesce(NumberOrFalse(md.fee),
           Coalesce(NumberOrFalse(md.fees.modified),
           Coalesce(NumberOrFalse(md.fees.base), Undefined))))
  IN  IF ~IsFinite(v) \/ v <= 0 \/ ~IsFinite(n) \/ n <= 0 THEN Undefined ELSE <<n, v>>

(* The rate of the loaded transaction, or else of the metadata.            *)
FeeRate(tx, md) ==
  IF tx # Undefined /\ tx.feeRate \notin {Undefined, NaN} THEN tx.feeRate
  ELSE IF md = Undefined THEN Undefined ELSE FeeRateFromMetadata(md)

MetadataOf(t) == IF t \in mempool.known THEN Metadata[t] ELSE Undefined

FullTransaction(t) == IF t \in mempool.loaded THEN [feeRate |-> TxRate[t]] ELSE Undefined

Answer(t, tx, md) ==
  [exists |-> t \in mempool.known, isLoaded |-> t \in mempool.loaded,
   feeRate |-> FeeRate(tx, md), metadata |-> md, transaction |-> tx]

(* ctx.mempool.checkTransaction.                                           *)
CheckTransaction(t) == Answer(t, FullTransaction(t), MetadataOf(t))

(* CheckMempoolTransactionFullQuery: what is not included is not looked up.*)
CheckMempoolTransactionFull(t, includeMetadata, includeTransaction) ==
  Answer(t, IF includeTransaction THEN FullTransaction(t) ELSE Undefined,
            IF includeMetadata THEN MetadataOf(t) ELSE Undefined)

-----------------------------------------------------------------------------
(* The documented example of the query: a transaction whose metadata is    *)
(* {fee, vsize}, both included, has the rate fee / vsize.                  *)
RateOfFee ==
  \A t \in mempool.known :
    LET md == Metadata[t]
    IN  /\ md.modifiedfee = Undefined
        /\ IsFinite(md.fee) /\ md.fee > 0 /\ IsFinite(md.vsize) /\ md.vsize > 0
        => CheckMempoolTransactionFull(t, TRUE, TRUE).feeRate # Undefined
=============================================================================
