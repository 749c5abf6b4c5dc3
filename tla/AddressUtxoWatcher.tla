------------------------- MODULE AddressUtxoWatcher -------------------------
(***************************************************************************)
(* The class model of the system examples: one event per block with all it *)
(* pays to the wallets and all it spends, and the unspent outputs as the   *)
(* whole state.                                                            *)
(***************************************************************************)
EXTENDS Integers, SequencesExt

CONSTANTS Tx, Watched    (* as in BaseWalletWatcher                        *)

Base == INSTANCE BaseWalletWatcher

ProcessBlock(height, block) ==
  LET delta == [type |-> "BasicWalletDelta", height |-> height,
                outputs |-> Base!Outputs(block), inputs |-> Base!Inputs(block)]
  IN  IF delta.outputs \cup delta.inputs = {} THEN <<>> ELSE <<delta>>

OnBasicWalletDelta(unspent, e) == (unspent \cup e.outputs) \ e.inputs

Restore(rows) == FoldLeft(OnBasicWalletDelta, {}, rows)

GetBalance(unspent, a) == Base!Value(Base!To(a, unspent))
=============================================================================
