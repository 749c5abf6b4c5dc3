------------------------- MODULE BaseWalletWatcher -------------------------
(***************************************************************************)
(* The class model of the base wallet example: the events it emits for a   *)
(* block, its reducers and its getters.  An outpoint is <<txid, n>>; an    *)
(* amount is a number of satoshi.  utxoLookup and addressUtxos, which hold *)
(* the same keys, are one set, and utxoCount is its size.                  *)
(***************************************************************************)
EXTENDS Integers, SequencesExt

CONSTANTS
  Tx,        (* Tx[t]: the sequences vin of outpoints and vout of          *)
             (* [address, value], and whether t signals that it may be     *)
             (* replaced (rbf)                                             *)
  Watched    (* the addresses of the wallets                               *)

VoutOf(o) == Tx[o[1]].vout[o[2]]

To(a, outpoints) == {o \in outpoints : VoutOf(o).address = a}

Value(outpoints) == MapThenSumSet(LAMBDA o : VoutOf(o).value, outpoints)

(* What the transactions of a block pay to the wallets, and what they      *)
(* spend, whoever owned it.                                                *)
Outputs(block) ==
  {o \in UNION {{t} \X DOMAIN Tx[t].vout : t \in ToSet(block)} : VoutOf(o).address \in Watched}

Inputs(block) == UNION {ToSet(Tx[t].vin) : t \in ToSet(block)}

Credited(height, block) ==
  [type |-> "WalletCredited", height |-> height, outpoints |-> Outputs(block)]

Debited(height, block) ==
  [type |-> "WalletDebited", height |-> height, outpoints |-> Inputs(block)]

(* Mutant: an event without outputs or inputs is applied all the same.     *)
KeepEmpty(event) == <<event>>

(* An event that would hold nothing is not applied.                        *)
NotEmpty(event) == IF event.outpoints = {} THEN <<>> ELSE <<event>>

(* Mutant: what a block spends is taken away before what it pays is added. *)
DebitFirst(height, block) == NotEmpty(Debited(height, block)) \o NotEmpty(Credited(height, block))

(* processBlock: at most two events, first of all credits of the block.    *)
ProcessBlock(height, block) ==
  NotEmpty(Credited(height, block)) \o NotEmpty(Debited(height, block))

-----------------------------------------------------------------------------
NewModel ==
  [utxos |-> {}, balance |-> [a \in Watched |-> 0], txids |-> [a \in Watched |-> {}]]

OnWalletCredited(m, e) ==
  LET new == e.outpoints \ m.utxos
  IN  [utxos   |-> m.utxos \cup new,
       balance |-> [a \in Watched |-> m.balance[a] + Value(To(a, new))],
       txids   |-> [a \in Watched |-> m.txids[a] \cup {o[1] : o \in To(a, e.outpoints)}]]

(* The balance is cut off at zero.                                         *)
OnWalletDebited(m, e) ==
  LET spent == e.outpoints \cap m.utxos
  IN  [m EXCEPT !.utxos = @ \ spent,
                !.balance = [a \in Watched |-> Max({0, @[a] - Value(To(a, spent))})]]

Reduce(m, e) ==
  IF e.type = "WalletCredited" THEN OnWalletCredited(m, e) ELSE OnWalletDebited(m, e)

(* The model its stored events make.                                       *)
Restore(rows) == FoldLeft(Reduce, NewModel, rows)

GetBalance(m, a) == m.balance[a]

GetUnspent(m, a) == To(a, m.utxos)

GetTxids(m, a) == m.txids[a]
=============================================================================
