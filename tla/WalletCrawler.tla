--------------------------- MODULE WalletCrawler ---------------------------
(***************************************************************************)
(* A crawler that runs the wallet models of the examples.  Commands        *)
(* restore the models, run them and store their events; a reorganisation   *)
(* deletes the rows above a height.  Blocks carry the height of the        *)
(* Network, the ticks that of the Mempool, which its provider has given    *)
(* and which need not be the same.                                         *)
(*                                                                         *)
(* The commands are atomic here: how they fail, crash and are retried is   *)
(* in BlockIngestion, how they overlap in MempoolCycle.  External: the     *)
(* event store, the Network and the Mempool aggregates, and the node,      *)
(* whose blocks spend only what there is.                                  *)
(***************************************************************************)
EXTENDS Integers, FiniteSets, SequencesExt

CONSTANTS
  Tx, Watched, None,    (* as in the models                                *)
  Blocks,               (* the blocks the node may have, sequences of txids*)
  Pool,                 (* the transactions of its mempool                 *)
  MaxHeight, MaxBatch, MaxRefreshes, MaxTicks, MaxReorgs    (* bounds      *)

Addresses == UNION {{Tx[t].vout[n].address : n \in DOMAIN Tx[t].vout} : t \in DOMAIN Tx}

(* The transactions have inputs and outputs of natural value.              *)
ASSUME TxAssumption ==
  /\ IsFiniteSet(DOMAIN Tx)
  /\ \A t \in DOMAIN Tx : Tx[t] \in [vin  : Seq((DOMAIN Tx) \X Nat),
                                     vout : Seq([address : Addresses, value : Nat]),
                                     rbf  : BOOLEAN]
  /\ None \notin [height : Int, index : Int]

ASSUME WalletAssumption ==
  /\ Blocks \subseteq Seq(DOMAIN Tx)
  /\ Pool \subseteq DOMAIN Tx
  /\ MaxBatch \in Nat \ {0}
  /\ {MaxHeight, MaxRefreshes, MaxTicks, MaxReorgs} \subseteq Nat

VARIABLES
  chain,     (* the indexed blocks; the first one has height 0             *)
  mempool,   (* the stored Mempool: loaded transactions and its height     *)
  baseRows, utxoRows, rows,    (* the stored events of the three models    *)
  ahead,     (* a tick has run with a height above the Network's           *)
  spent      (* refreshes, ticks and reorganisations so far                *)

vars == <<chain, mempool, baseRows, utxoRows, rows, ahead, spent>>

Base == INSTANCE BaseWalletWatcher
Utxo == INSTANCE AddressUtxoWatcher
Advanced == INSTANCE AdvancedWalletWatcher

-----------------------------------------------------------------------------
Spend(what, bound) ==
  spent[what] < bound /\ spent' = [spent EXCEPT ![what] = @ + 1]

Height == Len(chain) - 1

Confirmed(c) == UNION {ToSet(c[i]) : i \in DOMAIN c}

(* Each transaction of a valid chain is new and spends outputs of earlier  *)
(* ones that no earlier one has spent.                                     *)
Valid(c) ==
  LET txs == FlattenSeq(c)
      before(i) == ToSet(SubSeq(txs, 1, i - 1))
  IN  \A i \in DOMAIN txs :
        /\ txs[i] \notin before(i)
        /\ \A o \in ToSet(Tx[txs[i]].vin) :
             o[1] \in before(i) /\ o \notin UNION {ToSet(Tx[t].vin) : t \in before(i)}

Batches == UNION {[1..k -> Blocks] : k \in 1..MaxBatch}

UpTo(events, h) ==
  FoldLeft(LAMBDA kept, e : IF e.height <= h THEN Append(kept, e) ELSE kept, <<>>, events)

(* The events of a batch: each block is processed on what the one before   *)
(* has left of the instance.                                               *)
BaseEvents(batch) ==
  FlattenSeq([i \in DOMAIN batch |-> Base!ProcessBlock(Height + i, batch[i])])

UtxoEvents(batch) ==
  FlattenSeq([i \in DOMAIN batch |-> Utxo!ProcessBlock(Height + i, batch[i])])

AdvancedEvents(batch) ==
  FoldLeft(LAMBDA m, i : Advanced!ProcessBlock(m, Height + i, batch[i]),
           Advanced!Restore(rows), [i \in DOMAIN batch |-> i]).new

-----------------------------------------------------------------------------
Init ==
  /\ chain = <<>>
  /\ mempool = [loaded |-> {}, height |-> -1]
  /\ baseRows = <<>> /\ utxoRows = <<>> /\ rows = <<>>
  /\ ahead = FALSE
  /\ spent = [w \in {"refreshes", "ticks", "reorgs"} |-> 0]

(* AddBlocksBatch.                                                         *)
AddBlocksBatch ==
  \E batch \in Batches :
    /\ Len(chain) + Len(batch) <= MaxHeight + 1
    /\ Valid(chain \o batch)
    /\ chain' = chain \o batch
    /\ baseRows' = baseRows \o BaseEvents(batch)
    /\ utxoRows' = utxoRows \o UtxoEvents(batch)
    /\ rows' = rows \o AdvancedEvents(batch)
    /\ UNCHANGED <<mempool, ahead, spent>>

(* Its reorganisation: the rows above the fork are deleted.                *)
Reorganise ==
  \E h \in 0..(Height - 1) :
    /\ Spend("reorgs", MaxReorgs)
    /\ chain' = SubSeq(chain, 1, h + 1)
    /\ baseRows' = UpTo(baseRows, h)
    /\ utxoRows' = UpTo(utxoRows, h)
    /\ rows' = UpTo(rows, h)
    /\ UNCHANGED <<mempool, ahead>>

(* The Mempool is refreshed with a height of its provider, and loaded.     *)
Refresh ==
  /\ Spend("refreshes", MaxRefreshes)
  /\ mempool' \in [loaded : SUBSET Pool, height : 0..MaxHeight]
  /\ UNCHANGED <<chain, baseRows, utxoRows, rows, ahead>>

(* SyncMempool: only the advanced model has a mempoolTick.                 *)
SyncMempool ==
  \E txids \in SetToSeqs(mempool.loaded) :
    /\ Spend("ticks", MaxTicks)
    /\ rows' = rows \o Advanced!MempoolTick(Advanced!Restore(rows), mempool.height, txids).new
    /\ ahead' = (ahead \/ mempool.height > Height)
    /\ UNCHANGED <<chain, mempool, baseRows, utxoRows>>

Next == AddBlocksBatch \/ Reorganise \/ Refresh \/ SyncMempool

Spec == Init /\ [][Next]_vars

-----------------------------------------------------------------------------
EventTypes == {"TxSeen", "TxConfirmed", "WalletCreditSeen", "WalletCreditConfirmed",
               "TxReplacedByRbf", "DoubleSpendDetected"}

(* Every variable holds a value of its kind.                               *)
TypeOK ==
  /\ chain \in Seq(Blocks) /\ Len(chain) <= MaxHeight + 1
  /\ mempool \in [loaded : SUBSET Pool, height : -1..MaxHeight]
  /\ \A i \in DOMAIN baseRows : /\ baseRows[i].type \in {"WalletCredited", "WalletDebited"}
                                /\ baseRows[i].outpoints # {}
  /\ \A i \in DOMAIN utxoRows : utxoRows[i].type = "BasicWalletDelta"
  /\ \A i \in DOMAIN rows : rows[i].type \in EventTypes /\ rows[i].tx \in DOMAIN Tx
  /\ ahead \in BOOLEAN

Received(a) == Base!To(a, UNION {{t} \X DOMAIN Tx[t].vout : t \in Confirmed(chain)})

SpentOutputs == UNION {ToSet(Tx[t].vin) : t \in Confirmed(chain)}

(* Both wallets that keep balances answer with what the indexed chain pays *)
(* to an address and has not spent, whatever was indexed before it and     *)
(* rolled back, even when a block spends its own outputs.                  *)
BalanceIsUnspent ==
  LET base == Base!Restore(baseRows)
      utxo == Utxo!Restore(utxoRows)
  IN  \A a \in Watched :
        LET unspent == Received(a) \ SpentOutputs
        IN  /\ Base!GetUnspent(base, a) = unspent
            /\ Base!GetBalance(base, a) = Base!Value(unspent)
            /\ Utxo!GetBalance(utxo, a) = Base!Value(unspent)
            /\ Base!GetTxids(base, a) = {o[1] : o \in Received(a)}

(* A transaction that pays to a wallet has the status confirmed exactly if *)
(* the indexed chain has it, and with its place there, through the mempool,*)
(* reorganisations and confirmation in another block.                      *)
StatusMatchesChain ==
  LET m == Advanced!Restore(rows)
  IN  \A t \in DOMAIN Tx :
        Advanced!ConfirmedAt(m, t) =
          IF Advanced!Touches(t) # {} /\ t \in Confirmed(chain)
          THEN LET i == CHOOSE i \in DOMAIN chain : Contains(chain[i], t)
               IN  [height |-> i - 1, index |-> Advanced!IndexIn(chain[i], t)]
          ELSE None

(* What is first seen is told once, over ticks, batches and restores.      *)
SeenOnce ==
  \A i, j \in DOMAIN rows :
    rows[i].type = "TxSeen" /\ rows[j].type = "TxSeen" /\ rows[i].tx = rows[j].tx => i = j

(* The comments on AddressSeenView: an address is answered with the        *)
(* confirmed transactions that touch it, and no pending one is confirmed;  *)
(* but only as long as no tick has run with a height above the Network's.  *)
ConfirmedListed ==
  LET m == Advanced!Restore(rows)
  IN  ~ahead =>
        \A a \in Watched :
          LET view  == Advanced!AddressSeen(m, a)
              there == {t \in Confirmed(chain) : a \in Advanced!Touches(t)}
          IN  view.confirmed = there /\ view.pending \cap there = {}

(* The comment above mempoolTick: WalletCreditSeen for new touches.        *)
CreditSeen ==
  \A i \in DOMAIN rows :
    rows[i].type = "TxSeen" /\ rows[i].source = "mempool" =>
      \E j \in DOMAIN rows : rows[j].type = "WalletCreditSeen" /\ rows[j].tx = rows[i].tx
=============================================================================
