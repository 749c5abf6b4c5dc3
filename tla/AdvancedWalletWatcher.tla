----------------------- MODULE AdvancedWalletWatcher -----------------------
(***************************************************************************)
(* The class model of the advanced wallet example: it follows the          *)
(* transactions that pay to the wallets through the mempool and the        *)
(* blocks.  An instance is [seen, user, new]: seenTx, outpointToTx and the *)
(* events it has applied; applyEvent runs the reducer at once.             *)
(*                                                                         *)
(* lastMempoolTxCount is no part of the stored state, so an instance has   *)
(* it from its own tick only and never skips a tick.                       *)
(***************************************************************************)
EXTENDS Integers, SequencesExt

CONSTANTS
  Tx, Watched,    (* as in BaseWalletWatcher                               *)
  None            (* no confirmation                                       *)

NewModel == [seen |-> <<>>, user |-> <<>>, new |-> <<>>]

(* parseTxGeneric: a transaction without an output to a wallet is skipped. *)
Touches(t) == {Tx[t].vout[n].address : n \in DOMAIN Tx[t].vout} \cap Watched

Parsed(t) == Touches(t) # {}

Seen(m, t) == t \in DOMAIN m.seen

-----------------------------------------------------------------------------
(* Map.set, for each of the keys.                                          *)
Put(map, keys, v) == [x \in keys \cup DOMAIN map |-> IF x \in keys THEN v ELSE map[x]]

(* The reducers.                                                           *)
OnTxSeen(m, e) ==
  LET entry == [touches |-> e.touches, rbf |-> e.rbf, source |-> e.source,
                at |-> e.height, confirmed |-> None]
      again == [m.seen[e.tx] EXCEPT !.touches = @ \cup e.touches, !.rbf = @ \/ e.rbf]
  IN  [m EXCEPT !.seen = Put(@, {e.tx}, IF Seen(m, e.tx) THEN again ELSE entry),
                !.user = Put(@, ToSet(Tx[e.tx].vin), e.tx)]

OnTxConfirmed(m, e) ==
  LET place   == [height |-> e.height, index |-> e.index]
      unknown == [touches |-> {}, rbf |-> FALSE, source |-> "block",
                  at |-> e.height, confirmed |-> place]
      known   == [m.seen[e.tx] EXCEPT !.confirmed = place]
  IN  [m EXCEPT !.seen = Put(@, {e.tx}, IF Seen(m, e.tx) THEN known ELSE unknown)]

(* The other reducers do nothing.                                          *)
Reduce(m, e) ==
  CASE e.type = "TxSeen"      -> OnTxSeen(m, e)
    [] e.type = "TxConfirmed" -> OnTxConfirmed(m, e)
    [] OTHER                  -> m

ApplyEvent(m, e) == [Reduce(m, e) EXCEPT !.new = Append(@, e)]

(* The instance its stored events make.                                    *)
Restore(rows) == FoldLeft(Reduce, NewModel, rows)

-----------------------------------------------------------------------------
TxSeen(t, height, source) ==
  [type |-> "TxSeen", tx |-> t, height |-> height, source |-> source,
   touches |-> Touches(t), rbf |-> Tx[t].rbf]

TxConfirmed(t, height, index) ==
  [type |-> "TxConfirmed", tx |-> t, height |-> height, index |-> index]

Event(type, t, height) == [type |-> type, tx |-> t, height |-> height]

(* Mutant: every sight is the first one.                                   *)
SeeAlways(m, t, height, source) == ApplyEvent(m, TxSeen(t, height, source))

(* Seen for the first time.                                                *)
See(m, t, height, source) ==
  IF Seen(m, t) THEN m ELSE ApplyEvent(m, TxSeen(t, height, source))

(* Mutant: only what was not seen before is confirmed.                     *)
ConfirmUnseen(m, t, height, index) ==
  IF Seen(m, t) THEN m
  ELSE ApplyEvent(See(m, t, height, "block"), TxConfirmed(t, height, index))

(* Mutant: a block confirms, it does not see.                              *)
ConfirmOnly(m, t, height, index) ==
  ApplyEvent(m, TxConfirmed(t, height, index))

(* One transaction of a block.                                             *)
Confirm(m, t, height, index) ==
  LET confirmed == ApplyEvent(See(m, t, height, "block"), TxConfirmed(t, height, index))
  IN  ApplyEvent(confirmed, Event("WalletCreditConfirmed", t, height))

IndexIn(block, t) == SelectInSeq(block, LAMBDA x : x = t) - 1

ProcessBlock(m, height, block) ==
  FoldLeft(LAMBDA acc, t : IF Parsed(t) THEN Confirm(acc, t, height, IndexIn(block, t)) ELSE acc,
           m, block)

(* Another transaction was the last user of outpoint o.                    *)
Conflict(m, t, o, height) ==
  LET prev == m.user[o]
      event(type) == [type |-> type, tx |-> t, height |-> height, prev |-> prev, outpoint |-> o]
      replaced == IF Seen(m, prev) /\ m.seen[prev].rbf
                  THEN ApplyEvent(m, event("TxReplacedByRbf")) ELSE m
  IN  ApplyEvent(replaced, event("DoubleSpendDetected"))

(* t becomes the last user of its input o, without an event.               *)
UseInput(m, t, o, height) ==
  LET told == IF o \in DOMAIN m.user /\ m.user[o] # t THEN Conflict(m, t, o, height) ELSE m
  IN  [told EXCEPT !.user = Put(@, {o}, t)]

(* One transaction of the mempool: what it touches is compared with what   *)
(* the event just applied has left of it.                                  *)
FeedTx(m, t, tip) ==
  LET seen  == See(m, t, tip, "mempool")
      delta == Touches(t) \ seen.seen[t].touches
      credited == IF delta = {} THEN seen
                  ELSE ApplyEvent(seen, Event("WalletCreditSeen", t, tip))
  IN  FoldLeft(LAMBDA acc, o : UseInput(acc, t, o, tip), credited, Tx[t].vin)

MempoolTick(m, tip, txids) ==
  FoldLeft(LAMBDA acc, t : IF Parsed(t) THEN FeedTx(acc, t, tip) ELSE acc, m, txids)

-----------------------------------------------------------------------------
(* GetAddressSeenQuery.                                                    *)
AddressSeen(m, a) ==
  LET touching == {t \in DOMAIN m.seen : a \in m.seen[t].touches}
  IN  [pending   |-> {t \in touching : m.seen[t].confirmed = None},
       confirmed |-> {t \in touching : m.seen[t].confirmed # None}]

(* The confirmation GetTxStatusQuery answers with.                         *)
ConfirmedAt(m, t) == IF Seen(m, t) THEN m.seen[t].confirmed ELSE None
=============================================================================
