----------------------------- MODULE ChainIndex -----------------------------
(***************************************************************************)
(* What the crawler promises about its database, without queue, handlers,  *)
(* memory or failures: an indexed chain that is only ever extended by      *)
(* linked blocks or cut back to a block it keeps, and, at every moment,    *)
(* user event streams that are exactly what that chain produces.           *)
(***************************************************************************)
EXTENDS Integers, FiniteSets

CONSTANTS Models, Block, Emits, StartHeight

VARIABLES chain, streams

Linked(c) ==
  \A h \in DOMAIN c : /\ c[h].height = h
                      /\ h - 1 \in DOMAIN c => c[h].prev = c[h - 1].hash

(* The stream of model m for chain c: its blocks upwards, versions 1, 2... *)
Stream(m, c) ==
  LET heights == {h \in DOMAIN c : c[h] \in Emits[m]}
  IN  {[version |-> Cardinality({x \in heights : x <= h}), block |-> c[h]] : h \in heights}

Init ==
  /\ chain = [h \in {} |-> h]
  /\ streams = [m \in Models |-> {}]

Extend ==
  /\ Linked(chain')
  /\ \E n \in {Cardinality(DOMAIN chain')} :
       /\ n > Cardinality(DOMAIN chain)
       /\ DOMAIN chain' = StartHeight..(StartHeight + n - 1)
  /\ \A h \in DOMAIN chain : chain'[h] = chain[h]

Rewind ==
  \E h \in DOMAIN chain : chain' = [x \in StartHeight..h |-> chain[x]]

Next ==
  /\ Extend \/ Rewind
  /\ streams' = [m \in Models |-> Stream(m, chain')]

Spec == Init /\ [][Next]_<<chain, streams>>
=============================================================================
