---------------------------- MODULE CompiledModel ----------------------------
(***************************************************************************)
(* A declarative user model, as compileStateModel turns it into a class:   *)
(* instances are restored from the stored events by commands and queries,  *)
(* the sources of the descriptor are called over a block in a fixed order, *)
(* what they emit changes the state at once and is stored when the command *)
(* saves, or dropped when it fails.                                        *)
(*                                                                         *)
(* The user's code is the usual one of a wallet: vout and vin emit an      *)
(* event per output created and spent and return it, tx returns the        *)
(* transaction, block reads the locals.  External: the event store.        *)
(***************************************************************************)
EXTENDS Integers, SequencesExt

CONSTANTS
  Blocks,      (* the blocks of the chain, each a sequence of transactions *)
               (* [txid, vin, vout] over outputs                           *)
  Pool,        (* the transactions of the mempool                          *)
  Descriptors, (* what the operator may register: [state, sources]         *)
  MaxBatch, MaxFailures, MaxReorgs    (* bounds                            *)

(* Mutant: inputs before outputs.                                          *)
InputsFirst == <<"vin", "vout", "tx", "block">>

Phases == <<"vout", "vin", "tx", "block">>

Sources == {"vout", "vin", "tx", "block", "mempool", "mempoolTx"}

(* What the blocks and the mempool name.                                   *)
Transactions == UNION {ToSet(txs) : txs \in ToSet(Blocks) \cup {Pool}}

Txids == {tx.txid : tx \in Transactions}

Outputs == UNION {ToSet(tx.vin) \cup ToSet(tx.vout) : tx \in Transactions}

Transaction == [txid : Txids, vin : Seq(Outputs), vout : Seq(Outputs)]

Actors == {"command", "query"}

ASSUME DescriptorsAssumption ==
  /\ \A d \in Descriptors : d.state \in {"function", "object", "none"} /\ d.sources \subseteq Sources
  /\ MaxBatch \in Nat \ {0} /\ MaxFailures \in Nat /\ MaxReorgs \in Nat

ASSUME BlocksAssumption == Blocks \in Seq(Seq(Transaction)) /\ Pool \in Seq(Transaction)

VARIABLES
  descriptor,  (* the registered declarative model                         *)
  pc,          (* "off", "refused", "idle" or "walking"                    *)
  rows,        (* the model's stored events                                *)
  height,      (* blocks indexed so far                                    *)
  object,      (* the state object inside the descriptor                   *)
  inst,        (* each actor's instance: its state and the events it saw   *)
  job,         (* the running processBlock or mempoolTick                  *)
  failures, reorgs

vars == <<descriptor, pc, rows, height, object, inst, job, failures, reorgs>>

-----------------------------------------------------------------------------
(* What the user's code counts: how often each output is unspent.          *)
InitialState == [o \in Outputs |-> 0]

Reduce(state, e) == [state EXCEPT ![e.out] = @ + (IF e.type = "created" THEN 1 ELSE -1)]

Replay(state, events) == FoldLeft(Reduce, state, events)

(* The events of the blocks up to height h.                                *)
UpTo(events, h) ==
  FoldLeft(LAMBDA kept, e : IF e.height <= h THEN Append(kept, e) ELSE kept, <<>>, events)

(* Mutant: the factory is called once and its result kept.                 *)
AlwaysShared == TRUE

(* asFactory wraps an object in a function that returns this very object.  *)
Shared == descriptor.state = "object"

StateOf(a) == IF Shared THEN object ELSE inst[a].state

NoInstance == [live |-> FALSE, state |-> InitialState, seen |-> <<>>]

(* A new instance into which events are replayed.                          *)
Restore(a, events) ==
  LET state == Replay(IF Shared THEN object ELSE InitialState, events)
  IN  /\ inst' = [inst EXCEPT ![a] = [live |-> TRUE, state |-> state, seen |-> events]]
      /\ object' = IF Shared THEN state ELSE object

Drop(a) == inst' = [inst EXCEPT ![a] = NoInstance]

(* applyEvent: the reducer runs at once on the instance's state.           *)
ApplyEvent(a, e) ==
  LET state == Reduce(StateOf(a), e)
  IN  /\ inst' = [inst EXCEPT ![a].state = state, ![a].seen = Append(@, e)]
      /\ object' = IF Shared THEN state ELSE object

Has(source) == source \in descriptor.sources

NoLocals == [vout |-> <<>>, vin |-> <<>>, tx |-> <<>>]

NoJob == [kind |-> "none", block |-> 0, last |-> 0, phase |-> 0, bag |-> <<>>,
          locals |-> NoLocals, called |-> {}]

Txs == IF job.kind = "tick" THEN Pool ELSE Blocks[job.block]

(* What the walker visits for a source, in the order of the block.         *)
Walk(txs, source) ==
  CASE source = "vout"  -> FlattenSeq([i \in DOMAIN txs |-> txs[i].vout])
    [] source = "vin"   -> FlattenSeq([i \in DOMAIN txs |-> txs[i].vin])
    [] source = "tx"    -> [i \in DOMAIN txs |-> txs[i].txid]
    [] source = "block" -> <<"once">>

(* The chain is a valid one: no output is created twice or spent twice,    *)
(* and none is spent in a block before the one that creates it.            *)
ASSUME ChainAssumption ==
  \A b \in DOMAIN Blocks :
    LET walk(d, source) == Walk(Blocks[d], source)
    IN  /\ \A source \in {"vout", "vin"} :
             /\ IsInjective(walk(b, source))
             /\ \A d \in 1..(b - 1) : ToSet(walk(b, source)) \cap ToSet(walk(d, source)) = {}
        /\ ToSet(walk(b, "vin")) \subseteq UNION {ToSet(walk(d, "vout")) : d \in 1..b}

(* Mutant: nothing is visited backwards.                                   *)
BagForward(txs, source) == Walk(txs, source)

(* Outputs and inputs are collected and visited backwards.                 *)
Bag(txs, source) ==
  IF source \in {"vout", "vin"} THEN Reverse(Walk(txs, source)) ELSE Walk(txs, source)

Ended == job.phase = Len(Phases) /\ job.bag = <<>>

-----------------------------------------------------------------------------
Init ==
  /\ descriptor \in Descriptors
  /\ pc = "off"
  /\ rows = <<>>
  /\ height = 0
  /\ object = InitialState
  /\ inst = [a \in Actors |-> NoInstance]
  /\ job = NoJob
  /\ failures = 0
  /\ reorgs = 0

(* normalizeModels compiles a descriptor with a state, and refuses others. *)
Normalize ==
  /\ pc = "off"
  /\ pc' = IF descriptor.state \in {"function", "object"} THEN "idle" ELSE "refused"
  /\ UNCHANGED <<descriptor, rows, height, object, inst, job, failures, reorgs>>

(* AddBlocksBatch restores the model and starts on its first block.        *)
StartBatch ==
  \E k \in 1..MaxBatch :
    /\ pc = "idle"
    /\ height + k <= Len(Blocks)
    /\ Restore("command", rows)
    /\ job' = [NoJob EXCEPT !.kind = "block", !.block = height + 1, !.last = height + k]
    /\ pc' = "walking"
    /\ UNCHANGED <<descriptor, rows, height, failures, reorgs>>

(* SyncMempool restores the model and calls its mempoolTick.               *)
StartTick ==
  /\ pc = "idle"
  /\ Restore("command", rows)
  /\ job' = [NoJob EXCEPT !.kind = "tick"]
  /\ pc' = "walking"
  /\ UNCHANGED <<descriptor, rows, height, failures, reorgs>>

(* Mutant: one phase too many.                                             *)
EnterPastTheEnd ==
  /\ pc = "walking"
  /\ job.bag = <<>>
  /\ job.phase <= Len(Phases)
  /\ job' = [job EXCEPT !.phase = @ + 1]
  /\ UNCHANGED <<descriptor, pc, rows, height, object, inst, failures, reorgs>>

(* The next phase, empty when the descriptor has no such source.           *)
Enter ==
  LET next == Phases[job.phase + 1]
  IN  /\ pc = "walking"
      /\ job.bag = <<>>
      /\ job.phase < Len(Phases)
      /\ job' = [job EXCEPT !.phase = @ + 1, !.bag = IF Has(next) THEN Bag(Txs, next) ELSE <<>>]
      /\ UNCHANGED <<descriptor, pc, rows, height, object, inst, failures, reorgs>>

(* Mutant: there is always a block to take the height from.                *)
NeverThrows(phase) == FALSE

(* The user's handlers take the height of an event from ctx.block, which a *)
(* mempool tick does not have: they throw a TypeError.                     *)
Throws(phase) == job.kind = "tick" /\ phase \in {"vout", "vin"}

(* What a handler returns goes to the locals, that of block to nobody.     *)
Returned(locals, phase, item) ==
  IF phase = "block" THEN locals ELSE [locals EXCEPT ![phase] = Append(@, item)]

(* One call of the phase's handler.                                        *)
Call ==
  LET phase == Phases[job.phase]
      item  == Head(job.bag)
      event == [type |-> IF phase = "vout" THEN "created" ELSE "spent",
                out |-> item, height |-> job.block]
  IN  /\ pc = "walking"
      /\ job.bag # <<>>
      /\ ~Throws(phase)
      /\ job' = [job EXCEPT !.bag = Tail(@), !.called = @ \cup {phase},
                            !.locals = Returned(@, phase, item)]
      /\ IF phase \in {"vout", "vin"} THEN ApplyEvent("command", event)
         ELSE UNCHANGED <<inst, object>>
      /\ UNCHANGED <<descriptor, pc, rows, height, failures, reorgs>>

(* processBlock of the next block of the batch, on the same instance.      *)
NextBlock ==
  /\ pc = "walking"
  /\ Ended
  /\ job.block < job.last
  /\ job' = [NoJob EXCEPT !.kind = "block", !.block = job.block + 1, !.last = job.last]
  /\ UNCHANGED <<descriptor, pc, rows, height, object, inst, failures, reorgs>>

(* The command saves the events its instance has emitted.                  *)
Save ==
  /\ pc = "walking"
  /\ Ended
  /\ job.block = job.last
  /\ rows' = inst["command"].seen
  /\ height' = IF job.kind = "block" THEN job.last ELSE height
  /\ Drop("command")
  /\ job' = NoJob
  /\ pc' = "idle"
  /\ UNCHANGED <<descriptor, object, failures, reorgs>>

(* The command rejects; nothing takes back what happened to the state.     *)
Abort ==
  /\ pc' = "idle"
  /\ job' = NoJob
  /\ Drop("command")
  /\ UNCHANGED <<descriptor, rows, height, object, reorgs>>

HandlerThrows ==
  /\ pc = "walking"
  /\ job.bag # <<>>
  /\ Throws(Phases[job.phase])
  /\ Abort
  /\ UNCHANGED failures

(* Another model, the node or the store fails during the command.          *)
Fail ==
  /\ pc = "walking"
  /\ failures < MaxFailures
  /\ failures' = failures + 1
  /\ Abort

(* The rows of abandoned blocks are deleted.                               *)
Reorganise ==
  \E h \in 0..(height - 1) :
    /\ pc = "idle"
    /\ reorgs < MaxReorgs
    /\ reorgs' = reorgs + 1
    /\ rows' = UpTo(rows, h)
    /\ height' = h
    /\ UNCHANGED <<descriptor, pc, object, inst, job, failures>>

(* GetModels restores a copy of its own, up to a height, at any time.      *)
Query ==
  \E h \in 0..height :
    /\ pc \in {"idle", "walking"}
    /\ ~inst["query"].live
    /\ Restore("query", UpTo(rows, h))
    /\ UNCHANGED <<descriptor, pc, rows, height, job, failures, reorgs>>

Answer ==
  /\ inst["query"].live
  /\ Drop("query")
  /\ UNCHANGED <<descriptor, pc, rows, height, object, job, failures, reorgs>>

Next == \/ Normalize \/ StartBatch \/ StartTick \/ Enter \/ Call \/ NextBlock
        \/ Save \/ HandlerThrows \/ Fail \/ Reorganise \/ Query \/ Answer

Spec == Init /\ [][Next]_vars

-----------------------------------------------------------------------------
Event == [type : {"created", "spent"}, out : Outputs, height : 0..Len(Blocks)]

(* Every variable holds a value of its kind.                               *)
TypeOK ==
  /\ descriptor \in Descriptors
  /\ pc \in {"off", "refused", "idle", "walking"}
  /\ rows \in Seq(Event)
  /\ height \in 0..Len(Blocks)
  /\ object \in [Outputs -> Int]
  /\ inst \in [Actors -> [live : BOOLEAN, state : [Outputs -> Int], seen : Seq(Event)]]
  /\ job.kind \in {"none", "block", "tick"} /\ job.phase \in 0..Len(Phases)
  /\ job.block \in 0..job.last /\ job.last \in 0..Len(Blocks)
  /\ job.called \subseteq ToSet(Phases)
  /\ failures \in 0..MaxFailures /\ reorgs \in 0..MaxReorgs

(* The state of every instance is the replay of the events it has seen on  *)
(* the initial state, and of no others: neither of earlier restores, of    *)
(* commands that failed, nor of the other actor's.                         *)
RestoredIsReplay ==
  \A a \in Actors : inst[a].live => StateOf(a) = Replay(InitialState, inst[a].seen)

(* A model that follows both never sees an output spent before it was      *)
(* created or created twice, even when a block spends its own outputs.     *)
NeverOverspent ==
  Has("vout") =>
    \A a \in Actors : inst[a].live => \A o \in Outputs : StateOf(a)[o] \in {0, 1}

(* The comment above compileStateModel: vout and vin backwards, then tx    *)
(* forwards; when the block handler is called the locals hold all of it.   *)
LocalsComplete ==
  job.kind = "block" /\ job.phase = Len(Phases) =>
    /\ Has("vout") => Reverse(job.locals.vout) = Walk(Blocks[job.block], "vout")
    /\ Has("vin") => Reverse(job.locals.vin) = Walk(Blocks[job.block], "vin")
    /\ Has("tx") => job.locals.tx = Walk(Blocks[job.block], "tx")

(* The events of a block: all it creates, then all it spends.              *)
EventsOf(h) ==
  LET events(type, source) ==
        LET outs == Reverse(Walk(Blocks[h], source))
        IN  IF Has(source)
            THEN [i \in DOMAIN outs |-> [type |-> type, out |-> outs[i], height |-> h]]
            ELSE <<>>
  IN  events("created", "vout") \o events("spent", "vin")

(* The stored events are those of the indexed blocks, block after block:   *)
(* failed batches, mempool ticks and reorganisations leave nothing behind. *)
RowsAreChain == rows = FlattenSeq([h \in 1..height |-> EventsOf(h)])

(* The comment above mempoolTick: a tick calls the mempool handler once,   *)
(* if there is one.                                                        *)
MempoolHandlersCalled ==
  job.kind = "tick" /\ Ended /\ Has("mempool") => "mempool" \in job.called
=============================================================================
