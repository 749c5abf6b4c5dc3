---------------------------- MODULE MempoolCycle ----------------------------
(***************************************************************************)
(* The mempool side of the crawler.  InitMempool starts the loader, which  *)
(* locks itself and hands a snapshot of the node's mempool to              *)
(* RefreshMempool; the events then drive SyncMempool in a loop, one load   *)
(* of transactions and one tick of the user models at a time, until the    *)
(* last event unlocks the loader.  Meanwhile AddBlocksBatch works on the   *)
(* same user models: it adds blocks to them or, if the node has another    *)
(* chain, deletes what they stored above the common block, the events of   *)
(* ticks included.  An event handler that fails crashes the process.       *)
(*                                                                         *)
(* The user model is one that reports each transaction of the mempool and  *)
(* each block once.  External: the Mempool aggregate, the loader, the      *)
(* event store, the node, and the command bus: the code does not say       *)
(* whether it runs one command at a time, so both are allowed.             *)
(***************************************************************************)
EXTENDS Integers, FiniteSetsExt, SequencesExt

CONSTANTS
  Txids,         (* transactions the node may have, above the minimum fee  *)
  Undefined,
  StartHeights,  (* values START_BLOCK_HEIGHT may have                     *)
  Tips,          (* what the mempool's provider may take for the chain's   *)
                 (* height                                                 *)
  MaxLoad,       (* most transactions one sync loads                       *)
  MaxBatch,      (* most blocks of a batch                                 *)
  MaxBlocks, MaxChanges, MaxFailures, MaxCrashes    (* bounds              *)

ASSUME MempoolAssumption ==
  /\ IsFiniteSet(Txids) /\ \A t \in Txids : t \notin Nat \X Nat
  /\ StartHeights \subseteq Nat \cup {Undefined}
  /\ Tips \subseteq Int
  /\ {MaxLoad, MaxBatch} \subseteq Nat \ {0}
  /\ {MaxBlocks, MaxChanges, MaxFailures, MaxCrashes} \subseteq Nat

VARIABLES
  startHeight,  (* START_BLOCK_HEIGHT                                      *)
  exclusive,    (* the command bus runs one command at a time              *)
  pool,         (* the node's mempool                                      *)
  mempool,      (* the stored Mempool aggregate                            *)
  height,       (* the stored Network's height                             *)
  rows,         (* the stored events of the user model                     *)
  bus,          (* published events whose handlers have not run            *)
  pc,           (* "off", "up", or "dying": a crash is on its way          *)
  loader,       (* MempoolLoaderService                                    *)
  network,      (* "off", or what InitNetwork has come to                  *)
  refresh,      (* the running RefreshMempool: its snapshot                *)
  sync,         (* the running SyncMempool                                 *)
  block,        (* the running AddBlocksBatch                              *)
  apart,        (* a tick has stored events at another height than the     *)
                (* Network's                                               *)
  spent         (* faults and blocks so far                                *)

config   == <<startHeight, exclusive>>
stored   == <<mempool, rows, height, apart>>
commands == <<refresh, sync, block>>
process  == <<bus, pc, loader, network, commands>>
vars == <<config, pool, stored, process, spent>>

-----------------------------------------------------------------------------
Faults == {"changes", "failures", "crashes", "blocks"}

Spend(what, bound) ==
  spent[what] < bound /\ spent' = [spent EXCEPT ![what] = @ + 1]

NoMempool == [known |-> {}, loaded |-> {}, height |-> -1]

(* loaded: what sync has loaded; base: the restored user model; new: what  *)
(* it has emitted since.                                                   *)
NoCommand == [phase |-> "idle", loaded |-> {}, base |-> {}, new |-> {}]

NoRefresh == [phase |-> "idle", txids |-> {}]

(* Mutant: createNewModel without getOne.                                  *)
RestoreNothing == {}

(* getOne: the user model as its stored events make it.                    *)
RestoreModel == rows

LastVersion(S) == Max({r.version : r \in S} \cup {0})

Reported(S) == {r.what : r \in S}

(* The user model applies an event at height h for each of these.          *)
Emit(S, whats, h) ==
  {[version |-> LastVersion(S) + i, what |-> SetToSeq(whats)[i], height |-> h] :
     i \in 1..Cardinality(whats)}

Handle(event) == bus # <<>> /\ Head(bus) = event /\ bus' = Tail(bus)

MayRun ==
  /\ pc # "off"
  /\ exclusive => network # "busy" /\ {refresh.phase, sync.phase, block.phase} = {"idle"}

Missing == mempool.known \ mempool.loaded

-----------------------------------------------------------------------------
Init ==
  /\ startHeight \in StartHeights
  /\ exclusive \in BOOLEAN
  /\ pool \in SUBSET Txids
  /\ mempool = NoMempool
  /\ rows = {}
  /\ height = -1
  /\ apart = FALSE
  /\ bus = <<>>
  /\ pc = "off"
  /\ loader = [started |-> FALSE, locked |-> FALSE]
  /\ network = "off"
  /\ refresh = NoRefresh
  /\ sync = NoCommand
  /\ block = NoCommand
  /\ spent = [f \in Faults |-> 0]

(* Transactions enter and leave the node's mempool.                        *)
NodeChanges ==
  /\ Spend("changes", MaxChanges)
  /\ pool' \in SUBSET Txids \ {pool}
  /\ UNCHANGED <<config, stored, process>>

(* Mutant: the start height is not looked at.                              *)
InitMempoolAlways ==
  /\ pc = "off"
  /\ pc' = "up"
  /\ bus' = Append(bus, "Initialized")
  /\ \E tip \in Tips : mempool' \in {[m EXCEPT !.height = tip] : m \in {mempool, NoMempool}}
  /\ UNCHANGED <<config, pool, rows, height, apart, loader, network, commands, spent>>

(* InitMempool, at start.  A START_BLOCK_HEIGHT is refused, and the        *)
(* process exits, only if it is truthy.  Whether Mempool.init forgets the  *)
(* snapshot of the last process is the library's.                          *)
InitMempool ==
  /\ pc = "off"
  /\ startHeight \in {Undefined, 0}
  /\ pc' = "up"
  /\ bus' = Append(bus, "Initialized")
  /\ \E tip \in Tips : mempool' \in {[m EXCEPT !.height = tip] : m \in {mempool, NoMempool}}
  /\ UNCHANGED <<config, pool, rows, height, apart, loader, network, commands, spent>>

(* The handler starts the loader, then waits for InitNetwork.              *)
OnInitialized ==
  /\ Handle("Initialized")
  /\ loader' = [loader EXCEPT !.started = TRUE]
  /\ network' = "waiting"
  /\ UNCHANGED <<config, pool, stored, pc, commands, spent>>

StartInitNetwork ==
  /\ MayRun
  /\ network = "waiting"
  /\ network' = "busy"
  /\ UNCHANGED <<config, pool, stored, bus, pc, loader, commands, spent>>

InitNetwork ==
  /\ network = "busy"
  /\ network' = "up"
  /\ UNCHANGED <<config, pool, stored, bus, pc, loader, commands, spent>>

(* It rejects; so does the handler that awaits it.                         *)
InitNetworkFails ==
  /\ network = "busy"
  /\ Spend("failures", MaxFailures)
  /\ network' = "off"
  /\ pc' = "dying"
  /\ UNCHANGED <<config, pool, stored, bus, loader, commands>>

-----------------------------------------------------------------------------
(* Mutant: the loader does not wait for the end of the sync.               *)
SnapshotAnyTime ==
  /\ MayRun
  /\ loader.started
  /\ refresh.phase = "idle"
  /\ loader' = [loader EXCEPT !.locked = TRUE]
  /\ refresh' = [phase |-> "restored", txids |-> pool]
  /\ UNCHANGED <<config, pool, stored, bus, pc, network, sync, block, spent>>

(* The loader locks itself and awaits RefreshMempool on a snapshot.        *)
Snapshot ==
  /\ MayRun
  /\ loader.started
  /\ ~loader.locked
  /\ loader' = [loader EXCEPT !.locked = TRUE]
  /\ refresh' = [phase |-> "restored", txids |-> pool]
  /\ UNCHANGED <<config, pool, stored, bus, pc, network, sync, block, spent>>

(* mempoolModel.refresh and save, with the height of the provider.         *)
Refresh ==
  /\ refresh.phase = "restored"
  /\ \E tip \in Tips :
       mempool' = [known |-> refresh.txids, loaded |-> mempool.loaded \cap refresh.txids,
                   height |-> tip]
  /\ bus' = Append(bus, "Refreshed")
  /\ refresh' = NoRefresh
  /\ UNCHANGED <<config, pool, rows, height, apart, pc, loader, network, sync, block, spent>>

(* RefreshMempool rejects: the loader lets go and tries again later.       *)
RefreshFails ==
  /\ refresh.phase = "restored"
  /\ Spend("failures", MaxFailures)
  /\ refresh' = NoRefresh
  /\ loader' = [loader EXCEPT !.locked = FALSE]
  /\ UNCHANGED <<config, pool, stored, bus, pc, network, sync, block>>

(* Refreshed and SyncProcessed have the same handler: it runs SyncMempool, *)
(* which restores the Mempool and the user models.                         *)
StartSync ==
  /\ MayRun
  /\ sync.phase = "idle"
  /\ Handle("Refreshed") \/ Handle("SyncProcessed")
  /\ sync' = [NoCommand EXCEPT !.phase = "restored", !.loaded = mempool.loaded,
                               !.base = RestoreModel]
  /\ UNCHANGED <<config, pool, stored, pc, loader, network, refresh, block, spent>>

(* mempoolModel.sync loads some of what is missing, if anything is.        *)
LoadTransactions ==
  \E new \in SUBSET Missing :
    /\ sync.phase = "restored"
    /\ Cardinality(new) <= MaxLoad
    /\ Missing # {} => new # {}
    /\ sync' = [sync EXCEPT !.phase = "loaded", !.loaded = @ \cup new]
    /\ UNCHANGED <<config, pool, stored, bus, pc, loader, network, refresh, block, spent>>

(* Mutant: mempoolTick is not called.                                      *)
NoTick ==
  /\ sync.phase = "loaded"
  /\ sync' = [sync EXCEPT !.phase = "ticked"]
  /\ UNCHANGED <<config, pool, stored, bus, pc, loader, network, refresh, block, spent>>

(* mempoolTick: the model goes through the loaded transactions.  It reads  *)
(* them from ctx.mempool, hence from the store: what this sync has loaded  *)
(* is not among them.  So is the height it gives its events.               *)
Tick ==
  /\ sync.phase = "loaded"
  /\ sync' = [sync EXCEPT !.phase = "ticked",
                          !.new = Emit(sync.base, mempool.loaded \ Reported(sync.base),
                                       mempool.height)]
  /\ UNCHANGED <<config, pool, stored, bus, pc, loader, network, refresh, block, spent>>

(* Mutant: one load completes a sync.                                      *)
OneLoadIsAll(loaded) == "Synchronized"

(* What Mempool.sync emits: a batch of transactions, or the end.           *)
SyncEvent(loaded) == IF loaded # mempool.loaded THEN "SyncProcessed" ELSE "Synchronized"

(* Both are saved in one transaction, and the event is published.          *)
SaveSync ==
  /\ sync.phase = "ticked"
  /\ mempool' = [mempool EXCEPT !.loaded = sync.loaded]
  /\ rows' = rows \cup sync.new
  /\ apart' = (apart \/ \E r \in sync.new : r.height # height)
  /\ bus' = Append(bus, SyncEvent(sync.loaded))
  /\ sync' = NoCommand
  /\ UNCHANGED <<config, pool, height, pc, loader, network, refresh, block, spent>>

(* The node, a user model or the store fails: SyncMempool rejects, and so  *)
(* does the event handler that awaits it.                                  *)
SyncFails ==
  /\ sync.phase # "idle"
  /\ Spend("failures", MaxFailures)
  /\ sync' = NoCommand
  /\ pc' = "dying"
  /\ UNCHANGED <<config, pool, stored, bus, loader, network, refresh, block>>

(* Mutant: the handler does not unlock.                                    *)
OnSynchronizedNoUnlock ==
  /\ Handle("Synchronized")
  /\ UNCHANGED <<config, pool, stored, pc, loader, network, commands, spent>>

OnSynchronized ==
  /\ Handle("Synchronized")
  /\ loader' = [loader EXCEPT !.locked = FALSE]
  /\ UNCHANGED <<config, pool, stored, pc, network, commands, spent>>

-----------------------------------------------------------------------------
(* Mutant: AddBlocksBatch works on new models.                             *)
StartBlockOnNewModels ==
  /\ MayRun
  /\ network = "up"
  /\ block.phase = "idle"
  /\ Spend("blocks", MaxBlocks)
  /\ block' = [NoCommand EXCEPT !.phase = "restored", !.base = RestoreNothing]
  /\ UNCHANGED <<config, pool, stored, bus, pc, loader, network, refresh, sync>>

(* AddBlocksBatch on the same models (what it finds in the chain is in     *)
(* BlockIngestion).                                                        *)
StartBlock ==
  /\ MayRun
  /\ network = "up"
  /\ block.phase = "idle"
  /\ Spend("blocks", MaxBlocks)
  /\ block' = [NoCommand EXCEPT !.phase = "restored", !.base = RestoreModel]
  /\ UNCHANGED <<config, pool, stored, bus, pc, loader, network, refresh, sync>>

(* The user model applies an event for each of the k blocks of a batch.    *)
Batch(k) ==
  {[version |-> LastVersion(block.base) + i, what |-> <<spent["blocks"], i>>,
    height |-> height + i] : i \in 1..k}

(* The chain goes on: the user model is saved with the Network.            *)
SaveBlock ==
  /\ block.phase = "restored"
  /\ \E k \in 1..MaxBatch : rows' = rows \cup Batch(k) /\ height' = height + k
  /\ block' = NoCommand
  /\ UNCHANGED <<config, pool, mempool, apart, bus, pc, loader, network, refresh, sync, spent>>

(* The node has another chain: whatever the user models have stored above  *)
(* the block to which the Network walks back is deleted, whichever command *)
(* stored it.                                                              *)
ReorganiseBlocks ==
  /\ block.phase = "restored"
  /\ \E h \in 0..height : /\ rows' = {r \in rows : r.height <= h}
                          /\ height' = h
  /\ block' = NoCommand
  /\ UNCHANGED <<config, pool, mempool, apart, bus, pc, loader, network, refresh, sync, spent>>

(* AddBlocksBatch rejects; the queue hands the batch out again.            *)
BlockFails ==
  /\ block.phase = "restored"
  /\ Spend("failures", MaxFailures)
  /\ block' = NoCommand
  /\ UNCHANGED <<config, pool, stored, bus, pc, loader, network, refresh, sync>>

(* The process dies, now or a turn of the loop after a handler has failed. *)
Crash ==
  /\ \/ pc = "dying" /\ UNCHANGED spent
     \/ pc = "up" /\ Spend("crashes", MaxCrashes)
  /\ pc' = "off"
  /\ bus' = <<>>
  /\ loader' = [started |-> FALSE, locked |-> FALSE]
  /\ network' = "off"
  /\ refresh' = NoRefresh
  /\ sync' = NoCommand
  /\ block' = NoCommand
  /\ UNCHANGED <<config, pool, stored>>

Next ==
  \/ NodeChanges \/ Crash
  \/ InitMempool \/ OnInitialized \/ StartInitNetwork \/ InitNetwork \/ InitNetworkFails
  \/ Snapshot \/ Refresh \/ RefreshFails
  \/ StartSync \/ LoadTransactions \/ Tick \/ SaveSync \/ SyncFails \/ OnSynchronized
  \/ StartBlock \/ SaveBlock \/ ReorganiseBlocks \/ BlockFails

Spec == Init /\ [][Next]_vars

(* A supervisor restarts the process, and a dying one dies.  A ready task  *)
(* of the event loop runs: the handler of the next event, the loader's     *)
(* timer, and each command to its end.                                     *)
FairSpec ==
  /\ Spec
  /\ WF_vars(InitMempool \/ (Crash /\ pc = "dying"))
  /\ WF_vars(OnInitialized \/ StartSync \/ OnSynchronized)
  /\ WF_vars(StartInitNetwork \/ InitNetwork)
  /\ WF_vars(Snapshot \/ Refresh)
  /\ WF_vars(LoadTransactions \/ Tick \/ SaveSync)
  /\ WF_vars(SaveBlock)

-----------------------------------------------------------------------------
Row == [version : Nat \ {0}, what : Txids \cup ((1..MaxBlocks) \X (1..MaxBatch)), height : Int]

Phases == {"idle", "restored", "loaded", "ticked"}

Command == [phase : Phases, loaded : SUBSET Txids, base : SUBSET Row, new : SUBSET Row]

(* Every variable holds a value of its kind; a running process has a start *)
(* height it accepts.                                                      *)
TypeOK ==
  /\ startHeight \in (IF pc = "off" THEN StartHeights ELSE {Undefined, 0})
  /\ exclusive \in BOOLEAN
  /\ pool \subseteq Txids
  /\ mempool \in [known : SUBSET Txids, loaded : SUBSET Txids, height : Int]
  /\ mempool.loaded \subseteq mempool.known
  /\ rows \subseteq Row
  /\ height \in Int /\ apart \in BOOLEAN
  /\ bus \in Seq({"Initialized", "Refreshed", "SyncProcessed", "Synchronized"})
  /\ pc \in {"off", "up", "dying"}
  /\ loader \in [started : BOOLEAN, locked : BOOLEAN]
  /\ network \in {"off", "waiting", "busy", "up"}
  /\ refresh \in [phase : Phases, txids : SUBSET Txids]
  /\ sync \in Command /\ block \in Command
  /\ spent \in [Faults -> Nat] /\ spent["blocks"] <= MaxBlocks

(* What is under way for the loader's snapshot.                            *)
UnderWay ==
  Cardinality({i \in DOMAIN bus : bus[i] # "Initialized"})
  + (IF refresh.phase = "idle" THEN 0 ELSE 1) + (IF sync.phase = "idle" THEN 0 ELSE 1)

(* One thing at a time happens to the Mempool, whoever does it: while the  *)
(* loader is locked either a refresh, a sync, or an event that leads to    *)
(* the next one is under way (unless the process is about to die), and     *)
(* nothing is while it is not: no refresh meets a sync, no sync another.   *)
LockHasOwner ==
  /\ UnderWay <= 1
  /\ ~loader.locked => UnderWay = 0
  /\ pc = "up" /\ loader.locked => UnderWay = 1

(* Synchronized means what it says: all of the snapshot has been loaded.   *)
SynchronizedComplete == Contains(bus, "Synchronized") => Missing = {}

(* If commands do not overlap, no two events of the user model have the    *)
(* same version, whichever commands stored them and whatever rollbacks     *)
(* deleted in between.  The versions have no hole either, as long as ticks *)
(* store at the Network's height: otherwise a rollback to a height between *)
(* may delete an event and keep a later one.                               *)
VersionsStrict ==
  exclusive => /\ \A r, s \in rows : r.version = s.version => r = s
               /\ ~apart => {r.version : r \in rows} = 1..Cardinality(rows)

(* The model reports nothing twice, over syncs, failures, restarts and     *)
(* rollbacks that delete a part of what it reported, even if commands      *)
(* overlap.                                                                *)
ReportedOnce == \A r, s \in rows : r.what = s.what => r = s

(* The loader is unlocked again and again, whatever fails.                 *)
LockReleased == []<>(~loader.locked)

(* In the end the user models have heard of all that stays in the mempool, *)
(* though no tick sees what its own sync loads, and rollbacks delete what  *)
(* ticks have stored.                                                      *)
PoolReported == <>[](startHeight \in {Undefined, 0} => pool \subseteq Reported(rows))
=============================================================================
