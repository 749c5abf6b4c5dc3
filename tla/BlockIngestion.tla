--------------------------- MODULE BlockIngestion ---------------------------
(***************************************************************************)
(* The block pipeline of the crawler: the blocks queue hands a batch to    *)
(* AddBlocksBatchCommandHandler, which restores the Network aggregate and  *)
(* the user models, validates the batch, runs every model over every       *)
(* block and saves all of it in one transaction; the published event is    *)
(* what lets the queue go on.  A batch that does not link to the stored    *)
(* chain starts a reorganisation instead: a walk back to the fork, then    *)
(* one rollback transaction.  The process may crash between any two steps  *)
(* and the node may change its chain at any time.                          *)
(*                                                                         *)
(* External to src/ and modelled from how src/ uses it: the Network        *)
(* aggregate and BlocksQueueService of @easylayer/bitcoin, the event store *)
(* of @easylayer/common, and the node.                                     *)
(***************************************************************************)
EXTENDS Integers, Sequences

CONSTANTS
  Models,             (* the user models the operator registered           *)
  Chains,             (* the chains the node may report, height 0 first    *)
  Emits,              (* Emits[m]: the blocks model m emits an event for   *)
  StartHeight,        (* START_BLOCK_HEIGHT                                *)
  MaxSize,            (* blocks the Network aggregate keeps in its window  *)
  MaxBatch,           (* most blocks in one batch of the queue iterator    *)
  MaxQueue,           (* most blocks the loader keeps ahead                *)
  MaxMoves, MaxFailures, MaxCrashes   (* bounds on what goes wrong         *)

Block == UNION {{c[i] : i \in 1..Len(c)} : c \in Chains}

ASSUME ChainsAssumption ==
  \A c \in Chains : /\ c \in Seq([height : Nat, hash : STRING, prev : STRING])
                    /\ \A i \in 1..Len(c) : c[i].height = i - 1

ASSUME BoundsAssumption ==
  /\ StartHeight \in Nat
  /\ MaxSize \in Nat \ {0}
  /\ MaxBatch \in Nat \ {0}
  /\ MaxQueue \in Nat \ {0}
  /\ MaxMoves \in Nat /\ MaxFailures \in Nat /\ MaxCrashes \in Nat

VARIABLES
  node,          (* the node's current best chain                          *)
  network,       (* the stored Network aggregate                           *)
  rows,          (* rows[m]: the stored events of user model m             *)
  bus,           (* published events whose handlers have not run           *)
  queue,         (* BlocksQueueService                                     *)
  pc,            (* where the process and its one command handler are      *)
  networkModel,  (* the handler's in-memory Network                        *)
  models,        (* the handler's in-memory user models                    *)
  cursor,        (* next block of the batch, or height of the walk back    *)
  spent          (* what the bounds have been spent on                     *)

store   == <<network, rows>>
memory  == <<networkModel, models, cursor>>
vars    == <<node, store, bus, queue, pc, memory, spent>>

-----------------------------------------------------------------------------
(* The Network aggregate: the height it has reached, the lowest height     *)
(* still in its window, and every block indexed since StartHeight.         *)

IsNetwork(n) ==
  /\ n = [height |-> n.height, lo |-> n.lo, chain |-> n.chain]
  /\ n.height \in Int /\ n.lo \in Nat
  /\ n.chain \in [StartHeight..n.height -> Block]

NewNetwork == [height |-> -1, lo |-> StartHeight, chain |-> [h \in {} |-> h]]

HasBlock(n, h) == n.lo <= h /\ h <= n.height

(* Mutant: only the heights are compared.                                  *)
ContinuesByHeight(n, batch) ==
  \A i \in 1..Len(batch) : batch[i].height = n.height + i

(* addBlocks refuses a batch that does not continue the chain, block by    *)
(* block; with no block in the window only the height is known.            *)
Continues(n, batch) ==
  \A i \in 1..Len(batch) :
    /\ batch[i].height = n.height + i
    /\ IF i > 1 THEN batch[i].prev = batch[i - 1].hash
       ELSE HasBlock(n, n.height) => batch[i].prev = n.chain[n.height].hash

AddBlocks(n, batch) ==
  LET top    == n.height + Len(batch)
      oldest == top - MaxSize + 1
  IN  [height |-> top,
       lo     |-> IF oldest > n.lo THEN oldest ELSE n.lo,
       chain  |-> [h \in StartHeight..top |->
                     IF h <= n.height THEN n.chain[h] ELSE batch[h - n.height]]]

(* Mutant: the height goes back, the blocks stay.                          *)
TruncateKeepsBlocks(n, h) == [n EXCEPT !.height = h]

Truncate(n, h) ==
  [height |-> h, lo |-> n.lo, chain |-> [x \in StartHeight..h |-> n.chain[x]]]

(* The stored event rows of one user model.                                *)
Row == [version : Nat, block : Block]

LastVersion(S) ==
  IF S = {} THEN 0
  ELSE CHOOSE v \in {r.version : r \in S} : \A r \in S : r.version <= v

(* processBlock of one model: an event, with the next version, or nothing. *)
Apply(m, S, b) ==
  IF b \in Emits[m] THEN S \cup {[version |-> LastVersion(S) + 1, block |-> b]} ELSE S

UpTo(S, h) == {r \in S : r.block.height <= h}

ClosedQueue == [open |-> FALSE, last |-> -1, blocks |-> <<>>, inFlight |-> 0]

Batch == SubSeq(queue.blocks, 1, queue.inFlight)

Faults == {"moves", "failures", "crashes"}

Spend(what, bound) ==
  spent[what] < bound /\ spent' = [spent EXCEPT ![what] = @ + 1]

-----------------------------------------------------------------------------
Init ==
  /\ node \in Chains
  /\ network = NewNetwork
  /\ rows = [m \in Models |-> {}]
  /\ bus = <<>>
  /\ queue = ClosedQueue
  /\ pc = "off"
  /\ networkModel = network
  /\ models = rows
  /\ cursor = 0
  /\ spent = [f \in Faults |-> 0]

(* The node adopts another chain, longer or (failing over to a provider    *)
(* that lags behind) not.                                                  *)
NodeMoves ==
  \E c \in Chains \ {node} :
    /\ Spend("moves", MaxMoves)
    /\ node' = c
    /\ UNCHANGED <<store, bus, queue, pc, memory>>

(* Start or restart: InitNetwork stores the height to go on from.          *)
InitNetwork ==
  LET start == IF network.height < 0 THEN StartHeight - 1 ELSE network.height
  IN  /\ pc = "off"
      /\ pc' = "idle"
      /\ network' = [network EXCEPT !.height = start]
      /\ networkModel' = network'
      /\ bus' = Append(bus, [type |-> "Initialized", height |-> start])
      /\ UNCHANGED <<node, rows, queue, models, cursor, spent>>

(* The loader fetches the next block from the node.                        *)
Load ==
  LET next == queue.last + 1
  IN  /\ queue.open
      /\ Len(queue.blocks) < MaxQueue
      /\ next < Len(node)
      /\ queue' = [queue EXCEPT !.last = next, !.blocks = Append(@, node[next + 1])]
      /\ UNCHANGED <<node, store, bus, pc, memory, spent>>

(* Mutant: the next batch does not wait for the confirmation.              *)
DispatchAtOnce(k) ==
  /\ pc = "idle"
  /\ queue.open
  /\ k <= Len(queue.blocks)
  /\ queue' = [queue EXCEPT !.inFlight = k]

(* The iterator takes a prefix of the queue and runs the command on it.    *)
Dispatch(k) ==
  /\ pc = "idle"
  /\ queue.open
  /\ queue.inFlight = 0
  /\ k <= Len(queue.blocks)
  /\ queue' = [queue EXCEPT !.inFlight = k]

(* Restore Network and models; addBlocks accepts the batch.                *)
AcceptBatch ==
  \E k \in 1..MaxBatch :
    /\ Dispatch(k)
    /\ LET batch == SubSeq(queue.blocks, 1, k)
       IN  /\ Continues(network, batch)
           /\ networkModel' = AddBlocks(network, batch)
    /\ models' = rows
    /\ cursor' = 1
    /\ pc' = "processing"
    /\ UNCHANGED <<node, store, bus, spent>>

(* addBlocks throws BlockchainValidationError: the catch restores Network  *)
(* again, takes fresh user models and starts the walk at the last height.  *)
RejectBatch ==
  \E k \in 1..MaxBatch :
    /\ Dispatch(k)
    /\ ~Continues(network, SubSeq(queue.blocks, 1, k))
    /\ networkModel' = network
    /\ models' = [m \in Models |-> {}]
    /\ cursor' = network.height
    /\ pc' = "reorganising"
    /\ UNCHANGED <<node, store, bus, spent>>

(* One turn of the loop over the batch: every model sees the block.        *)
ProcessBlock ==
  /\ pc = "processing"
  /\ cursor <= queue.inFlight
  /\ models' = [m \in Models |-> Apply(m, models[m], Batch[cursor])]
  /\ cursor' = cursor + 1
  /\ UNCHANGED <<node, store, bus, queue, pc, networkModel, spent>>

(* Mutant: the user models are saved without the Network.                  *)
SaveModelsOnly ==
  /\ pc = "processing"
  /\ cursor > queue.inFlight
  /\ rows' = [m \in Models |-> rows[m] \cup models[m]]
  /\ bus' = Append(bus, [type |-> "BlocksAdded", blocks |-> Batch])
  /\ pc' = "idle"
  /\ UNCHANGED <<node, network, queue, memory, spent>>

(* eventStore.save([...models, networkModel]): one transaction, and the    *)
(* Network's event is published.                                           *)
Save ==
  /\ pc = "processing"
  /\ cursor > queue.inFlight
  /\ rows' = [m \in Models |-> rows[m] \cup models[m]]
  /\ network' = networkModel
  /\ bus' = Append(bus, [type |-> "BlocksAdded", blocks |-> Batch])
  /\ pc' = "idle"
  /\ UNCHANGED <<node, queue, memory, spent>>

(* Network.reorganisation compares its block at one height with the        *)
(* node's, one request at a time.                                          *)
WalkBack ==
  /\ pc = "reorganising"
  /\ HasBlock(networkModel, cursor) /\ cursor < Len(node)
  /\ IF node[cursor + 1].hash = networkModel.chain[cursor].hash
     THEN /\ networkModel' = Truncate(networkModel, cursor)
          /\ pc' = "rollingBack"
          /\ UNCHANGED cursor
     ELSE /\ cursor' = cursor - 1
          /\ UNCHANGED <<networkModel, pc>>
  /\ UNCHANGED <<node, store, bus, queue, models, spent>>

(* Mutant: the rollback height is taken before the walk back.              *)
RollbackToOldHeight ==
  /\ pc = "rollingBack"
  /\ rows' = [m \in Models |-> UpTo(rows[m], network.height)]
  /\ models' = rows'
  /\ network' = networkModel
  /\ bus' = Append(bus, [type |-> "Reorganized", height |-> networkModel.height])
  /\ pc' = "idle"
  /\ UNCHANGED <<node, queue, networkModel, cursor, spent>>

(* eventStore.rollback: user rows above the fork go and the Reorganized    *)
(* event is appended to the Network's log, in one transaction.             *)
Rollback ==
  /\ pc = "rollingBack"
  /\ rows' = [m \in Models |-> UpTo(rows[m], networkModel.height)]
  /\ models' = rows'
  /\ network' = networkModel
  /\ bus' = Append(bus, [type |-> "Reorganized", height |-> networkModel.height])
  /\ pc' = "idle"
  /\ UNCHANGED <<node, queue, networkModel, cursor, spent>>

(* Mutant: a rejected command does not unlock its batch.                   *)
RejectKeepsBatch ==
  /\ pc' = "idle"
  /\ networkModel' = network
  /\ models' = rows
  /\ UNCHANGED <<node, store, bus, queue, cursor>>

(* The command rejects: nothing in memory survives, the queue will hand    *)
(* the batch out again.                                                    *)
Reject ==
  /\ pc' = "idle"
  /\ queue' = [queue EXCEPT !.inFlight = 0]
  /\ networkModel' = network
  /\ models' = rows
  /\ UNCHANGED <<node, store, bus, cursor>>

(* A model throws, a transaction fails or the provider does not answer.    *)
CommandFails ==
  /\ pc \in {"processing", "reorganising", "rollingBack"}
  /\ Spend("failures", MaxFailures)
  /\ Reject

(* The walk meets a height where one side has no block.                    *)
WalkBackFails ==
  /\ pc = "reorganising"
  /\ ~(HasBlock(networkModel, cursor) /\ cursor < Len(node))
  /\ Reject
  /\ UNCHANGED spent

(* The event handlers, each a call into the queue.                         *)
Handle(type) == bus # <<>> /\ Head(bus).type = type /\ bus' = Tail(bus)

OnInitialized ==
  /\ Handle("Initialized")
  /\ queue' = [open |-> TRUE, last |-> Head(bus).height, blocks |-> <<>>, inFlight |-> 0]
  /\ UNCHANGED <<node, store, pc, memory, spent>>

OnBlocksAdded ==
  LET done == Len(Head(bus).blocks)
  IN  /\ Handle("BlocksAdded")
      /\ queue' = [queue EXCEPT !.blocks = SubSeq(@, done + 1, Len(@)), !.inFlight = 0]
      /\ UNCHANGED <<node, store, pc, memory, spent>>

(* Mutants: the queue keeps its last height, or its blocks.                *)
OnReorganizedKeepsLast ==
  /\ Handle("Reorganized")
  /\ queue' = [queue EXCEPT !.blocks = <<>>, !.inFlight = 0]
  /\ UNCHANGED <<node, store, pc, memory, spent>>

OnReorganizedKeepsBlocks ==
  /\ Handle("Reorganized")
  /\ queue' = [queue EXCEPT !.last = Head(bus).height, !.inFlight = 0]
  /\ UNCHANGED <<node, store, pc, memory, spent>>

OnReorganized ==
  /\ Handle("Reorganized")
  /\ queue' = [queue EXCEPT !.last = Head(bus).height, !.blocks = <<>>, !.inFlight = 0]
  /\ UNCHANGED <<node, store, pc, memory, spent>>

(* The process dies; the queue, the bus and the handler's memory die too.  *)
Crash ==
  /\ pc # "off"
  /\ Spend("crashes", MaxCrashes)
  /\ pc' = "off"
  /\ queue' = ClosedQueue
  /\ bus' = <<>>
  /\ networkModel' = network
  /\ models' = rows
  /\ UNCHANGED <<node, store, cursor>>

Handler == \/ AcceptBatch \/ RejectBatch \/ ProcessBlock \/ Save
           \/ WalkBack \/ WalkBackFails \/ Rollback
Events  == OnInitialized \/ OnBlocksAdded \/ OnReorganized

Next == \/ NodeMoves \/ InitNetwork \/ Load \/ Handler \/ Events
        \/ CommandFails \/ Crash

Spec == Init /\ [][Next]_vars

(* The supervisor restarts the process, and the loader, the command        *)
(* handler and the event handlers are tasks of one event loop, none of     *)
(* which is starved.  Nothing makes the node move or a step fail.          *)
Fairness == WF_vars(InitNetwork) /\ WF_vars(Load) /\ WF_vars(Handler) /\ WF_vars(Events)

FairSpec == Spec /\ Fairness

-----------------------------------------------------------------------------
(* Every variable holds a value of its kind.                               *)
TypeOK ==
  /\ node \in Chains
  /\ IsNetwork(network) /\ IsNetwork(networkModel)
  /\ rows \in [Models -> SUBSET Row] /\ models \in [Models -> SUBSET Row]
  /\ bus \in Seq([type : {"Initialized", "Reorganized"}, height : Int]
                 \cup [type : {"BlocksAdded"}, blocks : Seq(Block)])
  /\ queue \in [open : BOOLEAN, last : Int, blocks : Seq(Block), inFlight : Nat]
  /\ pc \in {"off", "idle", "processing", "reorganising", "rollingBack"}
  /\ cursor \in Int
  /\ spent \in [Faults -> Nat]

IndexedBlocks == {network.chain[h] : h \in DOMAIN network.chain}

(* Each user model has stored exactly one event for every indexed block it *)
(* reacts to and none for any other block, whatever failed, was retried,   *)
(* was reorganised or crashed in between.                                  *)
ExactlyOnce ==
  \A m \in Models :
    /\ {r.block : r \in rows[m]} = IndexedBlocks \cap Emits[m]
    /\ \A r, s \in rows[m] : r.block = s.block => r = s

(* Replaying a model's rows by version visits the chain upwards, and the   *)
(* versions have no holes: a rollback leaves a prefix of the stream.       *)
ReplayOrder ==
  \A m \in Models : \A r \in rows[m] :
    /\ \A s \in rows[m] : r.version < s.version => r.block.height < s.block.height
    /\ \A v \in 1..r.version : \E s \in rows[m] : s.version = v

(* The stored chain is one hash-linked chain from StartHeight up to the    *)
(* height the Network aggregate reports.                                   *)
ChainLinked ==
  \A h \in StartHeight..network.height :
    /\ network.chain[h].height = h
    /\ h > StartHeight => network.chain[h].prev = network.chain[h - 1].hash

(* The queue never skips or repeats a height: what it holds runs upwards   *)
(* without a gap to the last height loaded, and once every event has been  *)
(* handled its first block is the one after the stored height.             *)
QueueContiguous ==
  /\ \A i \in 1..Len(queue.blocks) :
       queue.blocks[i].height = queue.last - Len(queue.blocks) + i
  /\ queue.open /\ bus = <<>> => queue.last - Len(queue.blocks) = network.height

(* A confirmation always names exactly the batch that is still in flight   *)
(* at the head of the queue.                                               *)
ConfirmMatchesBatch ==
  \A i \in 1..Len(bus) : bus[i].type = "BlocksAdded" => bus[i].blocks = Batch

(* The command runs on the batch, or its answer is on the way.             *)
AnswerPending ==
  \/ pc \in {"processing", "reorganising", "rollingBack"}
  \/ \E i \in 1..Len(bus) : bus[i].type \in {"BlocksAdded", "Reorganized"}

(* The queue is locked exactly as long as somebody is going to unlock it,  *)
(* whatever failed or crashed: a lock nobody owns would stop the crawler,  *)
(* a missing one would hand out the batch a second time.                   *)
InFlightOwned == queue.inFlight > 0 <=> AnswerPending

(* Seen from the database alone the pipeline implements ChainIndex: every  *)
(* step extends the chain with linked blocks or cuts it back to a block it *)
(* keeps, and moves all user streams along in the same transaction.        *)
Index == INSTANCE ChainIndex WITH chain <- network.chain, streams <- rows
ImplementsChainIndex == Index!Spec

OnNode(h, b) == h < Len(node) /\ node[h + 1] = b

(* The node's chain shares a block with the window; or nothing is indexed  *)
(* and the queue holds blocks of one branch.                               *)
Recoverable ==
  \/ network.height < StartHeight /\ Continues(network, queue.blocks)
  \/ \E h \in network.lo..network.height : OnNode(h, network.chain[h])

InSync ==
  /\ network.height = Len(node) - 1
  /\ network.height >= StartHeight => OnNode(network.height, network.chain[network.height])

(* If the node settles on a chain that goes above everything indexed and   *)
(* queued, the crawler reaches its tip and stays there, unless the node    *)
(* forked below everything the window still knows.                         *)
Converges ==
  \A c \in Chains :
    node = c /\ Len(c) - 1 > network.height /\ Len(c) - 1 > queue.last
      ~> \/ node # c
         \/ ~Recoverable
         \/ [](node = c => InSync)

(* A batch in flight is answered: confirmed, reorganised away, rejected    *)
(* for a retry, or lost in a crash.  The queue is never left locked.       *)
InFlightAnswered == queue.inFlight > 0 ~> queue.inFlight = 0
=============================================================================
