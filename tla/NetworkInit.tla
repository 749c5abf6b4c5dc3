---------------------------- MODULE NetworkInit ----------------------------
(***************************************************************************)
(* Start and restart of the crawler: InitNetworkCommandHandler restores    *)
(* the Network aggregate from its event log, aligns it with the checkpoint *)
(* of a parent process if there is one, decides from which height to go    *)
(* on, and starts the queue, or refuses, or deletes everything after the   *)
(* operator's yes.  Between two boots blocks are added and reorganised, so *)
(* a boot meets every log the program can leave behind; the process may    *)
(* crash between any two steps and come back with another configuration.   *)
(*                                                                         *)
(* External: the Network aggregate (replay of its events) and the event    *)
(* store (a rollback deletes the rows above a height).                     *)
(***************************************************************************)
EXTENDS Integers, FiniteSets

CONSTANTS
  Undefined,     (* a configuration value that is not set                  *)
  NaN,           (* what a text that is no number is parsed to             *)
  EnvValues,     (* what START_BLOCK_HEIGHT may be parsed to, or Undefined *)
                 (* if it is not set or empty                              *)
  Deployments,   (* [checkpoints, maxBatch]: the checkpoints a parent may  *)
                 (* give, or Undefined, and the largest batch of the queue *)
  MaxSize,       (* blocks the Network holds at most; 1000 or more         *)
  MaxHeight, MaxBoots, MaxReorgs    (* bounds                              *)

Heights == 0..MaxHeight

ASSUME ConfigAssumption ==
  /\ Undefined \notin Int /\ NaN \notin Int
  /\ EnvValues \subseteq Int \cup {Undefined, NaN}
  /\ \A d \in Deployments : /\ d.checkpoints \subseteq Int \cup {Undefined}
                            /\ d.maxBatch \in Nat \ {0}
  /\ MaxSize \in Nat \ {0}
  /\ MaxHeight \in Nat /\ MaxBoots \in Nat /\ MaxReorgs \in Nat

VARIABLES
  deployment,  (* how this crawler is deployed                             *)
  log,         (* the Network's stored event rows                          *)
  users,       (* users[h]: stored user-model events of block h            *)
  pc,          (* where InitNetwork is                                     *)
  boot,        (* what this boot was given                                 *)
  boots, reorgs

vars == <<deployment, log, users, pc, boot, boots, reorgs>>

-----------------------------------------------------------------------------
(* The Network aggregate that replaying a log restores: the height and the *)
(* version of the last row, and the blocks it still holds.                 *)
LastRow(l) == CHOOSE r \in l : \A x \in l : x.version <= r.version

Height(l) == IF l = {} THEN -1 ELSE LastRow(l).height

Version(l) == IF l = {} THEN 0 ELSE LastRow(l).version

(* Mutant: the aggregate is created without a bound.                       *)
WindowUnbounded(l) ==
  {h \in Heights :
     \E r \in l : /\ h \in r.blocks
                  /\ \A x \in l : /\ x.version > r.version
                                  /\ x.type \in {"Reorganized", "Cleared"}
                                  => h <= x.height}

(* A block is held from its batch on until a later row takes it away or a  *)
(* batch grows MaxSize blocks above it.  What was dropped below does not   *)
(* come back when blocks above are reorganised; it does when the rows of   *)
(* the blocks above are deleted, because then fewer are replayed.          *)
Window(l) ==
  {h \in Heights :
     \E r \in l : /\ h \in r.blocks
                  /\ \A x \in l : /\ x.version > r.version
                                  /\ x.type \in {"Reorganized", "Cleared"}
                                  => h <= x.height
                  /\ \A x \in l : /\ x.version >= r.version
                                  /\ x.type = "BlocksAdded"
                                  => h > x.height - MaxSize}

(* The log with one more event of the restored aggregate.                  *)
With(l, type, height, blocks) ==
  l \cup {[version |-> Version(l) + 1, type |-> type, height |-> height, blocks |-> blocks]}

(* What a rollback to height h leaves of the two stores.                   *)
LogUpTo(h) == {r \in log : r.height <= h}

UsersUpTo(h) == [x \in Heights |-> IF x <= h THEN users[x] ELSE 0]

NoBoot == [start |-> Undefined, checkpoint |-> Undefined]

(* The transform of START_BLOCK_HEIGHT: 0 counts, a negative number too,   *)
(* and what is no number counts as not set.                                *)
StartHeight(env) == IF env \in Int THEN env ELSE Undefined

-----------------------------------------------------------------------------
Init ==
  /\ deployment \in Deployments
  /\ log = {}
  /\ users = [h \in Heights |-> 0]
  /\ pc = "off"
  /\ boot = NoBoot
  /\ boots = 0
  /\ reorgs = 0

(* The process starts, perhaps with another configuration.                 *)
Boot ==
  /\ pc = "off"
  /\ boots < MaxBoots
  /\ boots' = boots + 1
  /\ \E env \in EnvValues, c \in deployment.checkpoints :
       boot' = [start |-> StartHeight(env), checkpoint |-> c]
  /\ pc' = "aligning"
  /\ UNCHANGED <<deployment, log, users, reorgs>>

HasCheckpoint == boot.checkpoint # Undefined

(* No checkpoint to align with, an empty store, or equal heights.          *)
Aligned ==
  HasCheckpoint => /\ boot.checkpoint >= -1
                   /\ Height(log) < 0 \/ Height(log) = boot.checkpoint

Align ==
  /\ pc = "aligning"
  /\ Aligned
  /\ pc' = "deciding"
  /\ UNCHANGED <<deployment, log, users, boot, boots, reorgs>>

Ahead == HasCheckpoint /\ boot.checkpoint >= -1 /\ Height(log) > boot.checkpoint

(* Mutant: the checkpoint itself is rolled back too.                       *)
AlignBelowCheckpoint ==
  /\ pc = "aligning"
  /\ Ahead
  /\ log' = LogUpTo(boot.checkpoint - 1)
  /\ users' = UsersUpTo(boot.checkpoint - 1)
  /\ pc' = "deciding"
  /\ UNCHANGED <<deployment, boot, boots, reorgs>>

(* The store is ahead of the checkpoint: one rollback transaction over the *)
(* user models and the Network.                                            *)
AlignByRollback ==
  /\ pc = "aligning"
  /\ Ahead
  /\ log' = LogUpTo(boot.checkpoint)
  /\ users' = UsersUpTo(boot.checkpoint)
  /\ pc' = "deciding"
  /\ UNCHANGED <<deployment, boot, boots, reorgs>>

(* The process is gone, with what it was given; so it ends when it crashes *)
(* and when the handler throws, because bootstrap then rejects.            *)
Exit ==
  /\ pc' = "off"
  /\ boot' = NoBoot
  /\ UNCHANGED <<deployment, log, users, boots, reorgs>>

RefuseToAlign == pc = "aligning" /\ ~Aligned /\ ~Ahead /\ Exit

(* determineStartHeight: the last indexed height to go on from, when the   *)
(* node reports height tip.                                                *)
StartFromEnv(tip) ==
  IF Height(log) >= 0 THEN Height(log)
  ELSE IF boot.start = Undefined THEN tip - 1 ELSE boot.start - 1

(* Mutant: START_BLOCK_HEIGHT beats the checkpoint while nothing is stored. *)
StartFromConfig(tip) ==
  IF Height(log) < 0 /\ HasCheckpoint /\ boot.start = Undefined
  THEN boot.checkpoint ELSE StartFromEnv(tip)

StartFrom(tip) ==
  IF Height(log) < 0 /\ HasCheckpoint THEN boot.checkpoint ELSE StartFromEnv(tip)

Mismatch == HasCheckpoint /\ Height(log) >= 0 /\ Height(log) # boot.checkpoint

NeedsReset ==
  /\ ~HasCheckpoint /\ boot.start # Undefined
  /\ Height(log) >= 0
  /\ boot.start > Height(log) + 1

RefuseMismatch == pc = "deciding" /\ Mismatch /\ Exit

(* Mutant: a configured start ahead of the store is simply adopted.        *)
StartAnyway ==
  /\ pc = "deciding"
  /\ ~Mismatch
  /\ \E tip \in Heights :
       LET from == IF NeedsReset THEN boot.start - 1 ELSE StartFrom(tip)
       IN  log' = With(log, "Initialized", from, {})
  /\ pc' = "running"
  /\ UNCHANGED <<deployment, users, boot, boots, reorgs>>

(* networkModel.init and save: the Initialized event starts the queue.     *)
Start ==
  /\ pc = "deciding"
  /\ ~Mismatch /\ ~NeedsReset
  /\ \E tip \in Heights : log' = With(log, "Initialized", StartFrom(tip), {})
  /\ pc' = "running"
  /\ UNCHANGED <<deployment, users, boot, boots, reorgs>>

(* The configured start would leave a gap: the operator is asked.          *)
Ask ==
  /\ pc = "deciding"
  /\ NeedsReset
  /\ pc' = "asking"
  /\ UNCHANGED <<deployment, log, users, boot, boots, reorgs>>

Decline == pc = "asking" /\ Exit

Confirm ==
  /\ pc = "asking"
  /\ pc' = "clearing"
  /\ UNCHANGED <<deployment, log, users, boot, boots, reorgs>>

(* Mutant: the Network is left out of modelsToRollback and modelsToSave.   *)
ClearUsersOnly ==
  /\ pc = "clearing"
  /\ users' = UsersUpTo(-1)
  /\ pc' = "aligning"
  /\ UNCHANGED <<deployment, log, boot, boots, reorgs>>

(* Mutant: the Cleared event is stored without a height.                   *)
ClearWithoutHeight ==
  /\ pc = "clearing"
  /\ log' = With(LogUpTo(-1), "Cleared", Undefined, {})
  /\ users' = UsersUpTo(-1)
  /\ pc' = "aligning"
  /\ UNCHANGED <<deployment, boot, boots, reorgs>>

(* DATA_RESET_REQUIRED: everything above -1 goes and the Cleared event is  *)
(* stored; its handler runs InitNetwork again.                             *)
Clear ==
  /\ pc = "clearing"
  /\ log' = With(LogUpTo(-1), "Cleared", -1, {})
  /\ users' = UsersUpTo(-1)
  /\ pc' = "aligning"
  /\ UNCHANGED <<deployment, boot, boots, reorgs>>

(* AddBlocksBatch saved a batch; every block left one user event.  There   *)
(* is no block below genesis: the loader asks for it for ever.             *)
AddBatch ==
  \E k \in 1..deployment.maxBatch :
    LET batch == (Height(log) + 1)..(Height(log) + k)
    IN  /\ pc = "running"
        /\ batch \subseteq Heights
        /\ log' = With(log, "BlocksAdded", Height(log) + k, batch)
        /\ users' = [h \in Heights |-> users[h] + (IF h \in batch THEN 1 ELSE 0)]
        /\ UNCHANGED <<deployment, pc, boot, boots, reorgs>>

(* AddBlocksBatch rolled back to a block of the window.                    *)
Reorganise ==
  /\ pc = "running"
  /\ reorgs < MaxReorgs
  /\ reorgs' = reorgs + 1
  /\ \E h \in Window(log) :
       /\ log' = With(log, "Reorganized", h, {})
       /\ users' = UsersUpTo(h)
  /\ UNCHANGED <<deployment, pc, boot, boots>>

Crash == pc # "off" /\ Exit

Handler == \/ Align \/ AlignByRollback \/ RefuseToAlign
           \/ RefuseMismatch \/ Start \/ Ask \/ Clear

Next == \/ Boot \/ Handler \/ Decline \/ Confirm
        \/ AddBatch \/ Reorganise \/ Crash

Spec == Init /\ [][Next]_vars

(* The handler is one asynchronous function: once called it goes on until  *)
(* it returns, throws or waits for the operator.                           *)
FairSpec == Spec /\ WF_vars(Handler)

-----------------------------------------------------------------------------
(* Every variable holds a value of its kind.                               *)
TypeOK ==
  /\ deployment \in Deployments
  /\ log \subseteq [version : Nat,
                    type : {"Initialized", "BlocksAdded", "Reorganized", "Cleared"},
                    height : Int, blocks : SUBSET Heights]
  /\ users \in [Heights -> Nat]
  /\ pc \in {"off", "aligning", "deciding", "asking", "clearing", "running"}
  /\ boot \in [start : Int \cup {Undefined},
               checkpoint : deployment.checkpoints \cup {Undefined}]
  /\ boots \in 0..MaxBoots /\ reorgs \in 0..MaxReorgs

Indexed == {h \in Heights : users[h] > 0}

(* A parent's checkpoint may lie inside a batch, which is one row of the   *)
(* Network's log.                                                          *)
MaySplitBatches == deployment.checkpoints # {Undefined} /\ deployment.maxBatch > 1

(* However often it was restarted, reconfigured, reset or rolled back to a *)
(* checkpoint, a running crawler has the events of every block exactly     *)
(* once, without a gap from the first one up to the Network's height,      *)
(* unless checkpoints split batches.                                       *)
NoGapNoRepeat ==
  pc = "running" /\ ~MaySplitBatches =>
    /\ \A h \in Heights : users[h] <= 1
    /\ \A h \in Indexed : h <= Height(log)
    /\ \A h \in Indexed : \A x \in h..Height(log) : x \in Indexed

(* The restored Network holds the last of the blocks that models have      *)
(* events of, at most MaxSize, and the very last one whenever there is     *)
(* one: through these, without a gap, a reorganisation can walk back.      *)
(* They are as many as they can be unless a stored reorganisation has      *)
(* taken some away.  None of this if checkpoints split batches.            *)
WindowHoldsLast ==
  ~MaySplitBatches =>
    /\ Window(log) \subseteq Indexed
    /\ \A h \in Window(log), x \in Indexed : x > h => x \in Window(log)
    /\ Cardinality(Window(log)) <= MaxSize
    /\ Indexed # {} => Height(log) \in Window(log)
    /\ (\A r \in log : r.type # "Reorganized")
         => \A x \in Indexed : x > Height(log) - MaxSize => x \in Window(log)

(* The comment above alignToExternalCheckpoint: a store ahead of the       *)
(* checkpoint is recoverable, it is rolled back to the checkpoint itself   *)
(* (or holds nothing at all afterwards).                                   *)
AlignedToCheckpoint ==
  pc = "deciding" /\ HasCheckpoint => Height(log) < 0 \/ Height(log) = boot.checkpoint

(* Unless checkpoints split batches, the alignment keeps that promise in   *)
(* every store the program leaves behind, however often it was restarted,  *)
(* reorganised, reset or aligned before.                                   *)
AlignedUnlessSplit == ~MaySplitBatches => AlignedToCheckpoint

(* With a checkpoint the crawler goes on from it, whatever the store and   *)
(* START_BLOCK_HEIGHT say: the parent sees checkpoint + 1 next.            *)
ResumesAtCheckpoint ==
  [][pc = "deciding" /\ pc' = "running" /\ HasCheckpoint
       => Height(log') = boot.checkpoint]_vars

(* The same comment: a store behind the checkpoint must not go on          *)
(* automatically, it may be the wrong volume.                              *)
RefusesWhenBehind ==
  [][pc = "aligning" /\ HasCheckpoint /\ Height(log) < boot.checkpoint
       => pc' \notin {"deciding", "running"}]_vars

(* A reset leaves nothing that the handler, run again by its event, would  *)
(* ask or refuse: no block comes back with the restored Network, and no    *)
(* start height is a gap any more.                                         *)
ResetSettles ==
  [][pc = "clearing" /\ pc' = "aligning"
       => Indexed' = {} /\ Window(log') = {} /\ (Aligned /\ ~Mismatch /\ ~NeedsReset)']_vars

(* Over all boots the blocks that user models have events of are a range   *)
(* that grows and shrinks at its upper end, unless checkpoints split       *)
(* batches: no start, alignment or reset takes a block from its middle.    *)
Extent == INSTANCE IndexedRange WITH indexed <- IF MaySplitBatches THEN {} ELSE Indexed
ImplementsIndexedRange == Extent!Spec

(* After the operator's yes the reset completes and the crawler runs (or   *)
(* dies trying): it neither asks again nor resets again and again.         *)
ResetCompletes == pc = "clearing" ~> pc \in {"running", "off"}
=============================================================================
