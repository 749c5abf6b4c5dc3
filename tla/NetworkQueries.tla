--------------------------- MODULE NetworkQueries ---------------------------
(***************************************************************************)
(* Queries to a crawler that is started, extended, reorganised, reset and  *)
(* rolled back to checkpoints as in NetworkInit: each restores the Network *)
(* of its own from the stored log, at any moment.                          *)
(***************************************************************************)
EXTENDS NetworkInit, SequencesExt

CONSTANTS
  DefaultN,
  Asked    (* heights and counts clients ask for                           *)

ASSUME QueryAssumption == DefaultN \in Nat \ {0} /\ Asked \subseteq Int

(* The blocks of the restored Network in its order, from the lowest up.    *)
Upwards(S) ==
  [i \in 1..Cardinality(S) |-> CHOOSE h \in S : Cardinality({x \in S : x < h}) = i - 1]

Reads == INSTANCE NetworkReads WITH window <- Upwards(Window(log))

(* The blocks that user models have events of and the Network still holds. *)
Held == Indexed \cap Window(log)

(* What GetNetworkBlocks answers: the blocks right below the last one that *)
(* user models have events of, as many as it says were requested and are   *)
(* held; or all that are held, whatever lastN is.                          *)
AnswersLastBlocks ==
  \A lastN \in Asked \cup {Undefined}, all \in BOOLEAN :
    LET answer == Reads!Blocks(lastN, all)
        blocks == ToSet(answer.blocks)
    IN  /\ blocks \subseteq Indexed
        /\ \A h \in Indexed \ blocks : \A b \in blocks : h < b
        /\ Len(answer.blocks) =
             IF all THEN Cardinality(Held)
             ELSE Min({answer.requestedCount, Cardinality(Held)})

(* Ranges and single blocks: a height is answered if and only if models    *)
(* have its events and it is held, and a range that found all it requested *)
(* is complete.  The last block is the last one that models have events    *)
(* of, in spite of all that was dropped.                                   *)
AnswersHeights ==
  /\ \A h \in Asked : Reads!Block(h).exists <=> h \in Held
  /\ \A start, end \in Asked :
       LET answer == Reads!BlocksInRange(start, end)
       IN  /\ ToSet(answer.blocks) = Held \cap (start..end)
           /\ answer.found = answer.requested => start..end \subseteq Indexed
  /\ Reads!LastBlock = IF Indexed = {} THEN Undefined ELSE Max(Indexed)

(* What a crawler answers about the network, at any moment of a boot, are  *)
(* the last of the blocks that user models have been given, whatever was   *)
(* deleted, cleared or indexed anew before: as many as the Network holds,  *)
(* which is at most MaxSize, and none below those.  Unless checkpoints     *)
(* split batches.                                                          *)
QueriesMatchEvents ==
  ~MaySplitBatches => WindowHoldsLast /\ AnswersLastBlocks /\ AnswersHeights
=============================================================================
