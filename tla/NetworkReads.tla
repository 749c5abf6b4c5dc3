---------------------------- MODULE NetworkReads ----------------------------
(***************************************************************************)
(* What queries of clients, and user models through ctx.network, are       *)
(* answered from the restored Network.  A block stands for its height.     *)
(* External: the Network's own accessors, over the blocks it holds.        *)
(***************************************************************************)
EXTENDS Integers, SequencesExt

CONSTANTS
  Undefined,
  DefaultN    (* blocks answered when none are asked for; 10 in the code   *)

VARIABLE window    (* the blocks the Network holds, upwards                *)

-----------------------------------------------------------------------------
LastNBlocks(n) == SubSeq(window, Max({1, Len(window) - n + 1}), Len(window))

BlockByHeight(h) == IF Contains(window, h) THEN h ELSE Undefined

(* Mutant: lastN is looked at first.                                       *)
BlocksLastNFirst(lastN, all) ==
  IF lastN # Undefined THEN [blocks |-> LastNBlocks(lastN), requestedCount |-> lastN]
  ELSE IF all THEN [blocks |-> window, requestedCount |-> Undefined]
  ELSE [blocks |-> LastNBlocks(DefaultN), requestedCount |-> DefaultN]

(* getBlocks: a number of blocks counts only if it is positive.            *)
Blocks(lastN, all) ==
  LET n == IF lastN # Undefined /\ lastN > 0 THEN lastN ELSE DefaultN
  IN  IF all THEN [blocks |-> window, requestedCount |-> Undefined]
      ELSE [blocks |-> LastNBlocks(n), requestedCount |-> n]

(* A fold like the code's filter, so that it can be reasoned about.        *)
InRange(start, end) ==
  FoldLeft(LAMBDA kept, h : IF h \in start..end THEN Append(kept, h) ELSE kept,
           <<>>, window)

BlocksInRange(start, end) ==
  LET found == InRange(start, end)
  IN  [blocks |-> found, found |-> Len(found), requested |-> end - start + 1]

Block(h) == [block |-> BlockByHeight(h), exists |-> BlockByHeight(h) # Undefined]

LastBlock == IF window = <<>> THEN Undefined ELSE window[Len(window)]
=============================================================================
