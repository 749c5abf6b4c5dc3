---------------------------- MODULE IndexedRange ----------------------------
(***************************************************************************)
(* The heights user models have events of, seen from outside: a range      *)
(* without gaps that grows and shrinks at its upper end only.  An empty    *)
(* range may begin anew at any height.                                     *)
(***************************************************************************)
EXTENDS Integers

CONSTANT Heights

VARIABLE indexed

Init == indexed = {}

(* The blocks from lo to hi are indexed, right above the last one.         *)
Extend ==
  \E lo, hi \in Heights :
    /\ lo <= hi
    /\ \A h \in indexed : h < lo
    /\ indexed # {} => lo - 1 \in indexed
    /\ indexed' = indexed \cup lo..hi

(* Everything above h goes, or everything.                                 *)
Cut == \E h \in indexed \cup {-1} : indexed' = {x \in indexed : x <= h}

Next == Extend \/ Cut

Spec == Init /\ [][Next]_indexed
=============================================================================
