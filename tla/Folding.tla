------------------------------ MODULE Folding ------------------------------
(***************************************************************************)
(* Facts about the recursive operators the models are built from: folds of *)
(* a sequence (FoldLeft) and flattened sequences (FlattenSeq).  A fold is  *)
(* stated for an operator constant op, and used by instantiating op with   *)
(* the operator that is folded; c is whatever that operator depends on     *)
(* besides the element.                                                    *)
(*                                                                         *)
(* Inductions are on sets of natural numbers: a set that holds 0 and, with *)
(* each number, the next one, holds them all.                              *)
(***************************************************************************)
EXTENDS Integers, SequencesExt, SequenceTheorems, FiniteSetTheorems, TLAPS

CONSTANT op(_, _, _)

LEMMA SetInduction ==
  ASSUME NEW T, 0 \in T, \A n \in Nat : n \in T => n + 1 \in T
  PROVE  Nat \subseteq T
<1> SUFFICES ASSUME Nat \ T # {} PROVE FALSE
  OBVIOUS
<1> DEFINE R == OpToRel(<, Nat)
<1>1. PICK w \in Nat \ T : \A x \in Nat \ T : ~(<<x, w>> \in R)
  <2>1. IsWellFoundedOn(R, Nat)
    BY NatLessThanWellFounded
  <2> HIDE DEF R
  <2> QED BY <2>1, WFMin
<1>2. \A x, y \in Nat : x < y => <<x, y>> \in R
  BY DEF OpToRel
<1> HIDE DEF R
<1>3. w # 0 /\ w - 1 \in Nat /\ w - 1 < w
  BY <1>1
<1>4. w - 1 \in T
  BY <1>1, <1>2, <1>3
<1>5. (w - 1) + 1 \in T
  BY <1>3, <1>4
<1> QED BY <1>1, <1>5

-----------------------------------------------------------------------------
(* The largest index.                                                      *)
LEMMA MaxOfInterval ==
  ASSUME NEW n \in Nat, NEW t \in SUBSET (1..n), t # {}
  PROVE  Max(t) \in t /\ \A x \in t : x <= Max(t)
<1> DEFINE T == {k \in Nat : \A u \in SUBSET (1..k) : u # {} => \E x \in u : \A y \in u : x >= y}
<1>1. 0 \in T
  <2>1. 1..0 = {}
    OBVIOUS
  <2>2. \A u \in SUBSET (1..0) : u = {}
    BY <2>1
  <2> QED BY <2>2
<1>2. ASSUME NEW k \in Nat, k \in T PROVE k + 1 \in T
  <2> SUFFICES ASSUME NEW u \in SUBSET (1..(k + 1)), u # {}
               PROVE  \E x \in u : \A y \in u : x >= y
    OBVIOUS
  <2>1. CASE k + 1 \in u
    BY <2>1
  <2>2. CASE k + 1 \notin u
    <3>1. u \in SUBSET (1..k)
      BY <2>2
    <3> QED BY <1>2, <3>1
  <2> QED BY <2>1, <2>2
<1> HIDE DEF T
<1>3. n \in T
  BY <1>1, <1>2, SetInduction
<1>4. \E x \in t : \A y \in t : x >= y
  BY <1>3 DEF T
<1>5. \A x, y \in t : x >= y <=> y <= x
  OBVIOUS
<1> QED BY <1>4, <1>5 DEF Max

(* FoldLeft of op(c, _, _).                                                *)
Fold(c, b, s) ==
  LET iter[t \in SUBSET DOMAIN s] ==
        IF t = {} THEN b ELSE op(c, iter[t \ {Max(t)}], s[Max(t)])
  IN  iter[DOMAIN s]

Iterates(c, b, s, n, g) ==
  g = [t \in SUBSET (1..n) |-> IF t = {} THEN b ELSE op(c, g[t \ {Max(t)}], s[Max(t)])]

Step(c, b, s, g, t) == IF t = {} THEN b ELSE op(c, g[t \ {Max(t)}], s[Max(t)])

(* The recursive function that folds is defined.                           *)
LEMMA IterExists ==
  ASSUME NEW c, NEW b, NEW s, NEW n \in Nat
  PROVE  \E g : Iterates(c, b, s, n, g)
<1> DEFINE T == {k \in Nat : \E g : g = [t \in SUBSET (1..k) |-> Step(c, b, s, g, t)]}
<1>1. 0 \in T
  <2> DEFINE g == [t \in SUBSET (1..0) |-> b]
  <2>1. \A t \in SUBSET (1..0) : t = {}
    OBVIOUS
  <2>2. g = [t \in SUBSET (1..0) |-> Step(c, b, s, g, t)]
    BY <2>1 DEF Step
  <2> QED BY <2>2
<1>2. ASSUME NEW k \in Nat, k \in T PROVE k + 1 \in T
  <2>1. PICK g : g = [t \in SUBSET (1..k) |-> Step(c, b, s, g, t)]
    BY <1>2
  <2> DEFINE h == [t \in SUBSET (1..(k + 1)) |->
                     IF k + 1 \in t THEN op(c, g[t \ {k + 1}], s[k + 1]) ELSE g[t]]
  <2>2. ASSUME NEW t \in SUBSET (1..(k + 1)) PROVE h[t] = Step(c, b, s, h, t)
    <3>1. CASE k + 1 \in t
      <4>1. Max(t) = k + 1
        <5>1. k + 1 \in Nat /\ t # {}
          BY <3>1
        <5>2. Max(t) \in t /\ \A x \in t : x <= Max(t)
          BY <5>1, MaxOfInterval
        <5>3. Max(t) \in 1..(k + 1)
          BY <5>2
        <5> QED BY <3>1, <5>2, <5>3
      <4>2. t \ {k + 1} \in SUBSET (1..(k + 1)) /\ k + 1 \notin t \ {k + 1}
        OBVIOUS
      <4>3. h[t \ {k + 1}] = g[t \ {k + 1}]
        BY <4>2
      <4> QED BY <3>1, <4>1, <4>3 DEF Step
    <3>2. CASE k + 1 \notin t
      <4>1. t \in SUBSET (1..k)
        BY <3>2
      <4>2. h[t] = Step(c, b, s, g, t)
        BY <2>1, <3>2, <4>1
      <4>3. CASE t = {}
        BY <4>2, <4>3 DEF Step
      <4>4. CASE t # {}
        <5>1. Max(t) \in t
          BY <4>1, <4>4, MaxOfInterval
        <5>2. t \ {Max(t)} \in SUBSET (1..(k + 1)) /\ k + 1 \notin t \ {Max(t)}
          BY <3>2
        <5>3. h[t \ {Max(t)}] = g[t \ {Max(t)}]
          BY <5>2
        <5> QED BY <4>2, <4>4, <5>3 DEF Step
      <4> QED BY <4>3, <4>4
    <3> QED BY <3>1, <3>2
  <2>3. h = [t \in SUBSET (1..(k + 1)) |-> Step(c, b, s, h, t)]
    BY <2>2
  <2> HIDE DEF h
  <2> QED BY <2>3
<1> HIDE DEF T
<1>3. n \in T
  BY <1>1, <1>2, SetInduction
<1> QED BY <1>3 DEF T, Iterates, Step

-----------------------------------------------------------------------------
(* What a fold computes, one element after the other.                      *)
IsChain(c, b, s, g) ==
  /\ g = [k \in 0..Len(s) |-> g[k]]
  /\ g[0] = b
  /\ \A k \in 1..Len(s) : g[k] = op(c, g[k - 1], s[k])

LEMMA FoldHasChain ==
  ASSUME NEW c, NEW b, NEW E, NEW s \in Seq(E)
  PROVE  \E g : IsChain(c, b, s, g) /\ g[Len(s)] = Fold(c, b, s)
<1>1. PICK iter : /\ Fold(c, b, s) = iter[DOMAIN s]
                  /\ iter = CHOOSE g : g = [t \in SUBSET DOMAIN s |->
                                IF t = {} THEN b ELSE op(c, g[t \ {Max(t)}], s[Max(t)])]
  BY DEF Fold
<1>2. DOMAIN s = 1..Len(s) /\ Len(s) \in Nat
  BY LenProperties
<1>3. \E g : g = [t \in SUBSET DOMAIN s |->
                    IF t = {} THEN b ELSE op(c, g[t \ {Max(t)}], s[Max(t)])]
  <2>1. PICK n \in Nat : DOMAIN s = 1..n
    BY <1>2
  <2>2. \E g : Iterates(c, b, s, n, g)
    BY IterExists
  <2> QED BY <2>1, <2>2 DEF Iterates
<1>4. iter = [t \in SUBSET DOMAIN s |->
                IF t = {} THEN b ELSE op(c, iter[t \ {Max(t)}], s[Max(t)])]
  BY <1>1, <1>3
<1> DEFINE g == [k \in 0..Len(s) |-> iter[1..k]]
<1>5. g[0] = b
  <2>1. 1..0 = {} /\ {} \in SUBSET DOMAIN s
    OBVIOUS
  <2>2. iter[{}] = b
    BY <1>4, <2>1
  <2> QED BY <1>2, <2>1, <2>2
<1>6. ASSUME NEW k \in 1..Len(s) PROVE g[k] = op(c, g[k - 1], s[k])
  <2>0. k \in Nat /\ k \in 1..k /\ k <= Len(s)
    BY <1>2
  <2>1. 1..k \in SUBSET DOMAIN s /\ 1..k # {} /\ k \in Nat /\ 1..k \in SUBSET (1..k)
    <3>1. \A i \in 1..k : i \in 1..Len(s)
      BY <1>2, <2>0
    <3> QED BY <1>2, <2>0, <3>1
  <2>2. Max(1..k) = k
    <3>1. Max(1..k) \in 1..k /\ \A x \in 1..k : x <= Max(1..k)
      BY <2>1, MaxOfInterval
    <3> QED BY <2>1, <3>1
  <2>3. (1..k) \ {k} = 1..(k - 1)
    BY <2>1
  <2>4. iter[1..k] = op(c, iter[(1..k) \ {k}], s[k])
    BY <1>4, <2>1, <2>2
  <2>5. g[k] = iter[1..k] /\ g[k - 1] = iter[1..(k - 1)]
    BY <1>2
  <2> QED BY <2>3, <2>4, <2>5
<1>7. IsChain(c, b, s, g)
  BY <1>5, <1>6 DEF IsChain
<1>8. g[Len(s)] = Fold(c, b, s)
  BY <1>1, <1>2
<1> HIDE DEF g
<1> QED BY <1>7, <1>8

LEMMA ChainUnique ==
  ASSUME NEW c, NEW b, NEW E, NEW s \in Seq(E), NEW r \in Seq(E), Len(r) <= Len(s),
         \A i \in 1..Len(r) : r[i] = s[i],
         NEW f, IsChain(c, b, r, f), NEW g, IsChain(c, b, s, g)
  PROVE  \A k \in 0..Len(r) : f[k] = g[k]
<1> DEFINE T == {k \in Nat : k <= Len(r) => f[k] = g[k]}
<1>1. Len(s) \in Nat /\ Len(r) \in Nat
  BY LenProperties
<1>2. 0 \in T
  BY DEF IsChain
<1>3. ASSUME NEW k \in Nat, k \in T PROVE k + 1 \in T
  <2> SUFFICES ASSUME k + 1 <= Len(r) PROVE f[k + 1] = g[k + 1]
    OBVIOUS
  <2>1. k + 1 \in 1..Len(r) /\ k + 1 \in 1..Len(s) /\ (k + 1) - 1 = k /\ k <= Len(r)
    BY <1>1
  <2>2. f[k + 1] = op(c, f[k], r[k + 1]) /\ g[k + 1] = op(c, g[k], s[k + 1])
    BY <2>1 DEF IsChain
  <2> QED BY <1>3, <2>1, <2>2
<1> HIDE DEF T
<1>4. Nat \subseteq T
  BY <1>2, <1>3, SetInduction
<1> QED BY <1>1, <1>4 DEF T

(* The fold of a prefix is what the chain has there.                       *)
LEMMA FoldOfPrefix ==
  ASSUME NEW c, NEW b, NEW E, NEW s \in Seq(E), NEW g, IsChain(c, b, s, g),
         NEW r \in Seq(E), Len(r) <= Len(s), \A i \in 1..Len(r) : r[i] = s[i]
  PROVE  Fold(c, b, r) = g[Len(r)]
<1>1. PICK f : IsChain(c, b, r, f) /\ f[Len(r)] = Fold(c, b, r)
  BY FoldHasChain
<1>2. Len(r) \in 0..Len(r)
  BY LenProperties
<1>3. \A k \in 0..Len(r) : f[k] = g[k]
  BY <1>1, ChainUnique
<1> QED BY <1>1, <1>2, <1>3

(* Nothing to fold.                                                        *)
THEOREM FoldNil ==
  ASSUME NEW c, NEW b
  PROVE  Fold(c, b, <<>>) = b
<1>1. <<>> \in Seq({}) /\ Len(<<>>) = 0
  BY EmptySeq
<1>2. PICK g : IsChain(c, b, <<>>, g) /\ g[Len(<<>>)] = Fold(c, b, <<>>)
  BY <1>1, FoldHasChain
<1> QED BY <1>1, <1>2 DEF IsChain

(* One element more.                                                       *)
THEOREM FoldAppend ==
  ASSUME NEW c, NEW b, NEW E, NEW s \in Seq(E), NEW e \in E
  PROVE  Fold(c, b, Append(s, e)) = op(c, Fold(c, b, s), e)
<1> DEFINE t == Append(s, e)
<1>1. /\ t \in Seq(E) /\ Len(t) = Len(s) + 1 /\ Len(s) \in Nat
      /\ \A i \in 1..Len(s) : t[i] = s[i]
      /\ t[Len(s) + 1] = e
  BY AppendProperties, LenProperties
<1> HIDE DEF t
<1>2. PICK g : IsChain(c, b, t, g) /\ g[Len(t)] = Fold(c, b, t)
  BY <1>1, FoldHasChain
<1>3. Fold(c, b, s) = g[Len(s)]
  BY <1>1, <1>2, FoldOfPrefix
<1>4. Len(t) \in 1..Len(t) /\ Len(t) - 1 = Len(s)
  BY <1>1
<1>5. g[Len(t)] = op(c, g[Len(s)], e)
  BY <1>1, <1>2, <1>4 DEF IsChain
<1> QED BY <1>2, <1>3, <1>5 DEF t

(* A property that each element keeps; it may depend on the elements       *)
(* folded so far: S[k] holds what there may be after k of them.            *)
THEOREM FoldInvariant ==
  ASSUME NEW c, NEW b, NEW E, NEW s \in Seq(E), NEW S, b \in S[0],
         \A k \in 1..Len(s) : \A x \in S[k - 1] : op(c, x, s[k]) \in S[k]
  PROVE  Fold(c, b, s) \in S[Len(s)]
<1>1. PICK g : IsChain(c, b, s, g) /\ g[Len(s)] = Fold(c, b, s)
  BY FoldHasChain
<1>2. Len(s) \in Nat
  BY LenProperties
<1> DEFINE T == {k \in Nat : k <= Len(s) => g[k] \in S[k]}
<1>3. 0 \in T
  BY <1>1 DEF IsChain
<1>4. ASSUME NEW k \in Nat, k \in T PROVE k + 1 \in T
  <2> SUFFICES ASSUME k + 1 <= Len(s) PROVE g[k + 1] \in S[k + 1]
    OBVIOUS
  <2>1. k + 1 \in 1..Len(s) /\ (k + 1) - 1 = k /\ k <= Len(s)
    BY <1>2
  <2>2. g[k + 1] = op(c, g[k], s[k + 1])
    BY <1>1, <2>1 DEF IsChain
  <2>3. g[k] \in S[k]
    BY <1>4, <2>1
  <2> QED BY <2>1, <2>2, <2>3
<1> HIDE DEF T
<1>5. Len(s) \in T
  BY <1>2, <1>3, <1>4, SetInduction
<1> QED BY <1>1, <1>2, <1>5 DEF T

THEOREM FoldType ==
  ASSUME NEW c, NEW E, NEW s \in Seq(E), NEW S, NEW b \in S,
         \A x \in S, e \in E : op(c, x, e) \in S
  PROVE  Fold(c, b, s) \in S
<1> DEFINE F == [k \in 0..Len(s) |-> S]
<1>1. Len(s) \in Nat /\ \A k \in 1..Len(s) : s[k] \in E
  BY LenProperties, ElementOfSeq
<1>2. \A k \in 1..Len(s) : k \in 0..Len(s) /\ k - 1 \in 0..Len(s)
  BY <1>1
<1>3. \A k \in 0..Len(s) : F[k] = S
  OBVIOUS
<1>4. 0 \in 0..Len(s) /\ Len(s) \in 0..Len(s)
  BY <1>1
<1> HIDE DEF F
<1>5. b \in F[0] /\ \A k \in 1..Len(s) : \A x \in F[k - 1] : op(c, x, s[k]) \in F[k]
  BY <1>1, <1>2, <1>3, <1>4
<1>6. Fold(c, b, s) \in F[Len(s)]
  BY <1>5, FoldInvariant
<1> QED BY <1>3, <1>4, <1>6

(* What is appended is folded onto the fold of what was there.             *)
THEOREM FoldConcat ==
  ASSUME NEW c, NEW b, NEW E, NEW s \in Seq(E), NEW t \in Seq(E)
  PROVE  Fold(c, b, s \o t) = Fold(c, Fold(c, b, s), t)
<1> DEFINE u == s \o t
<1>1. /\ u \in Seq(E) /\ Len(u) = Len(s) + Len(t) /\ Len(s) \in Nat /\ Len(t) \in Nat
      /\ \A i \in 1..Len(s) : u[i] = s[i]
      /\ \A i \in 1..Len(t) : u[Len(s) + i] = t[i]
  <2>1. Len(s) \in Nat /\ Len(t) \in Nat
    BY LenProperties
  <2>2. /\ u \in Seq(E) /\ Len(u) = Len(s) + Len(t)
        /\ \A i \in 1..(Len(s) + Len(t)) : u[i] = IF i <= Len(s) THEN s[i] ELSE t[i - Len(s)]
    BY ConcatProperties
  <2> HIDE DEF u
  <2>3. \A i \in 1..Len(t) : Len(s) + i \in 1..(Len(s) + Len(t)) /\ ~(Len(s) + i <= Len(s))
                             /\ (Len(s) + i) - Len(s) = i
    BY <2>1
  <2>4. \A i \in 1..Len(s) : i \in 1..(Len(s) + Len(t)) /\ i <= Len(s)
    BY <2>1
  <2> QED BY <2>1, <2>2, <2>3, <2>4
<1> HIDE DEF u
<1>2. PICK g : IsChain(c, b, u, g) /\ g[Len(u)] = Fold(c, b, u)
  BY <1>1, FoldHasChain
<1>3. Fold(c, b, s) = g[Len(s)]
  <2>1. Len(s) <= Len(u) /\ \A i \in 1..Len(s) : s[i] = u[i]
    BY <1>1
  <2>2. u \in Seq(E) /\ IsChain(c, b, u, g)
    BY <1>1, <1>2
  <2> QED BY <2>1, <2>2, FoldOfPrefix
<1> DEFINE h == [k \in 0..Len(t) |-> g[Len(s) + k]]
<1>4. IsChain(c, Fold(c, b, s), t, h)
  <2>1. h[0] = g[Len(s)]
    BY <1>1
  <2>2. ASSUME NEW k \in 1..Len(t) PROVE h[k] = op(c, h[k - 1], t[k])
    <3>1. /\ k \in 0..Len(t) /\ k - 1 \in 0..Len(t) /\ Len(s) + k \in 1..Len(u)
          /\ (Len(s) + k) - 1 = Len(s) + (k - 1)
      BY <1>1
    <3>2. g[Len(s) + k] = op(c, g[Len(s) + (k - 1)], u[Len(s) + k])
      BY <1>2, <3>1 DEF IsChain
    <3> QED BY <1>1, <3>1, <3>2
  <2> QED BY <1>3, <2>1, <2>2 DEF IsChain
<1>5. h[Len(t)] = g[Len(u)]
  BY <1>1
<1> HIDE DEF h
<1>6. Fold(c, Fold(c, b, s), t) = h[Len(t)]
  BY <1>1, <1>4, FoldOfPrefix
<1> QED BY <1>2, <1>5, <1>6 DEF u

-----------------------------------------------------------------------------
(* Induction on a sequence, one element more at its end.                   *)
LEMMA SeqInduction ==
  ASSUME NEW E, NEW T, <<>> \in T,
         \A s \in Seq(E), e \in E : s \in T => Append(s, e) \in T
  PROVE  Seq(E) \subseteq T
<1> DEFINE N == {n \in Nat : \A s \in Seq(E) : Len(s) = n => s \in T}
<1>1. 0 \in N
  <2>1. \A s \in Seq(E) : Len(s) = 0 => s = <<>>
    BY EmptySeq
  <2> QED BY <2>1
<1>2. ASSUME NEW n \in Nat, n \in N PROVE n + 1 \in N
  <2> SUFFICES ASSUME NEW s \in Seq(E), Len(s) = n + 1 PROVE s \in T
    OBVIOUS
  <2>1. s # <<>>
    BY EmptySeq
  <2>2. PICK r \in Seq(E), e \in E : s = Append(r, e)
    BY <2>1, SequenceEmptyOrAppend
  <2>3. Len(r) = n
    <3>1. Len(Append(r, e)) = Len(r) + 1 /\ Len(r) \in Nat
      BY AppendProperties, LenProperties
    <3> QED BY <2>2, <3>1
  <2> QED BY <1>2, <2>2, <2>3
<1> HIDE DEF N
<1>3. Nat \subseteq N
  BY <1>1, <1>2, SetInduction
<1>4. \A s \in Seq(E) : Len(s) \in Nat
  BY LenProperties
<1> QED BY <1>3, <1>4 DEF N

-----------------------------------------------------------------------------
(* Flattened sequences.                                                    *)
Joins(ss, n, f) == f = [i \in 1..n |-> IF i = 1 THEN ss[i] ELSE f[i - 1] \o ss[i]]

LEMMA JoinsExists ==
  ASSUME NEW ss, NEW n \in Nat
  PROVE  \E f : Joins(ss, n, f)
<1> DEFINE T == {k \in Nat : \E f : Joins(ss, k, f)}
<1>1. 0 \in T
  <2> DEFINE f == [i \in 1..0 |-> ss]
  <2>1. 1..0 = {}
    OBVIOUS
  <2>2. f = [i \in 1..0 |-> IF i = 1 THEN ss[i] ELSE f[i - 1] \o ss[i]]
    BY <2>1
  <2>3. Joins(ss, 0, f)
    BY <2>2 DEF Joins
  <2> HIDE DEF f
  <2> QED BY <2>3
<1>2. ASSUME NEW k \in Nat, k \in T PROVE k + 1 \in T
  <2>1. PICK f : f = [i \in 1..k |-> IF i = 1 THEN ss[i] ELSE f[i - 1] \o ss[i]]
    BY <1>2 DEF Joins
  <2> DEFINE g == [i \in 1..(k + 1) |->
                     IF i = k + 1 THEN (IF i = 1 THEN ss[i] ELSE f[k] \o ss[i]) ELSE f[i]]
  <2>2. ASSUME NEW i \in 1..(k + 1)
        PROVE  g[i] = IF i = 1 THEN ss[i] ELSE g[i - 1] \o ss[i]
    <3>1. CASE i = k + 1
      <4>1. CASE i = 1
        BY <3>1, <4>1
      <4>2. CASE i # 1
        <5>1. k \in 1..(k + 1) /\ k # k + 1 /\ i - 1 = k
          BY <3>1, <4>2
        <5>2. g[k] = f[k]
          BY <5>1
        <5> QED BY <3>1, <4>2, <5>1, <5>2
      <4> QED BY <4>1, <4>2
    <3>2. CASE i # k + 1
      <4>1. i \in 1..k
        BY <3>2
      <4>2. g[i] = f[i] /\ f[i] = IF i = 1 THEN ss[i] ELSE f[i - 1] \o ss[i]
        BY <2>1, <3>2, <4>1
      <4>3. CASE i # 1
        <5>1. i - 1 \in 1..(k + 1) /\ i - 1 # k + 1
          BY <4>1, <4>3
        <5>2. g[i - 1] = f[i - 1]
          BY <5>1
        <5> QED BY <4>2, <4>3, <5>2
      <4> QED BY <4>2, <4>3
    <3> QED BY <3>1, <3>2
  <2>3. g = [i \in 1..(k + 1) |-> IF i = 1 THEN ss[i] ELSE g[i - 1] \o ss[i]]
    BY <2>2
  <2> HIDE DEF g
  <2>4. Joins(ss, k + 1, g)
    BY <2>3 DEF Joins
  <2> QED BY <2>4
<1> HIDE DEF T
<1>3. n \in T
  BY <1>1, <1>2, SetInduction
<1> QED BY <1>3 DEF T

LEMMA FlattenHasJoins ==
  ASSUME NEW ss, Len(ss) \in Nat \ {0}
  PROVE  \E f : Joins(ss, Len(ss), f) /\ FlattenSeq(ss) = f[Len(ss)]
<1>1. PICK n \in Nat \ {0} : Len(ss) = n
  OBVIOUS
<1>2. PICK f : /\ FlattenSeq(ss) = f[Len(ss)]
               /\ f = CHOOSE g : g = [i \in 1..Len(ss) |->
                                        IF i = 1 THEN ss[i] ELSE g[i - 1] \o ss[i]]
  BY <1>1 DEF FlattenSeq
<1>3. \E g : g = [i \in 1..Len(ss) |-> IF i = 1 THEN ss[i] ELSE g[i - 1] \o ss[i]]
  <2>1. \E g : Joins(ss, n, g)
    BY JoinsExists
  <2> QED BY <1>1, <2>1 DEF Joins
<1>4. f = [i \in 1..Len(ss) |-> IF i = 1 THEN ss[i] ELSE f[i - 1] \o ss[i]]
  BY <1>2, <1>3
<1>5. Joins(ss, Len(ss), f)
  BY <1>4 DEF Joins
<1>6. FlattenSeq(ss) = f[Len(ss)]
  BY <1>2
<1> QED BY <1>5, <1>6

LEMMA JoinsUnique ==
  ASSUME NEW rr, NEW ss, NEW m \in Nat, NEW n \in Nat, m <= n,
         \A i \in 1..m : rr[i] = ss[i], NEW f, Joins(rr, m, f), NEW g, Joins(ss, n, g)
  PROVE  \A i \in 1..m : f[i] = g[i]
<1> DEFINE T == {k \in Nat : k \in 1..m => f[k] = g[k]}
<1>1. 0 \in T
  OBVIOUS
<1>2. ASSUME NEW k \in Nat, k \in T PROVE k + 1 \in T
  <2> SUFFICES ASSUME k + 1 \in 1..m PROVE f[k + 1] = g[k + 1]
    OBVIOUS
  <2>1. k + 1 \in 1..n /\ (k + 1) - 1 = k /\ rr[k + 1] = ss[k + 1]
    OBVIOUS
  <2>2. /\ f[k + 1] = IF k + 1 = 1 THEN rr[k + 1] ELSE f[k] \o rr[k + 1]
        /\ g[k + 1] = IF k + 1 = 1 THEN ss[k + 1] ELSE g[k] \o ss[k + 1]
    BY <2>1 DEF Joins
  <2>3. k + 1 # 1 => f[k] = g[k]
    BY <1>2
  <2> QED BY <2>1, <2>2, <2>3
<1> HIDE DEF T
<1>3. Nat \subseteq T
  BY <1>1, <1>2, SetInduction
<1> QED BY <1>3 DEF T

THEOREM FlattenNil == FlattenSeq(<<>>) = <<>>
BY EmptySeq DEF FlattenSeq

(* The last of the sequences comes last; and what is in them stays.        *)
LEMMA FlattenOne ==
  ASSUME NEW E, NEW x \in Seq(E), NEW ss, Len(ss) = 1, ss[1] = x
  PROVE  FlattenSeq(ss) = x
<1>1. Len(ss) \in Nat \ {0}
  OBVIOUS
<1>2. PICK f : Joins(ss, Len(ss), f) /\ FlattenSeq(ss) = f[Len(ss)]
  BY <1>1, FlattenHasJoins
<1> QED BY <1>2 DEF Joins

LEMMA FlattenAppendFull ==
  ASSUME NEW F, NEW ss \in Seq(F), ss # <<>>, NEW x \in F
  PROVE  FlattenSeq(Append(ss, x)) = FlattenSeq(ss) \o x
<1> DEFINE tt == Append(ss, x)
<1>1. /\ Len(tt) = Len(ss) + 1 /\ Len(ss) \in Nat \ {0} /\ tt[Len(ss) + 1] = x
      /\ \A i \in 1..Len(ss) : tt[i] = ss[i]
  BY AppendProperties, LenProperties, EmptySeq
<1> HIDE DEF tt
<1>2. PICK n \in Nat \ {0} : n = Len(ss)
  BY <1>1
<1>3. PICK f : Joins(ss, n, f) /\ FlattenSeq(ss) = f[n]
  BY <1>2, FlattenHasJoins
<1>4. PICK g : Joins(tt, n + 1, g) /\ FlattenSeq(tt) = g[n + 1]
  <2>1. Len(tt) \in Nat \ {0} /\ Len(tt) = n + 1
    BY <1>1, <1>2
  <2>2. \E g : Joins(tt, Len(tt), g) /\ FlattenSeq(tt) = g[Len(tt)]
    BY <2>1, FlattenHasJoins
  <2> QED BY <2>1, <2>2
<1>5. f[n] = g[n]
  <2>1. n \in Nat /\ n + 1 \in Nat /\ n <= n + 1 /\ n \in 1..n
    OBVIOUS
  <2>2. \A i \in 1..n : ss[i] = tt[i]
    BY <1>1, <1>2
  <2>3. PICK m \in Nat : m = n + 1
    BY <2>1
  <2>4. Joins(ss, n, f) /\ Joins(tt, m, g) /\ n <= m
    BY <1>3, <1>4, <2>3
  <2>5. \A i \in 1..n : f[i] = g[i]
    BY <2>1, <2>2, <2>4, JoinsUnique
  <2> QED BY <2>1, <2>5
<1>6. g[n + 1] = g[n] \o tt[n + 1]
  <2>1. n + 1 \in 1..(n + 1) /\ n + 1 # 1 /\ (n + 1) - 1 = n
    OBVIOUS
  <2> QED BY <1>4, <2>1 DEF Joins
<1> QED BY <1>1, <1>2, <1>3, <1>4, <1>5, <1>6 DEF tt

THEOREM FlattenType ==
  ASSUME NEW E, NEW ss \in Seq(Seq(E))
  PROVE  FlattenSeq(ss) \in Seq(E)
<1> DEFINE T == {rr \in Seq(Seq(E)) : FlattenSeq(rr) \in Seq(E)}
<1>1. <<>> \in T
  BY EmptySeq, FlattenNil
<1>2. ASSUME NEW rr \in Seq(Seq(E)), NEW x \in Seq(E), rr \in T
      PROVE  Append(rr, x) \in T
  <2>1. Append(rr, x) \in Seq(Seq(E))
    BY AppendProperties
  <2>2. CASE rr = <<>>
    <3>1. Len(Append(rr, x)) = 1 /\ Append(rr, x)[1] = x
      BY <2>2
    <3> QED BY <2>1, <3>1, FlattenOne
  <2>3. CASE rr # <<>>
    <3>1. FlattenSeq(Append(rr, x)) = FlattenSeq(rr) \o x
      BY <2>3, FlattenAppendFull
    <3>2. FlattenSeq(rr) \o x \in Seq(E)
      BY <1>2, ConcatProperties
    <3> QED BY <2>1, <3>1, <3>2
  <2> QED BY <2>2, <2>3
<1> HIDE DEF T
<1>3. Seq(Seq(E)) \subseteq T
  BY <1>1, <1>2, SeqInduction
<1> QED BY <1>3 DEF T

THEOREM FlattenAppend ==
  ASSUME NEW E, NEW ss \in Seq(Seq(E)), NEW x \in Seq(E)
  PROVE  FlattenSeq(Append(ss, x)) = FlattenSeq(ss) \o x
<1>1. CASE ss = <<>>
  <2>1. Len(Append(ss, x)) = 1 /\ Append(ss, x)[1] = x
    BY <1>1
  <2>2. FlattenSeq(Append(ss, x)) = x
    BY <2>1, FlattenOne
  <2>3. FlattenSeq(ss) = <<>>
    BY <1>1, FlattenNil
  <2> QED BY <2>2, <2>3, ConcatEmptySeq
<1>2. CASE ss # <<>>
  <2>1. \A F : ss \in Seq(F) /\ x \in F => FlattenSeq(Append(ss, x)) = FlattenSeq(ss) \o x
    BY <1>2, FlattenAppendFull
  <2> QED BY <2>1
<1> QED BY <1>1, <1>2

(* Appending to the second part of a concatenation appends to the whole.   *)
LEMMA ConcatAppend ==
  ASSUME NEW D, NEW s \in Seq(D), NEW t \in Seq(D), NEW x \in D
  PROVE  s \o Append(t, x) = Append(s \o t, x) /\ s \o t \in Seq(D)
<1>1. <<x>> \in Seq(D)
  OBVIOUS
<1>2. s \o t \in Seq(D)
  OBVIOUS
<1>3. (s \o t) \o <<x>> = s \o (t \o <<x>>)
  BY <1>1, ConcatAssociative, SMTT(60)
<1>4. Append(t, x) = t \o <<x>> /\ Append(s \o t, x) = (s \o t) \o <<x>>
  BY <1>2, AppendIsConcat
<1> QED BY <1>2, <1>3, <1>4

(* Flattening goes by parts.                                               *)
THEOREM FlattenConcat ==
  ASSUME NEW E, NEW ss \in Seq(Seq(E)), NEW tt \in Seq(Seq(E))
  PROVE  FlattenSeq(ss \o tt) = FlattenSeq(ss) \o FlattenSeq(tt)
<1> DEFINE S == Seq(Seq(E))
<1> DEFINE T == {rr \in S : FlattenSeq(ss \o rr) = FlattenSeq(ss) \o FlattenSeq(rr)}
<1>1. <<>> \in T
  <2>1. <<>> \in S /\ ss \o <<>> = ss
    BY EmptySeq, ConcatEmptySeq
  <2>2. FlattenSeq(ss) \in Seq(E) /\ FlattenSeq(<<>>) = <<>>
    BY FlattenType, FlattenNil
  <2>3. FlattenSeq(ss) \o <<>> = FlattenSeq(ss)
    BY <2>2, ConcatEmptySeq
  <2> QED BY <2>1, <2>2, <2>3
<1>2. ASSUME NEW rr \in S, NEW x \in Seq(E), rr \in T
      PROVE  Append(rr, x) \in T
  <2>1. Append(rr, x) \in S
    BY AppendProperties
  <2>2. ss \o Append(rr, x) = Append(ss \o rr, x) /\ ss \o rr \in S
    <3>1. ss \in Seq(Seq(E)) /\ rr \in Seq(Seq(E))
      BY DEF S
    <3> QED BY <3>1, ConcatAppend, SMTT(60) DEF S
  <2>3. FlattenSeq(Append(ss \o rr, x)) = FlattenSeq(ss \o rr) \o x
    BY <2>2, FlattenAppend
  <2>4. FlattenSeq(Append(rr, x)) = FlattenSeq(rr) \o x
    BY FlattenAppend
  <2>5. FlattenSeq(ss) \in Seq(E) /\ FlattenSeq(rr) \in Seq(E)
    BY FlattenType
  <2>6. (FlattenSeq(ss) \o FlattenSeq(rr)) \o x = FlattenSeq(ss) \o (FlattenSeq(rr) \o x)
    BY <2>5, ConcatAssociative, SMTT(60)
  <2>7. FlattenSeq(ss \o rr) = FlattenSeq(ss) \o FlattenSeq(rr)
    BY <1>2
  <2> QED BY <2>1, <2>2, <2>3, <2>4, <2>6, <2>7
<1> HIDE DEF T
<1>3. S \subseteq T
  BY <1>1, <1>2, SeqInduction
<1> QED BY <1>3 DEF T

(* What a flattened sequence holds.                                        *)
THEOREM FlattenRange ==
  ASSUME NEW E, NEW ss \in Seq(Seq(E))
  PROVE  ToSet(FlattenSeq(ss)) = UNION {ToSet(ss[i]) : i \in DOMAIN ss}
<1> DEFINE T == {rr \in Seq(Seq(E)) :
                   ToSet(FlattenSeq(rr)) = UNION {ToSet(rr[i]) : i \in DOMAIN rr}}
<1>1. <<>> \in T
  BY EmptySeq, FlattenNil DEF ToSet
<1>2. ASSUME NEW rr \in Seq(Seq(E)), NEW x \in Seq(E), rr \in T
      PROVE  Append(rr, x) \in T
  <2> DEFINE n == Len(rr)
  <2> DEFINE tt == Append(rr, x)
  <2>1. /\ tt \in Seq(Seq(E)) /\ n \in Nat /\ Len(tt) = n + 1 /\ tt[n + 1] = x
        /\ \A i \in 1..n : tt[i] = rr[i]
    BY AppendProperties, LenProperties
  <2>2. DOMAIN tt = 1..(n + 1) /\ DOMAIN rr = 1..n
    BY <2>1, LenProperties
  <2>3. FlattenSeq(tt) = FlattenSeq(rr) \o x /\ FlattenSeq(rr) \in Seq(E)
    BY FlattenAppend, FlattenType
  <2>4. ToSet(FlattenSeq(rr) \o x) = ToSet(FlattenSeq(rr)) \cup ToSet(x)
    <3>1. \A y, z \in Seq(E) : ToSet(y \o z) = ToSet(y) \cup ToSet(z)
      <4> SUFFICES ASSUME NEW y \in Seq(E), NEW z \in Seq(E)
                   PROVE  ToSet(y \o z) = ToSet(y) \cup ToSet(z)
        OBVIOUS
      <4>1. Range(y \o z) = Range(y) \cup Range(z)
        BY RangeConcatenation
      <4> QED BY <4>1 DEF ToSet, Range
    <3> QED BY <2>3, <3>1
  <2>5. UNION {ToSet(tt[i]) : i \in 1..(n + 1)} = (UNION {ToSet(rr[i]) : i \in 1..n}) \cup ToSet(x)
    <3> HIDE DEF tt, n
    <3>1. 1..(n + 1) = 1..n \cup {n + 1}
      BY <2>1
    <3>2. {ToSet(tt[i]) : i \in 1..(n + 1)} = {ToSet(rr[i]) : i \in 1..n} \cup {ToSet(x)}
      BY <2>1, <3>1
    <3> QED BY <3>2
  <2>6. ToSet(FlattenSeq(rr)) = UNION {ToSet(rr[i]) : i \in DOMAIN rr}
    BY <1>2
  <2> HIDE DEF tt, n
  <2>7. ToSet(FlattenSeq(tt)) = UNION {ToSet(tt[i]) : i \in DOMAIN tt}
    BY <2>2, <2>3, <2>4, <2>5, <2>6
  <2>8. tt \in T
    BY <2>1, <2>7
  <2> QED BY <2>8 DEF tt
<1> HIDE DEF T
<1>3. Seq(Seq(E)) \subseteq T
  BY <1>1, <1>2, SeqInduction
<1> QED BY <1>3 DEF T
=============================================================================
