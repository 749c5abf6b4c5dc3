----------------------------- MODULE Filtering -----------------------------
(***************************************************************************)
(* Facts about what is left of a sequence when only the elements that pass *)
(* a test are kept, in their order.  The test is an operator constant; c   *)
(* is whatever it depends on besides the element.                          *)
(***************************************************************************)
EXTENDS Integers, SequencesExt, SequenceTheorems, TLAPS

CONSTANT test(_, _)

KeepOne(c, kept, e) == IF test(c, e) THEN Append(kept, e) ELSE kept

F == INSTANCE Folding WITH op <- KeepOne

Keep(c, s) == F!Fold(c, <<>>, s)

-----------------------------------------------------------------------------
THEOREM KeepNil ==
  ASSUME NEW c
  PROVE  Keep(c, <<>>) = <<>>
BY F!FoldNil DEF Keep

THEOREM KeepAppend ==
  ASSUME NEW c, NEW E, NEW s \in Seq(E), NEW e \in E
  PROVE  Keep(c, Append(s, e)) = IF test(c, e) THEN Append(Keep(c, s), e) ELSE Keep(c, s)
<1>1. F!Fold(c, <<>>, Append(s, e)) = KeepOne(c, F!Fold(c, <<>>, s), e)
  BY F!FoldAppend
<1> QED BY <1>1 DEF Keep, KeepOne

(* Only elements that pass are kept.                                       *)
THEOREM KeepType ==
  ASSUME NEW c, NEW E, NEW s \in Seq(E)
  PROVE  Keep(c, s) \in Seq({e \in E : test(c, e)})
<1> DEFINE S == Seq({e \in E : test(c, e)})
<1>1. <<>> \in S
  BY EmptySeq
<1>2. \A x \in S, e \in E : KeepOne(c, x, e) \in S
  BY AppendProperties DEF KeepOne
<1> HIDE DEF S
<1>3. F!Fold(c, <<>>, s) \in S
  BY <1>1, <1>2, F!FoldType
<1> QED BY <1>3 DEF Keep, S

(* All that pass are kept.                                                 *)
THEOREM KeepRange ==
  ASSUME NEW c, NEW E, NEW s \in Seq(E)
  PROVE  ToSet(Keep(c, s)) = {e \in ToSet(s) : test(c, e)}
<1> DEFINE T == {r \in Seq(E) : ToSet(Keep(c, r)) = {e \in ToSet(r) : test(c, e)}}
<1>1. <<>> \in T
  BY KeepNil, EmptySeq DEF ToSet
<1>2. ASSUME NEW r \in Seq(E), NEW e \in E, r \in T PROVE Append(r, e) \in T
  <2>1. \A D : \A x \in Seq(D), d \in D : ToSet(Append(x, d)) = ToSet(x) \cup {d}
    <3> SUFFICES ASSUME NEW D, NEW x \in Seq(D), NEW d \in D
                 PROVE  ToSet(Append(x, d)) = ToSet(x) \cup {d}
      OBVIOUS
    <3>1. /\ Append(x, d) \in Seq(D) /\ Len(x) \in Nat
          /\ DOMAIN Append(x, d) = 1..(Len(x) + 1) /\ DOMAIN x = 1..Len(x)
          /\ \A i \in 1..Len(x) : Append(x, d)[i] = x[i]
          /\ Append(x, d)[Len(x) + 1] = d
      BY AppendProperties, LenProperties
    <3>2. 1..(Len(x) + 1) = 1..Len(x) \cup {Len(x) + 1}
      BY <3>1
    <3> QED BY <3>1, <3>2 DEF ToSet
  <2>2. Append(r, e) \in Seq(E) /\ ToSet(Append(r, e)) = ToSet(r) \cup {e}
    BY <2>1, AppendProperties
  <2>3. Keep(c, Append(r, e)) = IF test(c, e) THEN Append(Keep(c, r), e) ELSE Keep(c, r)
    BY KeepAppend
  <2>4. Keep(c, r) \in Seq({d \in E : test(c, d)})
    BY KeepType
  <2>5. test(c, e) => ToSet(Append(Keep(c, r), e)) = ToSet(Keep(c, r)) \cup {e}
    BY <2>1, <2>4
  <2>6. ToSet(Keep(c, r)) = {d \in ToSet(r) : test(c, d)}
    BY <1>2
  <2>7. ToSet(Keep(c, Append(r, e))) = {d \in ToSet(Append(r, e)) : test(c, d)}
    <3>1. CASE test(c, e)
      BY <2>2, <2>3, <2>5, <2>6, <3>1
    <3>2. CASE ~test(c, e)
      BY <2>2, <2>3, <2>6, <3>2
    <3> QED BY <3>1, <3>2
  <2> QED BY <2>2, <2>7
<1> HIDE DEF T
<1>3. Seq(E) \subseteq T
  BY <1>1, <1>2, F!SeqInduction
<1> QED BY <1>3 DEF T

(* Keeping goes by parts.                                                  *)
THEOREM KeepConcat ==
  ASSUME NEW c, NEW E, NEW s \in Seq(E), NEW t \in Seq(E)
  PROVE  Keep(c, s \o t) = Keep(c, s) \o Keep(c, t)
<1> DEFINE T == {r \in Seq(E) : Keep(c, s \o r) = Keep(c, s) \o Keep(c, r)}
<1>0. \A r \in Seq(E) : Keep(c, r) \in Seq(E)
  <2>1. \A r \in Seq(E) : Keep(c, r) \in Seq({d \in E : test(c, d)})
    BY KeepType
  <2> QED BY <2>1, SeqMonotonic
<1>1. <<>> \in T
  BY <1>0, KeepNil, EmptySeq, ConcatEmptySeq
<1>2. ASSUME NEW r \in Seq(E), NEW e \in E, r \in T PROVE Append(r, e) \in T
  <2>1. /\ s \o Append(r, e) = Append(s \o r, e)
        /\ s \o r \in Seq(E) /\ Append(r, e) \in Seq(E)
    <3>1. s \o Append(r, e) = Append(s \o r, e) /\ s \o r \in Seq(E)
      BY F!ConcatAppend, SMTT(60)
    <3> QED BY <3>1, AppendProperties
  <2>2. /\ Keep(c, Append(r, e)) = IF test(c, e) THEN Append(Keep(c, r), e) ELSE Keep(c, r)
        /\ Keep(c, Append(s \o r, e)) =
             IF test(c, e) THEN Append(Keep(c, s \o r), e) ELSE Keep(c, s \o r)
    BY <2>1, KeepAppend
  <2>3. Keep(c, s \o r) = Keep(c, s) \o Keep(c, r)
    BY <1>2
  <2>4. Append(Keep(c, s) \o Keep(c, r), e) = Keep(c, s) \o Append(Keep(c, r), e)
    <3>1. Keep(c, s) \in Seq(E) /\ Keep(c, r) \in Seq(E)
      BY <1>0
    <3> DEFINE x == Keep(c, s)
               y == Keep(c, r)
    <3>2. x \in Seq(E) /\ y \in Seq(E)
      BY <3>1
    <3> HIDE DEF x, y
    <3>3. x \o Append(y, e) = Append(x \o y, e)
      BY <3>2, F!ConcatAppend, SMTT(60)
    <3> QED BY <3>3 DEF x, y
  <2> QED BY <2>1, <2>2, <2>3, <2>4
<1> HIDE DEF T
<1>3. Seq(E) \subseteq T
  BY <1>1, <1>2, F!SeqInduction
<1> QED BY <1>3 DEF T

(* A sequence of elements that all pass stays, of others nothing does.     *)
THEOREM KeepAll ==
  ASSUME NEW c, NEW E, NEW s \in Seq(E), \A e \in E : test(c, e)
  PROVE  Keep(c, s) = s
<1> DEFINE T == {r \in Seq(E) : Keep(c, r) = r}
<1>1. <<>> \in T
  BY KeepNil, EmptySeq
<1>2. ASSUME NEW r \in Seq(E), NEW e \in E, r \in T PROVE Append(r, e) \in T
  BY <1>2, KeepAppend, AppendProperties
<1> HIDE DEF T
<1>3. Seq(E) \subseteq T
  BY <1>1, <1>2, F!SeqInduction
<1> QED BY <1>3 DEF T

THEOREM KeepNone ==
  ASSUME NEW c, NEW E, NEW s \in Seq(E), \A e \in E : ~test(c, e)
  PROVE  Keep(c, s) = <<>>
<1> DEFINE T == {r \in Seq(E) : Keep(c, r) = <<>>}
<1>1. <<>> \in T
  BY KeepNil, EmptySeq
<1>2. ASSUME NEW r \in Seq(E), NEW e \in E, r \in T PROVE Append(r, e) \in T
  BY <1>2, KeepAppend, AppendProperties
<1> HIDE DEF T
<1>3. Seq(E) \subseteq T
  BY <1>1, <1>2, F!SeqInduction
<1> QED BY <1>3 DEF T

(* Where what is kept was.                                                 *)
THEOREM KeepPlaces ==
  ASSUME NEW c, NEW E, NEW s \in Seq(E)
  PROVE  \E f \in [1..Len(Keep(c, s)) -> 1..Len(s)] :
           /\ \A i \in 1..Len(Keep(c, s)) : Keep(c, s)[i] = s[f[i]]
           /\ \A i, j \in 1..Len(Keep(c, s)) : i < j => f[i] < f[j]
<1> DEFINE Places(r, k, f) == /\ f \in [1..Len(k) -> 1..Len(r)]
                              /\ \A i \in 1..Len(k) : k[i] = r[f[i]]
                              /\ \A i, j \in 1..Len(k) : i < j => f[i] < f[j]
<1> DEFINE T == {r \in Seq(E) : \E f : Places(r, Keep(c, r), f)}
<1>0. \A r \in Seq(E) : Keep(c, r) \in Seq(E) /\ Len(Keep(c, r)) \in Nat /\ Len(r) \in Nat
  <2>1. \A r \in Seq(E) : Keep(c, r) \in Seq({d \in E : test(c, d)})
    BY KeepType
  <2> QED BY <2>1, SeqMonotonic, LenProperties
<1>1. <<>> \in T
  <2>1. Keep(c, <<>>) = <<>> /\ Len(<<>>) = 0 /\ <<>> \in Seq(E)
    BY KeepNil, EmptySeq
  <2>2. Places(<<>>, <<>>, [i \in 1..0 |-> i])
    BY <2>1
  <2> QED BY <2>1, <2>2
<1>2. ASSUME NEW r \in Seq(E), NEW e \in E, r \in T PROVE Append(r, e) \in T
  <2> DEFINE k == Keep(c, r)
  <2>1. PICK f : Places(r, k, f)
    BY <1>2
  <2>2. /\ Append(r, e) \in Seq(E) /\ Len(Append(r, e)) = Len(r) + 1
        /\ \A i \in 1..Len(r) : Append(r, e)[i] = r[i]
        /\ Append(r, e)[Len(r) + 1] = e
    BY AppendProperties
  <2>3. k \in Seq(E) /\ Len(k) \in Nat /\ Len(r) \in Nat
    BY <1>0
  <2>4. Keep(c, Append(r, e)) = IF test(c, e) THEN Append(k, e) ELSE k
    BY KeepAppend
  <2> HIDE DEF k
  <2>5. CASE test(c, e)
    <3> DEFINE g == [i \in 1..(Len(k) + 1) |-> IF i = Len(k) + 1 THEN Len(r) + 1 ELSE f[i]]
    <3>1. /\ Len(Append(k, e)) = Len(k) + 1
          /\ \A i \in 1..Len(k) : Append(k, e)[i] = k[i]
          /\ Append(k, e)[Len(k) + 1] = e
      BY <2>3, AppendProperties
    <3>2. \A i \in 1..Len(k) : g[i] = f[i] /\ f[i] \in 1..Len(r)
      BY <2>1, <2>3
    <3>3. g[Len(k) + 1] = Len(r) + 1
      BY <2>3
    <3>4. g \in [1..(Len(k) + 1) -> 1..(Len(r) + 1)]
      <4>1. ASSUME NEW i \in 1..(Len(k) + 1) PROVE g[i] \in 1..(Len(r) + 1)
        <5>1. i \in 1..Len(k) \/ i = Len(k) + 1
          BY <2>3
        <5> HIDE DEF g
        <5> QED BY <2>3, <3>2, <3>3, <5>1
      <4> QED BY <4>1
    <3> HIDE DEF g
    <3>5. \A i \in 1..(Len(k) + 1) : i \in 1..Len(k) \/ i = Len(k) + 1
      BY <2>3
    <3>6. ASSUME NEW i \in 1..(Len(k) + 1)
          PROVE  Append(k, e)[i] = Append(r, e)[g[i]]
      BY <2>1, <2>2, <3>1, <3>2, <3>3, <3>5
    <3>7. ASSUME NEW i \in 1..(Len(k) + 1), NEW j \in 1..(Len(k) + 1), i < j
          PROVE  g[i] < g[j]
      <4>1. i \in 1..Len(k)
        BY <2>3, <3>7
      <4>2. CASE j \in 1..Len(k)
        BY <2>1, <3>2, <3>7, <4>1, <4>2
      <4>3. CASE j = Len(k) + 1
        BY <2>3, <3>2, <3>3, <4>1, <4>3
      <4> QED BY <3>5, <4>2, <4>3
    <3>8. Places(Append(r, e), Append(k, e), g)
      BY <2>2, <3>1, <3>4, <3>6, <3>7
    <3> QED BY <2>2, <2>4, <2>5, <3>8
  <2>6. CASE ~test(c, e)
    <3>1. \A i \in 1..Len(k) : f[i] \in 1..Len(r) /\ Append(r, e)[f[i]] = r[f[i]]
      BY <2>1, <2>2
    <3>2. f \in [1..Len(k) -> 1..(Len(r) + 1)]
      BY <2>1, <2>3
    <3>3. Places(Append(r, e), k, f)
      BY <2>1, <2>2, <3>1, <3>2
    <3> QED BY <2>2, <2>4, <2>6, <3>3
  <2> QED BY <2>5, <2>6
<1> HIDE DEF T
<1>3. Seq(E) \subseteq T
  BY <1>1, <1>2, F!SeqInduction
<1>4. s \in T
  BY <1>3
<1> QED BY <1>4 DEF T
=============================================================================
