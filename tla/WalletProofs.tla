---------------------------- MODULE WalletProofs ----------------------------
(***************************************************************************)
(* The safety properties of WalletCrawler, proved for all transactions,    *)
(* blocks and pools, and for every bound.                                  *)
(***************************************************************************)
EXTENDS WalletCrawler, SequenceTheorems, FiniteSetTheorems, TLAPS

BaseStep(c, m, e) == Base!Reduce(m, e)

FB == INSTANCE Folding WITH op <- BaseStep

-----------------------------------------------------------------------------
(* The value of a set of outputs.                                          *)

Worth(o) == Base!VoutOf(o).value

Chosen(s) == CHOOSE x \in s : TRUE

SumStep(g, s) == IF s = {} THEN 0 ELSE Worth(Chosen(s)) + g[s \ {Chosen(s)}]

Sums(S, g) == g = [s \in SUBSET S |-> SumStep(g, s)]

Outpoints == (DOMAIN Tx) \X Nat

(* The outputs that there are.                                             *)
AllOutputs(T) == UNION {{t} \X DOMAIN Tx[t].vout : t \in T}

LEMMA WorthType ==
  ASSUME NEW o \in AllOutputs(DOMAIN Tx)
  PROVE  Worth(o) \in Nat /\ Base!VoutOf(o).address \in Addresses /\ o \in Outpoints
<1>1. PICK t \in DOMAIN Tx : o \in {t} \X DOMAIN Tx[t].vout
  BY DEF AllOutputs
<1>2. o[1] = t /\ o[2] \in DOMAIN Tx[t].vout
  BY <1>1
<1>3. Tx[t].vout \in Seq([address : Addresses, value : Nat])
  BY TxAssumption
<1>4. Tx[t].vout[o[2]] \in [address : Addresses, value : Nat] /\ o[2] \in Nat
  <2>1. DOMAIN Tx[t].vout = 1..Len(Tx[t].vout) /\ Len(Tx[t].vout) \in Nat
    BY <1>3, LenProperties
  <2>2. \A n \in 1..Len(Tx[t].vout) : Tx[t].vout[n] \in [address : Addresses, value : Nat]
    BY <1>3, ElementOfSeq
  <2> QED BY <1>2, <2>1, <2>2
<1>5. o \in Outpoints
  BY <1>1, <1>4 DEF Outpoints
<1> QED BY <1>2, <1>4, <1>5 DEF Worth, Base!VoutOf

LEMMA FiniteInduction ==
  ASSUME NEW S, IsFiniteSet(S), NEW T, {} \in T,
         \A r \in SUBSET S, x \in S : r \in T /\ x \notin r => r \cup {x} \in T
  PROVE  SUBSET S \subseteq T
<1> DEFINE U == {n \in Nat : \A r \in SUBSET S : Cardinality(r) = n => r \in T}
<1>0. \A r \in SUBSET S : IsFiniteSet(r) /\ Cardinality(r) \in Nat
  BY FS_Subset, FS_CardinalityType
<1>1. 0 \in U
  BY <1>0, FS_EmptySet
<1>2. ASSUME NEW n \in Nat, n \in U PROVE n + 1 \in U
  <2> SUFFICES ASSUME NEW r \in SUBSET S, Cardinality(r) = n + 1 PROVE r \in T
    OBVIOUS
  <2>1. r # {}
    BY FS_EmptySet
  <2>2. PICK x \in r : TRUE
    BY <2>1
  <2>3. r \ {x} \in SUBSET S /\ Cardinality(r \ {x}) = n
    <3>1. Cardinality(r \ {x}) = Cardinality(r) - 1
      BY <1>0, <2>2, FS_RemoveElement
    <3> QED BY <3>1
  <2>4. r \ {x} \in T
    BY <1>2, <2>3
  <2>5. r = (r \ {x}) \cup {x}
    BY <2>2
  <2> QED BY <2>2, <2>3, <2>4, <2>5
<1> HIDE DEF U
<1>3. Nat \subseteq U
  BY <1>1, <1>2, FB!SetInduction
<1> QED BY <1>0, <1>3 DEF U

LEMMA SumsExists ==
  ASSUME NEW S, IsFiniteSet(S)
  PROVE  \E g : Sums(S, g)
<1> DEFINE Level(n) == {s \in SUBSET S : Cardinality(s) <= n}
<1> DEFINE U == {n \in Nat : \E g : g = [s \in Level(n) |-> SumStep(g, s)]}
<1>0. \A s \in SUBSET S : IsFiniteSet(s) /\ Cardinality(s) \in Nat
  BY FS_Subset, FS_CardinalityType
<1>1. 0 \in U
  <2> DEFINE g == [s \in Level(0) |-> 0]
  <2>1. \A s \in Level(0) : s = {}
    BY <1>0, FS_EmptySet
  <2>2. g = [s \in Level(0) |-> SumStep(g, s)]
    BY <2>1 DEF SumStep
  <2> QED BY <2>2
<1>2. ASSUME NEW n \in Nat, n \in U PROVE n + 1 \in U
  <2>1. PICK g : g = [s \in Level(n) |-> SumStep(g, s)]
    BY <1>2
  <2> DEFINE h == [s \in Level(n + 1) |-> IF s \in Level(n) THEN g[s] ELSE SumStep(g, s)]
  <2>2. ASSUME NEW s \in Level(n + 1) PROVE h[s] = SumStep(h, s)
    <3>1. h[s] = SumStep(g, s)
      BY <2>1
    <3>2. CASE s = {}
      BY <3>1, <3>2 DEF SumStep
    <3>3. CASE s # {}
      <4>1. Chosen(s) \in s
        BY <3>3 DEF Chosen
      <4>2. Cardinality(s \ {Chosen(s)}) = Cardinality(s) - 1
        BY <1>0, <4>1, FS_RemoveElement
      <4>3. s \ {Chosen(s)} \in Level(n) /\ s \ {Chosen(s)} \in Level(n + 1)
        BY <1>0, <4>2
      <4>4. h[s \ {Chosen(s)}] = g[s \ {Chosen(s)}]
        BY <4>3
      <4> HIDE DEF h
      <4> QED BY <3>1, <3>3, <4>4 DEF SumStep
    <3> QED BY <3>2, <3>3
  <2>3. h = [s \in Level(n + 1) |-> SumStep(h, s)]
    BY <2>2
  <2> HIDE DEF h, Level
  <2> QED BY <2>3
<1>3. Nat \subseteq U
  <2> HIDE DEF U
  <2> QED BY <1>1, <1>2, FB!SetInduction
<1>4. Cardinality(S) \in U
  BY <1>3, FS_CardinalityType
<1>5. Level(Cardinality(S)) = SUBSET S
  BY FS_Subset
<1> QED BY <1>4, <1>5 DEF Sums

LEMMA ValueIsSum ==
  ASSUME NEW S, IsFiniteSet(S)
  PROVE  \E g : Sums(S, g) /\ Base!Value(S) = g[S]
<1>1. PICK g : /\ Base!Value(S) = g[S]
               /\ g = CHOOSE f : f = [s \in SUBSET S |-> SumStep(f, s)]
  BY DEF Base!Value, Base!MapThenSumSet, Base!MapThenFoldSet, SumStep, Worth, Chosen
<1>2. \E f : f = [s \in SUBSET S |-> SumStep(f, s)]
  BY SumsExists DEF Sums
<1>3. g = [s \in SUBSET S |-> SumStep(g, s)]
  BY <1>1, <1>2
<1> QED BY <1>1, <1>3 DEF Sums

(* In which order the outputs are added makes no difference.               *)
LEMMA SumsAnyOrder ==
  ASSUME NEW S \in SUBSET AllOutputs(DOMAIN Tx), IsFiniteSet(S), NEW g, Sums(S, g)
  PROVE  \A s \in SUBSET S : /\ g[s] \in Nat
                             /\ \A x \in s : g[s] = Worth(x) + g[s \ {x}]
<1> DEFINE Good(s) == /\ g[s] \in Nat
                      /\ \A x \in s : g[s] = Worth(x) + g[s \ {x}]
<1> DEFINE U == {n \in Nat : \A s \in SUBSET S : Cardinality(s) <= n => Good(s)}
<1>0. \A s \in SUBSET S : IsFiniteSet(s) /\ Cardinality(s) \in Nat
  BY FS_Subset, FS_CardinalityType
<1>1. 0 \in U
  <2>1. \A s \in SUBSET S : Cardinality(s) <= 0 => s = {}
    BY <1>0, FS_EmptySet
  <2>2. Good({})
    BY DEF Sums, SumStep
  <2> HIDE DEF Good
  <2> QED BY <2>1, <2>2
<1>2. ASSUME NEW n \in Nat, n \in U PROVE n + 1 \in U
  <2> SUFFICES ASSUME NEW s \in SUBSET S, Cardinality(s) = n + 1 PROVE Good(s)
    <3>1. \A s \in SUBSET S : Cardinality(s) <= n + 1 => Cardinality(s) <= n \/ Cardinality(s) = n + 1
      BY <1>0
    <3> HIDE DEF Good
    <3> QED BY <1>2, <3>1
  <2>1. \A x \in s : s \ {x} \in SUBSET S /\ Good(s \ {x})
    <3> SUFFICES ASSUME NEW x \in s PROVE s \ {x} \in SUBSET S /\ Good(s \ {x})
      OBVIOUS
    <3>1. Cardinality(s \ {x}) = Cardinality(s) - 1
      BY <1>0, FS_RemoveElement
    <3>2. Cardinality(s \ {x}) <= n
      BY <3>1
    <3> HIDE DEF Good
    <3> QED BY <1>2, <3>2
  <2> DEFINE y == Chosen(s)
  <2>2. s # {}
    BY FS_EmptySet
  <2>3. y \in s
    BY <2>2 DEF Chosen
  <2>4. g[s] = Worth(y) + g[s \ {y}]
    BY <2>2 DEF Sums, SumStep
  <2>5. \A x \in s : Worth(x) \in Nat /\ g[s \ {x}] \in Nat
    BY <2>1, WorthType
  <2> HIDE DEF y
  <2>6. ASSUME NEW x \in s PROVE g[s] = Worth(x) + g[s \ {x}]
    <3>1. CASE x = y
      BY <2>4, <3>1
    <3>2. CASE x # y
      <4>1. x \in s \ {y} /\ y \in s \ {x}
        BY <2>3, <3>2
      <4>2. g[s \ {y}] = Worth(x) + g[(s \ {y}) \ {x}]
        BY <2>1, <2>3, <4>1
      <4>3. g[s \ {x}] = Worth(y) + g[(s \ {x}) \ {y}]
        BY <2>1, <4>1
      <4>4. (s \ {y}) \ {x} = (s \ {x}) \ {y}
        OBVIOUS
      <4> DEFINE z == (s \ {x}) \ {y}
      <4>5. g[z] \in Nat
        <5>1. z \in SUBSET S /\ Cardinality(z) <= n
          <6>1. Cardinality(s \ {x}) = Cardinality(s) - 1 /\ IsFiniteSet(s \ {x})
            BY <1>0, FS_RemoveElement
          <6>2. Cardinality(z) <= Cardinality(s \ {x}) /\ Cardinality(z) \in Nat
            BY <1>0, <6>1, FS_Subset
          <6> QED BY <6>1, <6>2
        <5>2. Good(z)
          <6> HIDE DEF z, Good
          <6> QED BY <1>2, <5>1
        <5> QED BY <5>2
      <4> HIDE DEF z
      <4>6. g[s \ {y}] = Worth(x) + g[z] /\ g[s \ {x}] = Worth(y) + g[z]
        BY <4>2, <4>3, <4>4 DEF z
      <4> QED BY <2>3, <2>4, <2>5, <4>5, <4>6
    <3> QED BY <3>1, <3>2
  <2>7. g[s] \in Nat
    BY <2>3, <2>4, <2>5
  <2> QED BY <2>6, <2>7
<1> HIDE DEF U
<1>3. Nat \subseteq U
  BY <1>1, <1>2, FB!SetInduction
<1> QED BY <1>0, <1>3 DEF U

LEMMA ValueAdd ==
  ASSUME NEW S \in SUBSET AllOutputs(DOMAIN Tx), IsFiniteSet(S)
  PROVE  /\ Base!Value(S) \in Nat
         /\ \A x \in S : Base!Value(S) = Worth(x) + Base!Value(S \ {x})
<1>1. PICK g : Sums(S, g) /\ Base!Value(S) = g[S]
  BY ValueIsSum
<1>2. /\ g[S] \in Nat
      /\ \A x \in S : g[S] = Worth(x) + g[S \ {x}]
  BY <1>1, SumsAnyOrder
<1>3. ASSUME NEW x \in S PROVE Base!Value(S \ {x}) = g[S \ {x}]
  <2> DEFINE R == S \ {x}
  <2>1. IsFiniteSet(R) /\ R \in SUBSET S
    BY FS_Subset
  <2> HIDE DEF R
  <2>2. PICK f : Sums(R, f) /\ Base!Value(R) = f[R]
    BY <2>1, ValueIsSum
  <2> DEFINE T == {s \in SUBSET R : f[s] = g[s]}
  <2>3. {} \in T
    BY <1>1, <2>2 DEF Sums, SumStep
  <2>4. ASSUME NEW r \in SUBSET R, NEW y \in R, r \in T, y \notin r PROVE r \cup {y} \in T
    <3> DEFINE u == r \cup {y}
    <3>1. u \in SUBSET R /\ u \in SUBSET S /\ y \in u /\ u \ {y} = r
      BY <2>1, <2>4
    <3> HIDE DEF u
    <3>2. f[u] = Worth(y) + f[u \ {y}]
      <4>1. R \in SUBSET AllOutputs(DOMAIN Tx)
        BY <2>1
      <4>2. \A s \in SUBSET R : f[s] \in Nat /\ \A z \in s : f[s] = Worth(z) + f[s \ {z}]
        BY <2>1, <2>2, <4>1, SumsAnyOrder
      <4> QED BY <3>1, <4>2
    <3>3. g[u] = Worth(y) + g[u \ {y}]
      <4>1. \A s \in SUBSET S : g[s] \in Nat /\ \A z \in s : g[s] = Worth(z) + g[s \ {z}]
        BY <1>1, SumsAnyOrder
      <4> QED BY <3>1, <4>1
    <3>4. u \in T
      BY <2>4, <3>1, <3>2, <3>3
    <3> QED BY <3>4 DEF u
  <2> HIDE DEF T
  <2>5. SUBSET R \subseteq T
    BY <2>1, <2>3, <2>4, FiniteInduction
  <2>6. f[R] = g[R]
    BY <2>5 DEF T
  <2> QED BY <2>2, <2>6 DEF R
<1> QED BY <1>1, <1>2, <1>3

LEMMA ValueNone == Base!Value({}) = 0
<1>1. IsFiniteSet({})
  BY FS_EmptySet
<1>2. PICK g : Sums({}, g) /\ Base!Value({}) = g[{}]
  BY <1>1, ValueIsSum
<1> QED BY <1>2 DEF Sums, SumStep

(* The value of what is put together, and of what is left.                 *)
LEMMA ValueUnion ==
  ASSUME NEW A \in SUBSET AllOutputs(DOMAIN Tx), IsFiniteSet(A),
         NEW B \in SUBSET AllOutputs(DOMAIN Tx), IsFiniteSet(B), A \cap B = {}
  PROVE  Base!Value(A \cup B) = Base!Value(A) + Base!Value(B)
<1> DEFINE T == {b \in SUBSET B : Base!Value(A \cup b) = Base!Value(A) + Base!Value(b)}
<1>0. \A b \in SUBSET B : /\ IsFiniteSet(b) /\ IsFiniteSet(A \cup b)
                          /\ b \in SUBSET AllOutputs(DOMAIN Tx)
                          /\ A \cup b \in SUBSET AllOutputs(DOMAIN Tx)
  BY FS_Subset, FS_Union
<1>1. Base!Value(A) \in Nat
  BY ValueAdd
<1>2. {} \in T
  BY <1>1, ValueNone
<1>3. ASSUME NEW r \in SUBSET B, NEW y \in B, r \in T, y \notin r PROVE r \cup {y} \in T
  <2> DEFINE u == r \cup {y}
  <2>1. u \in SUBSET B /\ y \in u /\ u \ {y} = r
    BY <1>3
  <2> DEFINE w == A \cup u
  <2>2. w \in SUBSET AllOutputs(DOMAIN Tx) /\ IsFiniteSet(w) /\ y \in w /\ w \ {y} = A \cup r
    BY <1>0, <1>3, <2>1
  <2>3. u \in SUBSET AllOutputs(DOMAIN Tx) /\ IsFiniteSet(u)
    BY <1>0, <2>1
  <2> HIDE DEF u
  <2>4. Base!Value(u) = Worth(y) + Base!Value(r)
    BY <2>1, <2>3, ValueAdd
  <2>5. Base!Value(w) = Worth(y) + Base!Value(A \cup r)
    <3> HIDE DEF w
    <3> QED BY <2>2, ValueAdd
  <2>6. Worth(y) \in Nat /\ Base!Value(r) \in Nat
    <3>1. r \in SUBSET AllOutputs(DOMAIN Tx) /\ IsFiniteSet(r)
      BY <1>0
    <3> QED BY <3>1, ValueAdd, WorthType
  <2>7. u \in T
    BY <1>1, <1>3, <2>1, <2>4, <2>5, <2>6
  <2> QED BY <2>7 DEF u
<1> HIDE DEF T
<1>4. SUBSET B \subseteq T
  BY <1>2, <1>3, FiniteInduction
<1> QED BY <1>4 DEF T

LEMMA ValueDifference ==
  ASSUME NEW A \in SUBSET AllOutputs(DOMAIN Tx), IsFiniteSet(A), NEW B \in SUBSET A
  PROVE  /\ Base!Value(A \ B) = Base!Value(A) - Base!Value(B)
         /\ Base!Value(A) \in Nat /\ Base!Value(B) \in Nat /\ Base!Value(A \ B) \in Nat
<1> DEFINE C == A \ B
<1>1. /\ IsFiniteSet(B) /\ IsFiniteSet(C) /\ C \cap B = {} /\ C \cup B = A
      /\ B \in SUBSET AllOutputs(DOMAIN Tx) /\ C \in SUBSET AllOutputs(DOMAIN Tx)
  BY FS_Subset
<1> HIDE DEF C
<1>2. Base!Value(A) = Base!Value(C) + Base!Value(B)
  BY <1>1, ValueUnion
<1>3. Base!Value(A) \in Nat /\ Base!Value(B) \in Nat /\ Base!Value(C) \in Nat
  BY <1>1, ValueAdd
<1> QED BY <1>2, <1>3 DEF C

(* There are finitely many outputs.                                        *)
LEMMA OutputsFinite ==
  ASSUME NEW T \in SUBSET DOMAIN Tx
  PROVE  IsFiniteSet(AllOutputs(T)) /\ AllOutputs(T) \subseteq AllOutputs(DOMAIN Tx)
<1> DEFINE P(t) == {t} \X DOMAIN Tx[t].vout
<1>1. \A t \in DOMAIN Tx : IsFiniteSet(P(t))
  <2> SUFFICES ASSUME NEW t \in DOMAIN Tx PROVE IsFiniteSet({t} \X DOMAIN Tx[t].vout)
    OBVIOUS
  <2>1. Tx[t].vout \in Seq([address : Addresses, value : Nat])
    BY TxAssumption
  <2>2. DOMAIN Tx[t].vout = 1..Len(Tx[t].vout) /\ Len(Tx[t].vout) \in Nat
    BY <2>1, LenProperties
  <2>3. IsFiniteSet(1..Len(Tx[t].vout))
    BY <2>2, FS_Interval
  <2>4. IsFiniteSet({t})
    BY FS_Singleton
  <2> QED BY <2>2, <2>3, <2>4, FS_Product
<1> HIDE DEF P
<1> DEFINE f == [t \in T |-> P(t)]
           S == {P(t) : t \in T}
<1>2. IsFiniteSet(T)
  BY TxAssumption, FS_Subset
<1>3. IsFiniteSet(S)
  <2>1. f \in Surjection(T, S)
    BY DEF Surjection
  <2> HIDE DEF f, S
  <2> QED BY <1>2, <2>1, FS_Surjection
<1>4. IsFiniteSet(UNION S)
  <2>1. \A s \in S : IsFiniteSet(s)
    BY <1>1
  <2> HIDE DEF S
  <2> QED BY <1>3, <2>1, FS_UNION
<1>5. AllOutputs(T) = UNION S
  BY DEF AllOutputs, P
<1>6. AllOutputs(T) \subseteq AllOutputs(DOMAIN Tx)
  BY DEF AllOutputs
<1> QED BY <1>4, <1>5, <1>6

-----------------------------------------------------------------------------
(* The chain: what is confirmed, and what a valid one guarantees.          *)

Chains == Seq(Seq(DOMAIN Tx))

Ins(T) == UNION {ToSet(Tx[t].vin) : t \in T}

(* Transactions T2 come after T1: they are new, and spend what there is.   *)
Follows(T2, T1) ==
  /\ T2 \cap T1 = {}
  /\ \A t \in T2 : \A o \in ToSet(Tx[t].vin) : o[1] \in T1 \cup T2

LEMMA FlattenIs == \A ss : FlattenSeq(ss) = FB!FlattenSeq(ss)
BY DEF FlattenSeq, FB!FlattenSeq

LEMMA ToSetConcat ==
  ASSUME NEW E, NEW s \in Seq(E), NEW t \in Seq(E)
  PROVE  ToSet(s \o t) = ToSet(s) \cup ToSet(t)
<1>1. Range(s \o t) = Range(s) \cup Range(t)
  BY RangeConcatenation
<1> QED BY <1>1 DEF ToSet, Range

LEMMA ToSetAppend ==
  ASSUME NEW E, NEW s \in Seq(E), NEW e \in E
  PROVE  ToSet(Append(s, e)) = ToSet(s) \cup {e}
<1>1. /\ Append(s, e) \in Seq(E) /\ Len(s) \in Nat
      /\ DOMAIN Append(s, e) = 1..(Len(s) + 1) /\ DOMAIN s = 1..Len(s)
      /\ \A i \in 1..Len(s) : Append(s, e)[i] = s[i]
      /\ Append(s, e)[Len(s) + 1] = e
  BY AppendProperties, LenProperties
<1>2. 1..(Len(s) + 1) = 1..Len(s) \cup {Len(s) + 1}
  BY <1>1
<1> QED BY <1>1, <1>2 DEF ToSet

LEMMA ToSetType ==
  ASSUME NEW E, NEW s \in Seq(E)
  PROVE  ToSet(s) \subseteq E
<1>1. DOMAIN s = 1..Len(s)
  BY LenProperties
<1> QED BY <1>1, ElementOfSeq DEF ToSet

LEMMA ConfirmedFacts ==
  ASSUME NEW c \in Chains
  PROVE  /\ Confirmed(c) = ToSet(FlattenSeq(c))
         /\ FlattenSeq(c) \in Seq(DOMAIN Tx)
         /\ Confirmed(c) \subseteq DOMAIN Tx
<1>1. FlattenSeq(c) \in Seq(DOMAIN Tx)
  BY FlattenIs, FB!FlattenType DEF Chains
<1>2. ToSet(FlattenSeq(c)) = UNION {ToSet(c[i]) : i \in DOMAIN c}
  <2>1. FB!ToSet(FB!FlattenSeq(c)) = UNION {FB!ToSet(c[i]) : i \in DOMAIN c}
    BY FB!FlattenRange DEF Chains
  <2> QED BY <2>1, FlattenIs DEF ToSet, FB!ToSet
<1>3. ToSet(FlattenSeq(c)) \subseteq DOMAIN Tx
  BY <1>1, ToSetType
<1> QED BY <1>1, <1>2, <1>3 DEF Confirmed

LEMMA ConfirmedConcat ==
  ASSUME NEW c \in Chains, NEW d \in Chains
  PROVE  Confirmed(c \o d) = Confirmed(c) \cup Confirmed(d) /\ c \o d \in Chains
<1>1. c \o d \in Chains
  BY ConcatProperties DEF Chains
<1>2. FlattenSeq(c \o d) = FlattenSeq(c) \o FlattenSeq(d)
  BY FlattenIs, FB!FlattenConcat DEF Chains
<1> DEFINE s == FlattenSeq(c)
           u == FlattenSeq(d)
<1>3. /\ s \in Seq(DOMAIN Tx) /\ Confirmed(c) = ToSet(s)
      /\ u \in Seq(DOMAIN Tx) /\ Confirmed(d) = ToSet(u)
      /\ Confirmed(c \o d) = ToSet(s \o u)
  BY <1>1, <1>2, ConfirmedFacts
<1> HIDE DEF s, u
<1>4. ToSet(s \o u) = ToSet(s) \cup ToSet(u)
  BY <1>3, ToSetConcat
<1> QED BY <1>1, <1>3, <1>4

LEMMA ConfirmedOne ==
  ASSUME NEW b \in Seq(DOMAIN Tx)
  PROVE  <<b>> \in Chains /\ Confirmed(<<b>>) = ToSet(b)
BY DEF Chains, Confirmed

LEMMA ConfirmedNil == <<>> \in Chains /\ Confirmed(<<>>) = {} /\ Valid(<<>>)
<1>1. <<>> \in Chains
  BY EmptySeq DEF Chains
<1>2. FlattenSeq(<<>>) = <<>>
  BY FlattenIs, FB!FlattenNil
<1>3. DOMAIN <<>> = {}
  BY EmptySeq
<1>4. Confirmed(<<>>) = {}
  BY <1>3 DEF Confirmed
<1>5. Valid(<<>>)
  BY <1>2, <1>3 DEF Valid
<1> QED BY <1>1, <1>4, <1>5

LEMMA ValidParts ==
  ASSUME NEW c \in Chains, NEW d \in Chains, Valid(c \o d)
  PROVE  Valid(c) /\ Follows(Confirmed(d), Confirmed(c))
<1> DEFINE s == FlattenSeq(c)
           u == FlattenSeq(d)
           txs == FlattenSeq(c \o d)
           n == Len(s)
           Good(x, i) == LET before == ToSet(SubSeq(x, 1, i - 1))
                         IN  /\ x[i] \notin before
                             /\ \A o \in ToSet(Tx[x[i]].vin) :
                                  /\ o[1] \in before
                                  /\ o \notin UNION {ToSet(Tx[t].vin) : t \in before}
<1>1. s \in Seq(DOMAIN Tx) /\ u \in Seq(DOMAIN Tx) /\ ToSet(s) = Confirmed(c) /\ ToSet(u) = Confirmed(d)
  BY ConfirmedFacts
<1>2. txs = s \o u
  BY FlattenIs, FB!FlattenConcat DEF Chains
<1>3. \A i \in DOMAIN txs : Good(txs, i)
  BY DEF Valid
<1>4. Valid(c) <=> \A i \in DOMAIN s : Good(s, i)
  BY DEF Valid
<1> HIDE DEF s, u, txs, Good
<1>5. /\ n \in Nat /\ Len(u) \in Nat /\ txs \in Seq(DOMAIN Tx) /\ Len(txs) = n + Len(u)
      /\ DOMAIN s = 1..n /\ DOMAIN u = 1..Len(u) /\ DOMAIN txs = 1..(n + Len(u))
      /\ \A i \in 1..(n + Len(u)) : txs[i] = IF i <= n THEN s[i] ELSE u[i - n]
  <2>1. /\ txs \in Seq(DOMAIN Tx) /\ Len(txs) = Len(s) + Len(u)
        /\ \A i \in 1..(Len(s) + Len(u)) : txs[i] = IF i <= Len(s) THEN s[i] ELSE u[i - Len(s)]
    BY <1>1, <1>2, ConcatProperties
  <2>2. Len(s) \in Nat /\ DOMAIN s = 1..Len(s) /\ Len(u) \in Nat /\ DOMAIN u = 1..Len(u)
    BY <1>1, LenProperties
  <2>3. DOMAIN txs = 1..Len(txs)
    BY <2>1, LenProperties
  <2> QED BY <2>1, <2>2, <2>3
<1> HIDE DEF n
<1>6. \A i \in 1..(n + Len(u)) : ToSet(SubSeq(txs, 1, i - 1)) = {txs[j] : j \in 1..(i - 1)}
  <2> SUFFICES ASSUME NEW i \in 1..(n + Len(u))
               PROVE  ToSet(SubSeq(txs, 1, i - 1)) = {txs[j] : j \in 1..(i - 1)}
    OBVIOUS
  <2>1. i \in Nat /\ i - 1 \in Nat /\ i - 1 <= n + Len(u)
    BY <1>5
  <2>2. SubSeq(txs, 1, i - 1) = [j \in 1..(i - 1) |-> txs[j]]
    BY <1>5, <2>1
  <2> QED BY <2>2 DEF ToSet
<1>7. \A i \in 1..n : SubSeq(txs, 1, i - 1) = SubSeq(s, 1, i - 1)
  <2> SUFFICES ASSUME NEW i \in 1..n PROVE SubSeq(txs, 1, i - 1) = SubSeq(s, 1, i - 1)
    OBVIOUS
  <2>1. i - 1 \in Nat /\ i - 1 <= n
    BY <1>5
  <2>2. \A j \in 1..(i - 1) : txs[j] = s[j]
    BY <1>5, <2>1
  <2>3. SubSeq(txs, 1, i - 1) = [j \in 1..(i - 1) |-> txs[j]]
    BY <1>5, <2>1
  <2>4. SubSeq(s, 1, i - 1) = [j \in 1..(i - 1) |-> s[j]]
    BY <1>1, <1>5, <2>1
  <2> QED BY <2>2, <2>3, <2>4
<1>8. Valid(c)
  <2>1. ASSUME NEW i \in 1..n PROVE Good(s, i)
    <3>1. i \in 1..(n + Len(u)) /\ txs[i] = s[i]
      BY <1>5
    <3> QED BY <1>3, <1>5, <1>7, <3>1 DEF Good
  <2> QED BY <1>4, <1>5, <2>1
<1>9. Follows(ToSet(u), ToSet(s))
  <2> SUFFICES ASSUME NEW k \in 1..Len(u)
               PROVE  /\ u[k] \notin ToSet(s)
                      /\ \A o \in ToSet(Tx[u[k]].vin) : o[1] \in ToSet(s) \cup ToSet(u)
    <3>1. \A t \in ToSet(u) : \E k \in 1..Len(u) : t = u[k]
      BY <1>5 DEF ToSet
    <3> QED BY <3>1 DEF Follows
  <2>1. n + k \in 1..(n + Len(u)) /\ ~(n + k <= n) /\ (n + k) - n = k
    BY <1>5
  <2>2. txs[n + k] = u[k]
    BY <1>5, <2>1
  <2>3. ToSet(s) \subseteq {txs[j] : j \in 1..((n + k) - 1)}
    <3> SUFFICES ASSUME NEW j \in 1..n PROVE s[j] \in {txs[i] : i \in 1..((n + k) - 1)}
      BY <1>5 DEF ToSet
    <3>1. j \in 1..((n + k) - 1) /\ j \in 1..(n + Len(u)) /\ j <= n
      BY <1>5
    <3> QED BY <1>5, <3>1
  <2>4. {txs[j] : j \in 1..((n + k) - 1)} \subseteq ToSet(s) \cup ToSet(u)
    <3> SUFFICES ASSUME NEW j \in 1..(n + Len(u)) PROVE txs[j] \in ToSet(s) \cup ToSet(u)
      BY <1>5, <2>1
    <3>1. CASE j <= n
      <4>1. j \in 1..n
        BY <3>1
      <4> QED BY <1>5, <3>1, <4>1 DEF ToSet
    <3>2. CASE ~(j <= n)
      <4>1. j - n \in 1..Len(u)
        BY <1>5, <3>2
      <4> QED BY <1>5, <3>2, <4>1 DEF ToSet
    <3> QED BY <3>1, <3>2
  <2>5. Good(txs, n + k)
    BY <1>3, <1>5, <2>1
  <2>6. ToSet(SubSeq(txs, 1, (n + k) - 1)) = {txs[j] : j \in 1..((n + k) - 1)}
    BY <1>6, <2>1
  <2> QED BY <2>2, <2>3, <2>4, <2>5, <2>6 DEF Good
<1> QED BY <1>1, <1>8, <1>9

(* A valid chain spends its own outputs.                                   *)
LEMMA ValidClosed ==
  ASSUME NEW c \in Chains, Valid(c)
  PROVE  \A t \in Confirmed(c) : \A o \in ToSet(Tx[t].vin) : o[1] \in Confirmed(c)
<1>1. <<>> \o c = c
  BY ConcatEmptySeq DEF Chains
<1>2. Follows(Confirmed(c), {})
  BY <1>1, ConfirmedNil, ValidParts
<1> QED BY <1>2 DEF Follows

-----------------------------------------------------------------------------
(* Events that are stored block by block, and what a fork leaves of them.  *)

IsUpTo(h, e) == e.height <= h

K == INSTANCE Filtering WITH test <- IsUpTo

LEMMA UpToIsKeep ==
  ASSUME NEW events, NEW h
  PROVE  UpTo(events, h) = K!Keep(h, events)
BY DEF UpTo, FoldLeft, MapThenFoldSet, Max, K!Keep, K!F!Fold, K!F!Max, K!KeepOne, IsUpTo

LEMMA SeqOfPart ==
  ASSUME NEW E, NEW s \in Seq(E), NEW D, ToSet(s) \subseteq D
  PROVE  s \in Seq(D)
<1>1. Len(s) \in Nat /\ DOMAIN s = 1..Len(s) /\ s = [i \in 1..Len(s) |-> s[i]]
  BY LenProperties
<1>2. s \in [1..Len(s) -> D]
  BY <1>1 DEF ToSet
<1>3. \A n \in Nat : \A f \in [1..n -> D] : f \in Seq(D)
  OBVIOUS
<1> QED BY <1>1, <1>2, <1>3

LEMMA UpToParts ==
  ASSUME NEW E, NEW P \in Seq(Seq(E)), NEW h \in Nat, h + 1 <= Len(P),
         \A i \in 1..Len(P) : \A e \in ToSet(P[i]) : e.height = i - 1
  PROVE  UpTo(FlattenSeq(P), h) = FlattenSeq(SubSeq(P, 1, h + 1))
<1> DEFINE n == Len(P)
           A == SubSeq(P, 1, h + 1)
           B == SubSeq(P, h + 2, n)
           EA == {e \in E : e.height <= h}
           EB == {e \in E : ~(e.height <= h)}
<1>1. n \in Nat /\ h + 1 <= n /\ \A i \in 1..n : P[i] \in Seq(E)
  BY LenProperties, ElementOfSeq
<1>2. A \in Seq(Seq(EA))
  <2>1. \A i \in 1..(h + 1) : P[i] \in Seq(EA)
    <3> SUFFICES ASSUME NEW i \in 1..(h + 1) PROVE P[i] \in Seq(EA)
      OBVIOUS
    <3>1. i \in 1..n /\ i - 1 <= h
      BY <1>1
    <3>2. P[i] \in Seq(E) /\ ToSet(P[i]) \subseteq E
      BY <1>1, <3>1, ToSetType
    <3>3. \A e \in ToSet(P[i]) : e.height = i - 1
      BY <3>1
    <3>4. ToSet(P[i]) \subseteq EA
      BY <3>1, <3>2, <3>3
    <3> HIDE DEF EA
    <3> QED BY <3>2, <3>4, SeqOfPart
  <2> HIDE DEF EA
  <2>2. 1 \in Int /\ h + 1 \in Int
    OBVIOUS
  <2> QED BY <2>1, <2>2, SubSeqProperties
<1>3. B \in Seq(Seq(EB))
  <2>1. \A i \in (h + 2)..n : P[i] \in Seq(EB)
    <3> SUFFICES ASSUME NEW i \in (h + 2)..n PROVE P[i] \in Seq(EB)
      OBVIOUS
    <3>1. i \in 1..n /\ ~(i - 1 <= h)
      BY <1>1
    <3>2. P[i] \in Seq(E) /\ ToSet(P[i]) \subseteq E
      BY <1>1, <3>1, ToSetType
    <3>3. \A e \in ToSet(P[i]) : e.height = i - 1
      BY <3>1
    <3>4. ToSet(P[i]) \subseteq EB
      BY <3>1, <3>2, <3>3
    <3> HIDE DEF EB
    <3> QED BY <3>2, <3>4, SeqOfPart
  <2> HIDE DEF EB
  <2>2. h + 2 \in Int /\ n \in Int
    BY <1>1
  <2> QED BY <2>1, <2>2, SubSeqProperties
<1>4. A \o B = P
  <2>1. 1 \in 1..(n + 1) /\ h + 1 \in (1 - 1)..n /\ n \in (h + 1)..n /\ (h + 1) + 1 = h + 2
    BY <1>1
  <2>2. SubSeq(P, 1, h + 1) \o SubSeq(P, (h + 1) + 1, n) = SubSeq(P, 1, n)
    BY <2>1, ConcatAdjacentSubSeq
  <2>3. SubSeq(P, 1, n) = P
    BY SubSeqFull
  <2> QED BY <2>1, <2>2, <2>3, Zenon
<1>5. FlattenSeq(A) \in Seq(EA) /\ FlattenSeq(B) \in Seq(EB)
  <2> HIDE DEF A, B, EA, EB
  <2> QED BY <1>2, <1>3, FlattenIs, FB!FlattenType
<1>6. K!Keep(h, FlattenSeq(A)) = FlattenSeq(A)
  <2>1. \A e \in EA : IsUpTo(h, e)
    BY DEF IsUpTo
  <2> HIDE DEF A, EA
  <2> QED BY <1>5, <2>1, K!KeepAll
<1>7. K!Keep(h, FlattenSeq(B)) = <<>>
  <2>1. \A e \in EB : ~IsUpTo(h, e)
    BY DEF IsUpTo
  <2> HIDE DEF B, EB
  <2> QED BY <1>5, <2>1, K!KeepNone
<1>8. /\ A \in Seq(Seq(E)) /\ B \in Seq(Seq(E))
      /\ FlattenSeq(A) \in Seq(E) /\ FlattenSeq(B) \in Seq(E)
  <2>1. EA \subseteq E /\ EB \subseteq E
    OBVIOUS
  <2>2. Seq(EA) \subseteq Seq(E) /\ Seq(EB) \subseteq Seq(E)
    <3> HIDE DEF EA, EB
    <3> QED BY <2>1, SeqMonotonic
  <2>3. Seq(Seq(EA)) \subseteq Seq(Seq(E)) /\ Seq(Seq(EB)) \subseteq Seq(Seq(E))
    <3> HIDE DEF EA, EB
    <3> QED BY <2>2, SeqMonotonic
  <2> HIDE DEF A, B, EA, EB
  <2> QED BY <1>2, <1>3, <1>5, <2>2, <2>3
<1> HIDE DEF A, B, EA, EB, n
<1>9. FlattenSeq(P) = FlattenSeq(A) \o FlattenSeq(B)
  BY <1>4, <1>8, FlattenIs, FB!FlattenConcat
<1>10. K!Keep(h, FlattenSeq(P)) = FlattenSeq(A) \o <<>>
  <2> DEFINE x == FlattenSeq(A)
             y == FlattenSeq(B)
  <2>1. x \in Seq(E) /\ y \in Seq(E) /\ K!Keep(h, x) = x /\ K!Keep(h, y) = <<>>
    BY <1>6, <1>7, <1>8
  <2> HIDE DEF x, y
  <2>2. K!Keep(h, x \o y) = K!Keep(h, x) \o K!Keep(h, y)
    BY <2>1, K!KeepConcat
  <2> QED BY <1>9, <2>1, <2>2 DEF x, y
<1>11. FlattenSeq(A) \o <<>> = FlattenSeq(A)
  BY <1>8, ConcatEmptySeq
<1> QED BY <1>10, <1>11, UpToIsKeep DEF A

-----------------------------------------------------------------------------
(* The wallet that keeps balances.                                         *)

BaseEvent == {e \in [type      : {"WalletCredited", "WalletDebited"},
                     height    : Int,
                     outpoints : SUBSET Outpoints] : e.outpoints # {}}

WalletOutputs(T) == {o \in AllOutputs(T) : Base!VoutOf(o).address \in Watched}

LEMMA BlockSets ==
  ASSUME NEW b \in Seq(DOMAIN Tx)
  PROVE  /\ Base!Outputs(b) = WalletOutputs(ToSet(b)) /\ Base!Outputs(b) \subseteq Outpoints
         /\ Base!Inputs(b) = Ins(ToSet(b)) /\ Base!Inputs(b) \subseteq Outpoints
         /\ ToSet(b) \subseteq DOMAIN Tx
<1>1. ToSet(b) \subseteq DOMAIN Tx
  BY ToSetType
<1>2. Base!ToSet(b) = ToSet(b) /\ \A s : Base!ToSet(s) = ToSet(s)
  BY DEF ToSet, Base!ToSet
<1>3. Base!Outputs(b) = WalletOutputs(ToSet(b))
  BY <1>2 DEF Base!Outputs, WalletOutputs, AllOutputs
<1>4. Base!Inputs(b) = Ins(ToSet(b))
  BY <1>2 DEF Base!Inputs, Ins
<1>5. WalletOutputs(ToSet(b)) \subseteq Outpoints
  <2>1. AllOutputs(ToSet(b)) \subseteq AllOutputs(DOMAIN Tx)
    BY <1>1, OutputsFinite
  <2> QED BY <2>1, WorthType DEF WalletOutputs
<1>6. Ins(ToSet(b)) \subseteq Outpoints
  <2>1. \A t \in DOMAIN Tx : Tx[t].vin \in Seq(Outpoints)
    BY TxAssumption DEF Outpoints
  <2>2. \A t \in DOMAIN Tx : ToSet(Tx[t].vin) \subseteq Outpoints
    BY <2>1, ToSetType
  <2> QED BY <1>1, <2>2 DEF Ins
<1> QED BY <1>1, <1>3, <1>4, <1>5, <1>6

LEMMA NotEmptyFacts ==
  ASSUME NEW e, e.outpoints # {} => e \in BaseEvent
  PROVE  /\ Base!NotEmpty(e) \in Seq(BaseEvent)
         /\ ToSet(Base!NotEmpty(e)) \subseteq {e}
         /\ \A m : FB!Fold(0, m, Base!NotEmpty(e)) = IF e.outpoints = {} THEN m ELSE Base!Reduce(m, e)
<1>1. CASE e.outpoints = {}
  <2>1. Base!NotEmpty(e) = <<>>
    BY <1>1 DEF Base!NotEmpty
  <2> QED BY <1>1, <2>1, EmptySeq, FB!FoldNil DEF ToSet
<1>2. CASE e.outpoints # {}
  <2>1. Base!NotEmpty(e) = <<e>>
    BY <1>2 DEF Base!NotEmpty
  <2>2. e \in BaseEvent
    BY <1>2
  <2>3. <<e>> \in Seq(BaseEvent) /\ <<e>> = Append(<<>>, e) /\ <<>> \in Seq(BaseEvent) /\ ToSet(<<e>>) = {e}
    BY <2>2 DEF ToSet
  <2>4. \A m : FB!Fold(0, m, Append(<<>>, e)) = BaseStep(0, FB!Fold(0, m, <<>>), e)
    <3> DEFINE nothing == <<>>
    <3>1. nothing \in Seq(BaseEvent)
      BY <2>3
    <3> HIDE DEF nothing
    <3>2. \A m : FB!Fold(0, m, Append(nothing, e)) = BaseStep(0, FB!Fold(0, m, nothing), e)
      BY <2>2, <3>1, FB!FoldAppend
    <3> QED BY <3>2 DEF nothing
  <2>5. \A m : FB!Fold(0, m, <<e>>) = Base!Reduce(m, e)
    BY <2>3, <2>4, FB!FoldNil DEF BaseStep
  <2> QED BY <1>2, <2>1, <2>3, <2>5
<1> QED BY <1>1, <1>2

LEMMA BaseEventTypes ==
  ASSUME NEW h \in Int, NEW b \in Seq(DOMAIN Tx)
  PROVE  /\ Base!Credited(h, b).outpoints # {} => Base!Credited(h, b) \in BaseEvent
         /\ Base!Debited(h, b).outpoints # {} => Base!Debited(h, b) \in BaseEvent
         /\ Base!Credited(h, b).outpoints = WalletOutputs(ToSet(b))
         /\ Base!Debited(h, b).outpoints = Ins(ToSet(b))
         /\ Base!Credited(h, b).type = "WalletCredited" /\ Base!Credited(h, b).height = h
         /\ Base!Debited(h, b).type = "WalletDebited" /\ Base!Debited(h, b).height = h
BY BlockSets DEF Base!Credited, Base!Debited, BaseEvent

LEMMA BaseBlockType ==
  ASSUME NEW h \in Int, NEW b \in Seq(DOMAIN Tx)
  PROVE  /\ Base!ProcessBlock(h, b) \in Seq(BaseEvent)
         /\ \A e \in ToSet(Base!ProcessBlock(h, b)) : e.height = h
<1> DEFINE x == Base!NotEmpty(Base!Credited(h, b))
           y == Base!NotEmpty(Base!Debited(h, b))
<1>1. Base!ProcessBlock(h, b) = x \o y
  BY DEF Base!ProcessBlock
<1>2. x \in Seq(BaseEvent) /\ ToSet(x) \subseteq {Base!Credited(h, b)}
  BY BaseEventTypes, NotEmptyFacts
<1>3. y \in Seq(BaseEvent) /\ ToSet(y) \subseteq {Base!Debited(h, b)}
  BY BaseEventTypes, NotEmptyFacts
<1>4. Base!Credited(h, b).height = h /\ Base!Debited(h, b).height = h
  BY BaseEventTypes
<1> HIDE DEF x, y
<1>5. x \o y \in Seq(BaseEvent) /\ ToSet(x \o y) = ToSet(x) \cup ToSet(y)
  BY <1>2, <1>3, ConcatProperties, ToSetConcat
<1> QED BY <1>1, <1>2, <1>3, <1>4, <1>5

-----------------------------------------------------------------------------
(* A state of that wallet, by its unspent outputs.                         *)
Wallet(U, X) ==
  [utxos |-> U, balance |-> [a \in Watched |-> Base!Value(Base!To(a, U))], txids |-> X]

(* The transactions that pay to an address.                                *)
Payers(O) == [a \in Watched |-> {o[1] : o \in Base!To(a, O)}]

CreditsTo(U, O, P, e) ==
  /\ U \subseteq AllOutputs(DOMAIN Tx) /\ O \subseteq AllOutputs(DOMAIN Tx)
  /\ e.type = "WalletCredited" /\ e.outpoints = O
  => Base!Reduce(Wallet(U, Payers(P)), e) = Wallet(U \cup O, Payers(P \cup O))

LEMMA CreditStep ==
  ASSUME NEW U, NEW O, NEW P, NEW e
  PROVE  CreditsTo(U, O, P, e)
<1> SUFFICES ASSUME U \subseteq AllOutputs(DOMAIN Tx), O \subseteq AllOutputs(DOMAIN Tx),
                    e.type = "WalletCredited", e.outpoints = O
             PROVE  Base!Reduce(Wallet(U, Payers(P)), e) = Wallet(U \cup O, Payers(P \cup O))
  BY DEF CreditsTo
<1> DEFINE m == Wallet(U, Payers(P))
           new == O \ U
<1>1. Base!Reduce(m, e) =
        [utxos   |-> m.utxos \cup new,
         balance |-> [a \in Watched |-> m.balance[a] + Base!Value(Base!To(a, new))],
         txids   |-> [a \in Watched |-> m.txids[a] \cup {o[1] : o \in Base!To(a, O)}]]
  BY DEF Base!Reduce, Base!OnWalletCredited, Wallet
<1>2. m.utxos \cup new = U \cup O
  BY DEF Wallet
<1>3. ASSUME NEW a \in Watched
      PROVE  m.balance[a] + Base!Value(Base!To(a, new)) = Base!Value(Base!To(a, U \cup O))
  <2> DEFINE A == Base!To(a, U)
             B == Base!To(a, new)
  <2>1. A \cup B = Base!To(a, U \cup O) /\ A \cap B = {}
    BY DEF Base!To
  <2>2. /\ A \in SUBSET AllOutputs(DOMAIN Tx) /\ IsFiniteSet(A)
        /\ B \in SUBSET AllOutputs(DOMAIN Tx) /\ IsFiniteSet(B)
    <3>1. A \in SUBSET AllOutputs(DOMAIN Tx) /\ B \in SUBSET AllOutputs(DOMAIN Tx)
      BY DEF Base!To
    <3>2. IsFiniteSet(AllOutputs(DOMAIN Tx))
      BY OutputsFinite
    <3> QED BY <3>1, <3>2, FS_Subset
  <2>3. m.balance[a] = Base!Value(A)
    BY DEF Wallet
  <2> HIDE DEF A, B, m
  <2>4. Base!Value(A \cup B) = Base!Value(A) + Base!Value(B)
    BY <2>1, <2>2, ValueUnion
  <2> QED BY <2>1, <2>3, <2>4 DEF B
<1>4. ASSUME NEW a \in Watched
      PROVE  m.txids[a] \cup {o[1] : o \in Base!To(a, O)} = {o[1] : o \in Base!To(a, P \cup O)}
  BY DEF Wallet, Payers, Base!To
<1> HIDE DEF m, new
<1>5. [a \in Watched |-> m.balance[a] + Base!Value(Base!To(a, new))]
        = [a \in Watched |-> Base!Value(Base!To(a, U \cup O))]
  BY <1>3
<1>6. [a \in Watched |-> m.txids[a] \cup {o[1] : o \in Base!To(a, O)}] = Payers(P \cup O)
  BY <1>4 DEF Payers
<1> QED BY <1>1, <1>2, <1>5, <1>6 DEF Wallet, m

LEMMA MaxWithZero ==
  ASSUME NEW x \in Nat
  PROVE  Base!Max({0, x}) = x
BY DEF Base!Max

DebitsTo(U, I, X, e) ==
  U \subseteq AllOutputs(DOMAIN Tx) /\ e.type = "WalletDebited" /\ e.outpoints = I
  => Base!Reduce(Wallet(U, X), e) = Wallet(U \ I, X)

LEMMA DebitStep ==
  ASSUME NEW U, NEW I, NEW X, NEW e
  PROVE  DebitsTo(U, I, X, e)
<1> SUFFICES ASSUME U \subseteq AllOutputs(DOMAIN Tx), e.type = "WalletDebited", e.outpoints = I
             PROVE  Base!Reduce(Wallet(U, X), e) = Wallet(U \ I, X)
  BY DEF DebitsTo
<1> DEFINE m == Wallet(U, X)
           spentNow == I \cap U
<1>1. Base!Reduce(m, e) =
        [utxos   |-> m.utxos \ spentNow,
         balance |-> [a \in Watched |-> Base!Max({0, m.balance[a] - Base!Value(Base!To(a, spentNow))})],
         txids   |-> X]
  BY DEF Base!Reduce, Base!OnWalletDebited, Wallet
<1>2. m.utxos \ spentNow = U \ I
  BY DEF Wallet
<1>3. ASSUME NEW a \in Watched
      PROVE  Base!Max({0, m.balance[a] - Base!Value(Base!To(a, spentNow))})
               = Base!Value(Base!To(a, U \ I))
  <2> DEFINE A == Base!To(a, U)
             B == Base!To(a, spentNow)
  <2>1. A \ B = Base!To(a, U \ I) /\ B \in SUBSET A
    BY DEF Base!To
  <2>2. A \in SUBSET AllOutputs(DOMAIN Tx) /\ IsFiniteSet(A)
    <3>1. A \in SUBSET AllOutputs(DOMAIN Tx)
      BY DEF Base!To
    <3>2. IsFiniteSet(AllOutputs(DOMAIN Tx))
      BY OutputsFinite
    <3> QED BY <3>1, <3>2, FS_Subset
  <2>3. m.balance[a] = Base!Value(A)
    BY DEF Wallet
  <2> HIDE DEF A, B, m
  <2>4. Base!Value(A \ B) = Base!Value(A) - Base!Value(B) /\ Base!Value(A \ B) \in Nat
    BY <2>1, <2>2, ValueDifference
  <2>5. Base!Max({0, Base!Value(A) - Base!Value(B)}) = Base!Value(A \ B)
    BY <2>4, MaxWithZero
  <2> QED BY <2>1, <2>3, <2>5 DEF B
<1> HIDE DEF m, spentNow
<1>4. [a \in Watched |-> Base!Max({0, m.balance[a] - Base!Value(Base!To(a, spentNow))})]
        = [a \in Watched |-> Base!Value(Base!To(a, U \ I))]
  BY <1>3
<1> QED BY <1>1, <1>2, <1>4 DEF Wallet, m

-----------------------------------------------------------------------------
(* What a block makes of what was confirmed before it.                     *)

BaseState(T) == Wallet(WalletOutputs(T) \ Ins(T), Payers(WalletOutputs(T)))

(* No output of a later transaction is spent by an earlier one.            *)
LEMMA LaterOutputs ==
  ASSUME NEW T1 \in SUBSET DOMAIN Tx, NEW T2, Follows(T2, T1),
         \A t \in T1 : \A o \in ToSet(Tx[t].vin) : o[1] \in T1
  PROVE  /\ WalletOutputs(T2) \cap Ins(T1) = {}
         /\ WalletOutputs(T1 \cup T2) = WalletOutputs(T1) \cup WalletOutputs(T2)
         /\ Ins(T1 \cup T2) = Ins(T1) \cup Ins(T2)
         /\ ((WalletOutputs(T1) \ Ins(T1)) \cup WalletOutputs(T2)) \ Ins(T2)
              = WalletOutputs(T1 \cup T2) \ Ins(T1 \cup T2)
<1>1. \A o \in WalletOutputs(T2) : o[1] \in T2
  BY DEF WalletOutputs, AllOutputs
<1>2. \A o \in Ins(T1) : o[1] \in T1
  BY DEF Ins
<1>3. T1 \cap T2 = {}
  BY DEF Follows
<1>4. WalletOutputs(T2) \cap Ins(T1) = {}
  BY <1>1, <1>2, <1>3
<1>5. WalletOutputs(T1 \cup T2) = WalletOutputs(T1) \cup WalletOutputs(T2)
  BY DEF WalletOutputs, AllOutputs
<1>6. Ins(T1 \cup T2) = Ins(T1) \cup Ins(T2)
  BY DEF Ins
<1> QED BY <1>4, <1>5, <1>6

LEMMA BaseBlock ==
  ASSUME NEW T \in SUBSET DOMAIN Tx, NEW b \in Seq(DOMAIN Tx), NEW h \in Int, Follows(ToSet(b), T),
         \A t \in T : \A o \in ToSet(Tx[t].vin) : o[1] \in T
  PROVE  FB!Fold(0, BaseState(T), Base!ProcessBlock(h, b)) = BaseState(T \cup ToSet(b))
<1> DEFINE O == WalletOutputs(T)
           I == Ins(T)
           O2 == WalletOutputs(ToSet(b))
           I2 == Ins(ToSet(b))
           e == Base!Credited(h, b)
           d == Base!Debited(h, b)
           m1 == Wallet((O \ I) \cup O2, Payers(O \cup O2))
           m2 == Wallet(((O \ I) \cup O2) \ I2, Payers(O \cup O2))
<1>1. /\ e.type = "WalletCredited" /\ e.outpoints = O2
      /\ d.type = "WalletDebited" /\ d.outpoints = I2
      /\ e.outpoints # {} => e \in BaseEvent
      /\ d.outpoints # {} => d \in BaseEvent
  BY BaseEventTypes
<1>2. O \subseteq AllOutputs(DOMAIN Tx) /\ O2 \in SUBSET AllOutputs(DOMAIN Tx)
  <2>1. ToSet(b) \subseteq DOMAIN Tx
    BY ToSetType
  <2>2. \A A \in SUBSET DOMAIN Tx : WalletOutputs(A) \subseteq AllOutputs(DOMAIN Tx)
    BY OutputsFinite DEF WalletOutputs
  <2> QED BY <2>1, <2>2
<1>3. FB!Fold(0, BaseState(T), Base!NotEmpty(e)) = m1
  <2>1. FB!Fold(0, BaseState(T), Base!NotEmpty(e))
          = IF e.outpoints = {} THEN BaseState(T) ELSE Base!Reduce(BaseState(T), e)
    BY <1>1, NotEmptyFacts
  <2>2. BaseState(T) = Wallet(O \ I, Payers(O))
    BY DEF BaseState
  <2> HIDE DEF O, I, O2, I2, e, d
  <2>3. CASE O2 = {}
    <3>1. (O \ I) \cup O2 = O \ I /\ O \cup O2 = O
      BY <2>3
    <3> QED BY <1>1, <2>1, <2>2, <2>3, <3>1
  <2>4. CASE O2 # {}
    <3>1. O \ I \subseteq AllOutputs(DOMAIN Tx)
      BY <1>2
    <3>2. Base!Reduce(Wallet(O \ I, Payers(O)), e) = Wallet((O \ I) \cup O2, Payers(O \cup O2))
      <4>1. CreditsTo(O \ I, O2, O, e)
        BY CreditStep
      <4> QED BY <1>1, <1>2, <3>1, <4>1 DEF CreditsTo
    <3> QED BY <1>1, <2>1, <2>2, <2>4, <3>2
  <2> QED BY <2>3, <2>4
<1>4. FB!Fold(0, m1, Base!NotEmpty(d)) = m2
  <2>1. FB!Fold(0, m1, Base!NotEmpty(d))
          = IF d.outpoints = {} THEN m1 ELSE Base!Reduce(m1, d)
    BY <1>1, NotEmptyFacts
  <2> HIDE DEF O, I, O2, I2, e, d
  <2>2. CASE I2 = {}
    <3>1. ((O \ I) \cup O2) \ I2 = (O \ I) \cup O2
      BY <2>2
    <3> QED BY <1>1, <2>1, <2>2, <3>1
  <2>3. CASE I2 # {}
    <3>1. (O \ I) \cup O2 \in SUBSET AllOutputs(DOMAIN Tx)
      BY <1>2
    <3>2. Base!Reduce(m1, d) = m2
      <4>1. DebitsTo((O \ I) \cup O2, I2, Payers(O \cup O2), d)
        BY DebitStep
      <4> QED BY <1>1, <3>1, <4>1 DEF DebitsTo
    <3> QED BY <1>1, <2>1, <2>3, <3>2
  <2> QED BY <2>2, <2>3
<1>5. m2 = BaseState(T \cup ToSet(b))
  BY LaterOutputs DEF BaseState
<1>6. Base!NotEmpty(e) \in Seq(BaseEvent) /\ Base!NotEmpty(d) \in Seq(BaseEvent)
  BY <1>1, NotEmptyFacts
<1>7. Base!ProcessBlock(h, b) = Base!NotEmpty(e) \o Base!NotEmpty(d)
  BY DEF Base!ProcessBlock
<1> DEFINE x == Base!NotEmpty(e)
           y == Base!NotEmpty(d)
           m0 == BaseState(T)
<1> HIDE DEF m0, m1, m2, x, y
<1>8. FB!Fold(0, m0, x \o y) = FB!Fold(0, FB!Fold(0, m0, x), y)
  BY <1>6, FB!FoldConcat DEF x, y
<1> QED BY <1>3, <1>4, <1>5, <1>7, <1>8 DEF x, y, m0

-----------------------------------------------------------------------------
(* The stored events of that wallet, and what they restore.                *)

BaseParts(c) == [i \in DOMAIN c |-> Base!ProcessBlock(i - 1, c[i])]

BaseRows(c) == FlattenSeq(BaseParts(c))

LEMMA BasePartsType ==
  ASSUME NEW c \in Chains
  PROVE  /\ BaseParts(c) \in Seq(Seq(BaseEvent)) /\ Len(BaseParts(c)) = Len(c)
         /\ \A i \in 1..Len(c) : \A e \in ToSet(BaseParts(c)[i]) : e.height = i - 1
         /\ BaseRows(c) \in Seq(BaseEvent)
<1> DEFINE n == Len(c)
<1>1. n \in Nat /\ DOMAIN c = 1..n /\ \A i \in 1..n : c[i] \in Seq(DOMAIN Tx)
  BY LenProperties, ElementOfSeq DEF Chains
<1> HIDE DEF n
<1>2. \A i \in 1..n : /\ Base!ProcessBlock(i - 1, c[i]) \in Seq(BaseEvent)
                      /\ \A e \in ToSet(Base!ProcessBlock(i - 1, c[i])) : e.height = i - 1
  <2> SUFFICES ASSUME NEW i \in 1..n
               PROVE  /\ Base!ProcessBlock(i - 1, c[i]) \in Seq(BaseEvent)
                      /\ \A e \in ToSet(Base!ProcessBlock(i - 1, c[i])) : e.height = i - 1
    OBVIOUS
  <2>1. i - 1 \in Int /\ c[i] \in Seq(DOMAIN Tx)
    BY <1>1
  <2> QED BY <2>1, BaseBlockType
<1>3. BaseParts(c) \in [1..n -> Seq(BaseEvent)] /\ \A i \in 1..n : BaseParts(c)[i] = Base!ProcessBlock(i - 1, c[i])
  BY <1>1, <1>2 DEF BaseParts
<1>4. BaseParts(c) \in Seq(Seq(BaseEvent)) /\ Len(BaseParts(c)) = n
  <2>1. \A D : \A f \in [1..n -> D] : f \in Seq(D) /\ Len(f) = n
    BY <1>1
  <2> QED BY <1>3, <2>1
<1>5. BaseRows(c) \in Seq(BaseEvent)
  BY <1>4, FlattenIs, FB!FlattenType DEF BaseRows
<1> QED BY <1>2, <1>3, <1>4, <1>5 DEF n

LEMMA BaseRestoreIsFold ==
  ASSUME NEW events
  PROVE  Base!Restore(events) = FB!Fold(0, Base!NewModel, events)
BY DEF Base!Restore, Base!FoldLeft, Base!MapThenFoldSet, Base!Max, FB!Fold, FB!Max, BaseStep

LEMMA BaseRowsConcat ==
  ASSUME NEW c \in Chains, NEW d \in Chains
  PROVE  LET more == [i \in DOMAIN d |-> Base!ProcessBlock((Len(c) - 1) + i, d[i])]
         IN  /\ more \in Seq(Seq(BaseEvent)) /\ Len(more) = Len(d)
             /\ FlattenSeq(more) \in Seq(BaseEvent)
             /\ BaseRows(c \o d) = BaseRows(c) \o FlattenSeq(more)
<1> DEFINE n == Len(c)
           k == Len(d)
           more == [i \in DOMAIN d |-> Base!ProcessBlock((n - 1) + i, d[i])]
           all == BaseParts(c \o d)
           parts == BaseParts(c)
<1>1. /\ n \in Nat /\ k \in Nat /\ DOMAIN c = 1..n /\ DOMAIN d = 1..k
      /\ \A i \in 1..k : d[i] \in Seq(DOMAIN Tx)
  BY LenProperties, ElementOfSeq DEF Chains
<1>2. /\ c \o d \in Chains /\ Len(c \o d) = n + k
      /\ \A i \in 1..(n + k) : (c \o d)[i] = IF i <= n THEN c[i] ELSE d[i - n]
  BY ConcatProperties DEF Chains
<1>3. DOMAIN (c \o d) = 1..(n + k)
  BY <1>2, LenProperties DEF Chains
<1> HIDE DEF n, k
<1>4. \A i \in 1..k : Base!ProcessBlock((n - 1) + i, d[i]) \in Seq(BaseEvent)
  <2> SUFFICES ASSUME NEW i \in 1..k PROVE Base!ProcessBlock((n - 1) + i, d[i]) \in Seq(BaseEvent)
    OBVIOUS
  <2>1. (n - 1) + i \in Int /\ d[i] \in Seq(DOMAIN Tx)
    BY <1>1
  <2> QED BY <2>1, BaseBlockType
<1>5. more \in [1..k -> Seq(BaseEvent)] /\ \A i \in 1..k : more[i] = Base!ProcessBlock((n - 1) + i, d[i])
  BY <1>1, <1>4
<1>6. more \in Seq(Seq(BaseEvent)) /\ Len(more) = k
  <2>1. \A D : \A f \in [1..k -> D] : f \in Seq(D) /\ Len(f) = k
    BY <1>1
  <2> HIDE DEF more
  <2> QED BY <1>5, <2>1
<1>7. /\ \A i \in 1..(n + k) : all[i] = Base!ProcessBlock(i - 1, (c \o d)[i])
      /\ \A i \in 1..n : parts[i] = Base!ProcessBlock(i - 1, c[i])
  BY <1>1, <1>3 DEF BaseParts
<1>8. /\ all \in Seq(Seq(BaseEvent)) /\ Len(all) = n + k
      /\ parts \in Seq(Seq(BaseEvent)) /\ Len(parts) = n
  BY <1>2, BasePartsType DEF n, k
<1> HIDE DEF more, all, parts
<1>9. all = parts \o more
  <2>1. /\ parts \o more \in Seq(Seq(BaseEvent)) /\ Len(parts \o more) = n + k
        /\ \A i \in 1..(n + k) : (parts \o more)[i] = IF i <= n THEN parts[i] ELSE more[i - n]
    BY <1>6, <1>8, ConcatProperties
  <2>2. ASSUME NEW i \in 1..(n + k) PROVE all[i] = (parts \o more)[i]
    <3>1. CASE i <= n
      <4>1. i \in 1..n
        BY <1>1, <3>1
      <4> QED BY <1>2, <1>7, <2>1, <3>1, <4>1
    <3>2. CASE ~(i <= n)
      <4>1. i - n \in 1..k /\ i - 1 = (n - 1) + (i - n)
        BY <1>1, <3>2
      <4> QED BY <1>2, <1>5, <1>7, <2>1, <3>2, <4>1
    <3> QED BY <3>1, <3>2
  <2> DEFINE w == parts \o more
  <2> HIDE DEF w
  <2>3. all = w
    BY <1>8, <2>1, <2>2, SeqEqual DEF w
  <2> QED BY <2>3 DEF w
<1>10. FlattenSeq(all) = FlattenSeq(parts) \o FlattenSeq(more)
  BY <1>6, <1>8, <1>9, FlattenIs, FB!FlattenConcat
<1>11. FlattenSeq(more) \in Seq(BaseEvent)
  BY <1>6, FlattenIs, FB!FlattenType
<1> QED BY <1>6, <1>10, <1>11 DEF all, parts, more, n, k, BaseRows

LEMMA BaseRestored ==
  ASSUME NEW c \in Chains, Valid(c)
  PROVE  Base!Restore(BaseRows(c)) = BaseState(Confirmed(c))
<1> DEFINE S == Seq(DOMAIN Tx)
           T == {d \in Seq(S) : Valid(d) => Base!Restore(BaseRows(d)) = BaseState(Confirmed(d))}
<1>1. <<>> \in T
  <2>1. BaseParts(<<>>) = <<>>
    BY ConfirmedNil, BasePartsType, EmptySeq
  <2>2. Base!Restore(BaseRows(<<>>)) = Base!NewModel
    BY <2>1, FlattenIs, FB!FlattenNil, BaseRestoreIsFold, FB!FoldNil DEF BaseRows
  <2>3. WalletOutputs({}) = {}
    BY DEF WalletOutputs, AllOutputs
  <2>4. BaseState({}) = Wallet({}, Payers({}))
    BY <2>3 DEF BaseState
  <2>5. \A a : Base!To(a, {}) = {}
    BY DEF Base!To
  <2>6. Wallet({}, Payers({})) = Base!NewModel
    BY <2>5, ValueNone DEF Wallet, Payers, Base!NewModel
  <2> QED BY <2>2, <2>4, <2>6, ConfirmedNil DEF Chains
<1>2. ASSUME NEW d \in Seq(S), NEW b \in S, d \in T PROVE Append(d, b) \in T
  <2> DEFINE c2 == Append(d, b)
  <2>1. c2 \in Seq(S)
    BY AppendProperties
  <2> SUFFICES ASSUME Valid(c2) PROVE Base!Restore(BaseRows(c2)) = BaseState(Confirmed(c2))
    BY <2>1
  <2>2. c2 = d \o <<b>> /\ d \in Chains /\ <<b>> \in Chains
    BY AppendIsConcat, ConfirmedOne DEF Chains
  <2>3. Valid(d) /\ Follows(ToSet(b), Confirmed(d))
    <3>1. Valid(d \o <<b>>)
      BY <2>2
    <3> HIDE DEF c2
    <3>2. Valid(d) /\ Follows(Confirmed(<<b>>), Confirmed(d))
      BY <2>2, <3>1, ValidParts
    <3> QED BY <3>2, ConfirmedOne
  <2>4. Confirmed(c2) = Confirmed(d) \cup ToSet(b)
    BY <2>2, ConfirmedConcat, ConfirmedOne
  <2> DEFINE x == BaseRows(d)
             y == Base!ProcessBlock(Len(d), b)
             T1 == Confirmed(d)
  <2>5. x \in Seq(BaseEvent) /\ y \in Seq(BaseEvent) /\ Len(d) \in Int
    BY <2>2, BasePartsType, BaseBlockType, LenProperties
  <2>6. BaseRows(c2) = x \o y
    <3> DEFINE n == Len(d)
               one == <<b>>
               more == [i \in DOMAIN one |-> Base!ProcessBlock((n - 1) + i, one[i])]
    <3>1. n \in Nat
      BY LenProperties
    <3>2. Len(more) = 1 /\ more[1] = y
      <4>1. DOMAIN one = 1..1 /\ one[1] = b /\ (n - 1) + 1 = n
        BY <3>1
      <4>2. more = [i \in 1..1 |-> Base!ProcessBlock((n - 1) + i, one[i])]
        BY <4>1
      <4> QED BY <4>1, <4>2
    <3>3. FlattenSeq(more) = y
      <4> HIDE DEF more, y
      <4> QED BY <2>5, <3>2, FlattenIs, FB!FlattenOne
    <3>4. d \in Chains /\ one \in Chains /\ c2 = d \o one
      BY <2>2
    <3> HIDE DEF one, c2
    <3>5. BaseRows(d \o one) = BaseRows(d) \o FlattenSeq(more)
      BY <3>4, BaseRowsConcat
    <3> HIDE DEF x, y, more
    <3> QED BY <3>3, <3>4, <3>5 DEF x
  <2>8. /\ T1 \in SUBSET DOMAIN Tx
        /\ \A t \in T1 : \A o \in ToSet(Tx[t].vin) : o[1] \in T1
    BY <2>2, <2>3, ConfirmedFacts, ValidClosed
  <2>9. FB!Fold(0, BaseState(T1), y) = BaseState(T1 \cup ToSet(b))
    <3> HIDE DEF T1
    <3> QED BY <2>3, <2>5, <2>8, BaseBlock DEF T1
  <2>10. Base!Restore(x) = BaseState(T1)
    BY <1>2, <2>3
  <2> HIDE DEF x, y, T1
  <2>11. FB!Fold(0, Base!NewModel, x \o y) = FB!Fold(0, FB!Fold(0, Base!NewModel, x), y)
    BY <2>5, FB!FoldConcat
  <2>12. Base!Restore(x \o y) = BaseState(T1 \cup ToSet(b))
    BY <2>9, <2>10, <2>11, BaseRestoreIsFold
  <2> QED BY <2>4, <2>6, <2>12 DEF x, y, T1
<1> HIDE DEF T
<1>3. Seq(S) \subseteq T
  <2> HIDE DEF S
  <2> QED BY <1>1, <1>2, FB!SeqInduction
<1> QED BY <1>3 DEF T, Chains

-----------------------------------------------------------------------------
(* The wallet of the system examples: one event per block.                 *)

UtxoEvent == [type    : {"BasicWalletDelta"}, height : Int,
              outputs : SUBSET Outpoints, inputs : SUBSET Outpoints]

UtxoStep(c, unspent, e) == Utxo!OnBasicWalletDelta(unspent, e)

FU == INSTANCE Folding WITH op <- UtxoStep

Delta(h, b) == [type |-> "BasicWalletDelta", height |-> h,
                outputs |-> WalletOutputs(ToSet(b)), inputs |-> Ins(ToSet(b))]

LEMMA UtxoBlockIs ==
  ASSUME NEW h, NEW b \in Seq(DOMAIN Tx)
  PROVE  Utxo!ProcessBlock(h, b) =
           IF WalletOutputs(ToSet(b)) \cup Ins(ToSet(b)) = {} THEN <<>> ELSE <<Delta(h, b)>>
<1>1. Utxo!Base!Outputs(b) = WalletOutputs(ToSet(b)) /\ Utxo!Base!Inputs(b) = Ins(ToSet(b))
  <2>1. Utxo!Base!Outputs(b) = Base!Outputs(b) /\ Utxo!Base!Inputs(b) = Base!Inputs(b)
    BY DEF Utxo!Base!Outputs, Base!Outputs, Utxo!Base!Inputs, Base!Inputs, Utxo!Base!VoutOf, Base!VoutOf,
           Utxo!Base!ToSet, Base!ToSet
  <2> QED BY <2>1, BlockSets
<1> QED BY <1>1 DEF Utxo!ProcessBlock, Delta

LEMMA UtxoBlockType ==
  ASSUME NEW h \in Int, NEW b \in Seq(DOMAIN Tx)
  PROVE  /\ Utxo!ProcessBlock(h, b) \in Seq(UtxoEvent)
         /\ \A e \in ToSet(Utxo!ProcessBlock(h, b)) : e.height = h
<1> DEFINE x == <<Delta(h, b)>>
           nothing == <<>>
<1>1. Delta(h, b) \in UtxoEvent /\ Delta(h, b).height = h
  <2>1. WalletOutputs(ToSet(b)) \subseteq Outpoints /\ Ins(ToSet(b)) \subseteq Outpoints
    BY BlockSets
  <2> QED BY <2>1 DEF Delta, UtxoEvent
<1>2. x \in Seq(UtxoEvent) /\ ToSet(x) = {Delta(h, b)}
  BY <1>1 DEF ToSet
<1>3. nothing \in Seq(UtxoEvent) /\ ToSet(nothing) = {}
  BY EmptySeq DEF ToSet
<1>4. Utxo!ProcessBlock(h, b) = nothing \/ Utxo!ProcessBlock(h, b) = x
  BY UtxoBlockIs
<1> HIDE DEF x, nothing
<1> QED BY <1>1, <1>2, <1>3, <1>4

UtxoState(T) == WalletOutputs(T) \ Ins(T)

LEMMA UtxoBlock ==
  ASSUME NEW T \in SUBSET DOMAIN Tx, NEW b \in Seq(DOMAIN Tx), NEW h \in Int, Follows(ToSet(b), T),
         \A t \in T : \A o \in ToSet(Tx[t].vin) : o[1] \in T
  PROVE  FU!Fold(0, UtxoState(T), Utxo!ProcessBlock(h, b)) = UtxoState(T \cup ToSet(b))
<1> DEFINE O2 == WalletOutputs(ToSet(b))
           I2 == Ins(ToSet(b))
           u == UtxoState(T)
           e == Delta(h, b)
           nothing == <<>>
<1>1. (u \cup O2) \ I2 = UtxoState(T \cup ToSet(b))
  BY LaterOutputs DEF UtxoState
<1>2. CASE O2 \cup I2 = {}
  <2>1. (u \cup O2) \ I2 = u
    <3> HIDE DEF u, O2, I2
    <3> QED BY <1>2
  <2>2. Utxo!ProcessBlock(h, b) = <<>>
    BY <1>2, UtxoBlockIs
  <2> QED BY <1>1, <2>1, <2>2, FU!FoldNil
<1>3. CASE O2 \cup I2 # {}
  <2>1. Utxo!ProcessBlock(h, b) = <<e>>
    BY <1>3, UtxoBlockIs
  <2>2. e.outputs = O2 /\ e.inputs = I2
    BY DEF Delta
  <2>3. nothing \in Seq({e}) /\ <<e>> = Append(nothing, e) /\ e \in {e} /\ FU!Fold(0, u, nothing) = u
    BY EmptySeq, FU!FoldNil
  <2> HIDE DEF nothing, u, e
  <2>4. FU!Fold(0, u, Append(nothing, e)) = UtxoStep(0, FU!Fold(0, u, nothing), e)
    BY <2>3, FU!FoldAppend
  <2>5. UtxoStep(0, u, e) = (u \cup O2) \ I2
    BY <2>2 DEF UtxoStep, Utxo!OnBasicWalletDelta
  <2> QED BY <1>1, <2>1, <2>3, <2>4, <2>5 DEF u
<1> QED BY <1>2, <1>3

UtxoParts(c) == [i \in DOMAIN c |-> Utxo!ProcessBlock(i - 1, c[i])]

UtxoRows(c) == FlattenSeq(UtxoParts(c))

LEMMA UtxoPartsType ==
  ASSUME NEW c \in Chains
  PROVE  /\ UtxoParts(c) \in Seq(Seq(UtxoEvent)) /\ Len(UtxoParts(c)) = Len(c)
         /\ \A i \in 1..Len(c) : \A e \in ToSet(UtxoParts(c)[i]) : e.height = i - 1
         /\ UtxoRows(c) \in Seq(UtxoEvent)
<1> DEFINE n == Len(c)
<1>1. n \in Nat /\ DOMAIN c = 1..n /\ \A i \in 1..n : c[i] \in Seq(DOMAIN Tx)
  BY LenProperties, ElementOfSeq DEF Chains
<1> HIDE DEF n
<1>2. \A i \in 1..n : /\ Utxo!ProcessBlock(i - 1, c[i]) \in Seq(UtxoEvent)
                      /\ \A e \in ToSet(Utxo!ProcessBlock(i - 1, c[i])) : e.height = i - 1
  <2> SUFFICES ASSUME NEW i \in 1..n
               PROVE  /\ Utxo!ProcessBlock(i - 1, c[i]) \in Seq(UtxoEvent)
                      /\ \A e \in ToSet(Utxo!ProcessBlock(i - 1, c[i])) : e.height = i - 1
    OBVIOUS
  <2>1. i - 1 \in Int /\ c[i] \in Seq(DOMAIN Tx)
    BY <1>1
  <2> QED BY <2>1, UtxoBlockType
<1>3. UtxoParts(c) \in [1..n -> Seq(UtxoEvent)] /\ \A i \in 1..n : UtxoParts(c)[i] = Utxo!ProcessBlock(i - 1, c[i])
  BY <1>1, <1>2 DEF UtxoParts
<1>4. UtxoParts(c) \in Seq(Seq(UtxoEvent)) /\ Len(UtxoParts(c)) = n
  <2>1. \A D : \A f \in [1..n -> D] : f \in Seq(D) /\ Len(f) = n
    BY <1>1
  <2> QED BY <1>3, <2>1
<1>5. UtxoRows(c) \in Seq(UtxoEvent)
  BY <1>4, FlattenIs, FB!FlattenType DEF UtxoRows
<1> QED BY <1>2, <1>3, <1>4, <1>5 DEF n

LEMMA UtxoRestoreIsFold ==
  ASSUME NEW events
  PROVE  Utxo!Restore(events) = FU!Fold(0, {}, events)
BY DEF Utxo!Restore, Utxo!FoldLeft, Utxo!MapThenFoldSet, Utxo!Max, FU!Fold, FU!Max, UtxoStep

LEMMA UtxoRowsConcat ==
  ASSUME NEW c \in Chains, NEW d \in Chains
  PROVE  LET more == [i \in DOMAIN d |-> Utxo!ProcessBlock((Len(c) - 1) + i, d[i])]
         IN  /\ more \in Seq(Seq(UtxoEvent)) /\ Len(more) = Len(d)
             /\ FlattenSeq(more) \in Seq(UtxoEvent)
             /\ UtxoRows(c \o d) = UtxoRows(c) \o FlattenSeq(more)
<1> DEFINE n == Len(c)
           k == Len(d)
           more == [i \in DOMAIN d |-> Utxo!ProcessBlock((n - 1) + i, d[i])]
           all == UtxoParts(c \o d)
           parts == UtxoParts(c)
<1>1. /\ n \in Nat /\ k \in Nat /\ DOMAIN c = 1..n /\ DOMAIN d = 1..k
      /\ \A i \in 1..k : d[i] \in Seq(DOMAIN Tx)
  BY LenProperties, ElementOfSeq DEF Chains
<1>2. /\ c \o d \in Chains /\ Len(c \o d) = n + k
      /\ \A i \in 1..(n + k) : (c \o d)[i] = IF i <= n THEN c[i] ELSE d[i - n]
  BY ConcatProperties DEF Chains
<1>3. DOMAIN (c \o d) = 1..(n + k)
  BY <1>2, LenProperties DEF Chains
<1> HIDE DEF n, k
<1>4. \A i \in 1..k : Utxo!ProcessBlock((n - 1) + i, d[i]) \in Seq(UtxoEvent)
  <2> SUFFICES ASSUME NEW i \in 1..k PROVE Utxo!ProcessBlock((n - 1) + i, d[i]) \in Seq(UtxoEvent)
    OBVIOUS
  <2>1. (n - 1) + i \in Int /\ d[i] \in Seq(DOMAIN Tx)
    BY <1>1
  <2> QED BY <2>1, UtxoBlockType
<1>5. more \in [1..k -> Seq(UtxoEvent)] /\ \A i \in 1..k : more[i] = Utxo!ProcessBlock((n - 1) + i, d[i])
  BY <1>1, <1>4
<1>6. more \in Seq(Seq(UtxoEvent)) /\ Len(more) = k
  <2>1. \A D : \A f \in [1..k -> D] : f \in Seq(D) /\ Len(f) = k
    BY <1>1
  <2> HIDE DEF more
  <2> QED BY <1>5, <2>1
<1>7. /\ \A i \in 1..(n + k) : all[i] = Utxo!ProcessBlock(i - 1, (c \o d)[i])
      /\ \A i \in 1..n : parts[i] = Utxo!ProcessBlock(i - 1, c[i])
  BY <1>1, <1>3 DEF UtxoParts
<1>8. /\ all \in Seq(Seq(UtxoEvent)) /\ Len(all) = n + k
      /\ parts \in Seq(Seq(UtxoEvent)) /\ Len(parts) = n
  BY <1>2, UtxoPartsType DEF n, k
<1> HIDE DEF more, all, parts
<1>9. all = parts \o more
  <2>1. /\ parts \o more \in Seq(Seq(UtxoEvent)) /\ Len(parts \o more) = n + k
        /\ \A i \in 1..(n + k) : (parts \o more)[i] = IF i <= n THEN parts[i] ELSE more[i - n]
    BY <1>6, <1>8, ConcatProperties
  <2>2. ASSUME NEW i \in 1..(n + k) PROVE all[i] = (parts \o more)[i]
    <3>1. CASE i <= n
      <4>1. i \in 1..n
        BY <1>1, <3>1
      <4> QED BY <1>2, <1>7, <2>1, <3>1, <4>1
    <3>2. CASE ~(i <= n)
      <4>1. i - n \in 1..k /\ i - 1 = (n - 1) + (i - n)
        BY <1>1, <3>2
      <4> QED BY <1>2, <1>5, <1>7, <2>1, <3>2, <4>1
    <3> QED BY <3>1, <3>2
  <2> DEFINE w == parts \o more
  <2> HIDE DEF w
  <2>3. all = w
    BY <1>8, <2>1, <2>2, SeqEqual DEF w
  <2> QED BY <2>3 DEF w
<1>10. FlattenSeq(all) = FlattenSeq(parts) \o FlattenSeq(more)
  BY <1>6, <1>8, <1>9, FlattenIs, FB!FlattenConcat
<1>11. FlattenSeq(more) \in Seq(UtxoEvent)
  BY <1>6, FlattenIs, FB!FlattenType
<1> QED BY <1>6, <1>10, <1>11 DEF all, parts, more, n, k, UtxoRows

LEMMA UtxoRestored ==
  ASSUME NEW c \in Chains, Valid(c)
  PROVE  Utxo!Restore(UtxoRows(c)) = UtxoState(Confirmed(c))
<1> DEFINE S == Seq(DOMAIN Tx)
           T == {d \in Seq(S) : Valid(d) => Utxo!Restore(UtxoRows(d)) = UtxoState(Confirmed(d))}
<1>1. <<>> \in T
  <2>1. UtxoParts(<<>>) = <<>>
    BY ConfirmedNil, UtxoPartsType, EmptySeq
  <2>2. Utxo!Restore(UtxoRows(<<>>)) = {}
    BY <2>1, FlattenIs, FB!FlattenNil, UtxoRestoreIsFold, FU!FoldNil DEF UtxoRows
  <2>3. UtxoState({}) = {}
    BY DEF UtxoState, WalletOutputs, AllOutputs
  <2> QED BY <2>2, <2>3, ConfirmedNil DEF Chains
<1>2. ASSUME NEW d \in Seq(S), NEW b \in S, d \in T PROVE Append(d, b) \in T
  <2> DEFINE c2 == Append(d, b)
  <2>1. c2 \in Seq(S)
    BY AppendProperties
  <2> SUFFICES ASSUME Valid(c2) PROVE Utxo!Restore(UtxoRows(c2)) = UtxoState(Confirmed(c2))
    BY <2>1
  <2>2. c2 = d \o <<b>> /\ d \in Chains /\ <<b>> \in Chains
    BY AppendIsConcat, ConfirmedOne DEF Chains
  <2>3. Valid(d) /\ Follows(ToSet(b), Confirmed(d))
    <3>1. Valid(d \o <<b>>)
      BY <2>2
    <3> HIDE DEF c2
    <3>2. Valid(d) /\ Follows(Confirmed(<<b>>), Confirmed(d))
      BY <2>2, <3>1, ValidParts
    <3> QED BY <3>2, ConfirmedOne
  <2>4. Confirmed(c2) = Confirmed(d) \cup ToSet(b)
    BY <2>2, ConfirmedConcat, ConfirmedOne
  <2> DEFINE x == UtxoRows(d)
             y == Utxo!ProcessBlock(Len(d), b)
             T1 == Confirmed(d)
  <2>5. x \in Seq(UtxoEvent) /\ y \in Seq(UtxoEvent) /\ Len(d) \in Int
    BY <2>2, UtxoPartsType, UtxoBlockType, LenProperties
  <2>6. UtxoRows(c2) = x \o y
    <3> DEFINE n == Len(d)
               one == <<b>>
               more == [i \in DOMAIN one |-> Utxo!ProcessBlock((n - 1) + i, one[i])]
    <3>1. n \in Nat
      BY LenProperties
    <3>2. Len(more) = 1 /\ more[1] = y
      <4>1. DOMAIN one = 1..1 /\ one[1] = b /\ (n - 1) + 1 = n
        BY <3>1
      <4>2. more = [i \in 1..1 |-> Utxo!ProcessBlock((n - 1) + i, one[i])]
        BY <4>1
      <4> QED BY <4>1, <4>2
    <3>3. FlattenSeq(more) = y
      <4> HIDE DEF more, y
      <4> QED BY <2>5, <3>2, FlattenIs, FB!FlattenOne
    <3>4. d \in Chains /\ one \in Chains /\ c2 = d \o one
      BY <2>2
    <3> HIDE DEF one, c2
    <3>5. UtxoRows(d \o one) = UtxoRows(d) \o FlattenSeq(more)
      BY <3>4, UtxoRowsConcat
    <3> HIDE DEF x, y, more
    <3> QED BY <3>3, <3>4, <3>5 DEF x
  <2>8. /\ T1 \in SUBSET DOMAIN Tx
        /\ \A t \in T1 : \A o \in ToSet(Tx[t].vin) : o[1] \in T1
    BY <2>2, <2>3, ConfirmedFacts, ValidClosed
  <2>9. FU!Fold(0, UtxoState(T1), y) = UtxoState(T1 \cup ToSet(b))
    <3> HIDE DEF T1
    <3> QED BY <2>3, <2>5, <2>8, UtxoBlock DEF T1
  <2>10. Utxo!Restore(x) = UtxoState(T1)
    BY <1>2, <2>3
  <2> HIDE DEF x, y, T1
  <2>11. FU!Fold(0, {}, x \o y) = FU!Fold(0, FU!Fold(0, {}, x), y)
    BY <2>5, FU!FoldConcat
  <2>12. Utxo!Restore(x \o y) = UtxoState(T1 \cup ToSet(b))
    BY <2>9, <2>10, <2>11, UtxoRestoreIsFold
  <2> QED BY <2>4, <2>6, <2>12 DEF x, y, T1
<1> HIDE DEF T
<1>3. Seq(S) \subseteq T
  <2> HIDE DEF S
  <2> QED BY <1>1, <1>2, FB!SeqInduction
<1> QED BY <1>3 DEF T, Chains

-----------------------------------------------------------------------------
(* What a fork leaves.                                                     *)

LEMMA ChainCut ==
  ASSUME NEW c \in Chains, Valid(c), NEW h \in Nat, h + 1 <= Len(c)
  PROVE  /\ SubSeq(c, 1, h + 1) \in Chains /\ Valid(SubSeq(c, 1, h + 1))
         /\ Len(SubSeq(c, 1, h + 1)) = h + 1
         /\ \A i \in 1..(h + 1) : SubSeq(c, 1, h + 1)[i] = c[i]
         /\ DOMAIN SubSeq(c, 1, h + 1) = 1..(h + 1) /\ DOMAIN c = 1..Len(c)
<1> DEFINE n == Len(c)
           A == SubSeq(c, 1, h + 1)
           B == SubSeq(c, h + 2, n)
<1>1. n \in Nat /\ h + 1 <= n /\ DOMAIN c = 1..n /\ \A i \in 1..n : c[i] \in Seq(DOMAIN Tx)
  BY LenProperties, ElementOfSeq DEF Chains
<1>2. /\ A \in Chains /\ Len(A) = h + 1 /\ \A i \in 1..(h + 1) : A[i] = c[i]
      /\ DOMAIN A = 1..(h + 1)
  <2>1. A = [i \in 1..(h + 1) |-> c[i]]
    BY <1>1 DEF Chains
  <2>2. A \in [1..(h + 1) -> Seq(DOMAIN Tx)]
    <3>1. \A i \in 1..(h + 1) : i \in 1..n
      BY <1>1
    <3>2. \A i \in 1..(h + 1) : c[i] \in Seq(DOMAIN Tx)
      BY <1>1, <3>1
    <3> HIDE DEF A
    <3> QED BY <2>1, <3>2
  <2>3. \A D : \A f \in [1..(h + 1) -> D] : f \in Seq(D) /\ Len(f) = h + 1
    OBVIOUS
  <2> HIDE DEF A
  <2> QED BY <2>1, <2>2, <2>3 DEF Chains
<1>3. B \in Chains
  <2>1. h + 2 \in Int /\ n \in Int /\ \A i \in (h + 2)..n : c[i] \in Seq(DOMAIN Tx)
    BY <1>1
  <2> QED BY <2>1, SubSeqProperties DEF Chains
<1>4. A \o B = c
  <2>1. 1 \in 1..(n + 1) /\ h + 1 \in (1 - 1)..n /\ n \in (h + 1)..n /\ (h + 1) + 1 = h + 2
    BY <1>1
  <2>2. SubSeq(c, 1, h + 1) \o SubSeq(c, (h + 1) + 1, n) = SubSeq(c, 1, n)
    BY <2>1, ConcatAdjacentSubSeq DEF Chains
  <2>3. SubSeq(c, 1, n) = c
    BY SubSeqFull DEF Chains
  <2> QED BY <2>1, <2>2, <2>3, Zenon
<1> HIDE DEF A, B, n
<1>5. Valid(A)
  BY <1>2, <1>3, <1>4, ValidParts
<1> QED BY <1>1, <1>2, <1>5 DEF A, n

LEMMA BaseRowsCut ==
  ASSUME NEW c \in Chains, NEW h \in Nat, h + 1 <= Len(c)
  PROVE  UpTo(BaseRows(c), h) = BaseRows(SubSeq(c, 1, h + 1))
<1> DEFINE n == Len(c)
           P == BaseParts(c)
           cut == SubSeq(c, 1, h + 1)
<1>1. n \in Nat /\ DOMAIN c = 1..n /\ c \in Seq(Seq(DOMAIN Tx))
  BY LenProperties DEF Chains
<1>2. /\ P \in Seq(Seq(BaseEvent)) /\ Len(P) = n
      /\ \A i \in 1..n : \A e \in ToSet(P[i]) : e.height = i - 1
  BY BasePartsType
<1>3. \A i \in 1..n : P[i] = Base!ProcessBlock(i - 1, c[i])
  BY <1>1 DEF BaseParts
<1> HIDE DEF n, P
<1>4. UpTo(FlattenSeq(P), h) = FlattenSeq(SubSeq(P, 1, h + 1))
  BY <1>2, UpToParts DEF n
<1>5. SubSeq(P, 1, h + 1) = [i \in 1..(h + 1) |-> P[i]]
  BY <1>1, <1>2
<1>6. cut = [i \in 1..(h + 1) |-> c[i]]
  BY <1>1
<1>7. BaseParts(cut) = SubSeq(P, 1, h + 1)
  <2>1. DOMAIN cut = 1..(h + 1) /\ \A i \in 1..(h + 1) : cut[i] = c[i]
    BY <1>6
  <2>2. \A i \in 1..(h + 1) : P[i] = Base!ProcessBlock(i - 1, c[i])
    BY <1>1, <1>3 DEF n
  <2> HIDE DEF cut
  <2> QED BY <1>5, <2>1, <2>2 DEF BaseParts
<1> QED BY <1>4, <1>7 DEF BaseRows, P

LEMMA UtxoRowsCut ==
  ASSUME NEW c \in Chains, NEW h \in Nat, h + 1 <= Len(c)
  PROVE  UpTo(UtxoRows(c), h) = UtxoRows(SubSeq(c, 1, h + 1))
<1> DEFINE n == Len(c)
           P == UtxoParts(c)
           cut == SubSeq(c, 1, h + 1)
<1>1. n \in Nat /\ DOMAIN c = 1..n /\ c \in Seq(Seq(DOMAIN Tx))
  BY LenProperties DEF Chains
<1>2. /\ P \in Seq(Seq(UtxoEvent)) /\ Len(P) = n
      /\ \A i \in 1..n : \A e \in ToSet(P[i]) : e.height = i - 1
  BY UtxoPartsType
<1>3. \A i \in 1..n : P[i] = Utxo!ProcessBlock(i - 1, c[i])
  BY <1>1 DEF UtxoParts
<1> HIDE DEF n, P
<1>4. UpTo(FlattenSeq(P), h) = FlattenSeq(SubSeq(P, 1, h + 1))
  BY <1>2, UpToParts DEF n
<1>5. SubSeq(P, 1, h + 1) = [i \in 1..(h + 1) |-> P[i]]
  BY <1>1, <1>2
<1>6. cut = [i \in 1..(h + 1) |-> c[i]]
  BY <1>1
<1>7. UtxoParts(cut) = SubSeq(P, 1, h + 1)
  <2>1. DOMAIN cut = 1..(h + 1) /\ \A i \in 1..(h + 1) : cut[i] = c[i]
    BY <1>6
  <2>2. \A i \in 1..(h + 1) : P[i] = Utxo!ProcessBlock(i - 1, c[i])
    BY <1>1, <1>3 DEF n
  <2> HIDE DEF cut
  <2> QED BY <1>5, <2>1, <2>2 DEF UtxoParts
<1> QED BY <1>4, <1>7 DEF UtxoRows, P

-----------------------------------------------------------------------------
(* Balances follow from what the stored events restore.                    *)
LEMMA BalanceFollows ==
  ASSUME chain \in Chains, Valid(chain), baseRows = BaseRows(chain), utxoRows = UtxoRows(chain)
  PROVE  BalanceIsUnspent
<1> DEFINE T == Confirmed(chain)
           base == Base!Restore(baseRows)
           utxo == Utxo!Restore(utxoRows)
<1>1. base = BaseState(T) /\ utxo = UtxoState(T)
  BY BaseRestored, UtxoRestored
<1>2. \A a : Received(a) = Base!To(a, AllOutputs(T))
  BY DEF Received, AllOutputs
<1>3. SpentOutputs = Ins(T)
  BY DEF SpentOutputs, Ins
<1>4. ASSUME NEW a \in Watched
      PROVE  /\ Base!To(a, WalletOutputs(T) \ Ins(T)) = Received(a) \ SpentOutputs
             /\ Base!To(a, WalletOutputs(T)) = Received(a)
  BY <1>2, <1>3 DEF WalletOutputs, Base!To
<1>5. \A S : Utxo!Base!Value(S) = Base!Value(S)
  BY DEF Utxo!Base!Value, Base!Value, Utxo!Base!MapThenSumSet, Base!MapThenSumSet,
         Utxo!Base!MapThenFoldSet, Base!MapThenFoldSet, Utxo!Base!VoutOf, Base!VoutOf
<1>6. \A a, S : Utxo!Base!To(a, S) = Base!To(a, S)
  BY DEF Utxo!Base!To, Base!To, Utxo!Base!VoutOf, Base!VoutOf
<1> HIDE DEF T, base, utxo
<1>7. ASSUME NEW a \in Watched
      PROVE  LET unspent == Received(a) \ SpentOutputs
             IN  /\ Base!GetUnspent(base, a) = unspent
                 /\ Base!GetBalance(base, a) = Base!Value(unspent)
                 /\ Utxo!GetBalance(utxo, a) = Base!Value(unspent)
                 /\ Base!GetTxids(base, a) = {o[1] : o \in Received(a)}
  <2>1. /\ base.utxos = WalletOutputs(T) \ Ins(T)
        /\ base.balance[a] = Base!Value(Base!To(a, WalletOutputs(T) \ Ins(T)))
        /\ base.txids[a] = {o[1] : o \in Base!To(a, WalletOutputs(T))}
    BY <1>1 DEF BaseState, Wallet, Payers
  <2>2. Utxo!GetBalance(utxo, a) = Base!Value(Base!To(a, WalletOutputs(T) \ Ins(T)))
    BY <1>1, <1>5, <1>6 DEF Utxo!GetBalance, UtxoState
  <2> QED BY <1>4, <2>1, <2>2 DEF Base!GetUnspent, Base!GetBalance, Base!GetTxids
<1> QED BY <1>7 DEF BalanceIsUnspent, base, utxo

-----------------------------------------------------------------------------
(* The wallet that follows transactions: its events and instances.         *)

Sources == {"mempool", "block"}

SeenEvent ==
  {e \in [type : {"TxSeen"}, tx : DOMAIN Tx, height : Int, source : Sources,
          touches : SUBSET Addresses, rbf : BOOLEAN] : e.touches = Advanced!Touches(e.tx)}

ConfirmedEvent == [type : {"TxConfirmed"}, tx : DOMAIN Tx, height : Int, index : Int]

PlainEvent == [type : {"WalletCreditSeen", "WalletCreditConfirmed"}, tx : DOMAIN Tx, height : Int]

ConflictEvent ==
  [type : {"TxReplacedByRbf", "DoubleSpendDetected"}, tx : DOMAIN Tx, height : Int,
   prev : DOMAIN Tx, outpoint : Outpoints]

AEvent == SeenEvent \cup ConfirmedEvent \cup PlainEvent \cup ConflictEvent

Place == [height : Int, index : Int]

Entry == [touches : SUBSET Addresses, rbf : BOOLEAN, source : Sources, at : Int,
          confirmed : Place \cup {None}]

(* The maps from some of S to V.                                           *)
Partial(S, V) == UNION {[D -> V] : D \in SUBSET S}

Seens == Partial(DOMAIN Tx, Entry)

Users == Partial(Outpoints, DOMAIN Tx)

Instance == [seen : Seens, user : Users, new : Seq(AEvent)]

LEMMA AEventFacts ==
  ASSUME NEW e \in AEvent
  PROVE  /\ e.type \in EventTypes /\ e.tx \in DOMAIN Tx /\ e.height \in Int
         /\ e.type = "TxSeen" <=> e \in SeenEvent
         /\ e.type = "TxConfirmed" <=> e \in ConfirmedEvent
BY DEF AEvent, SeenEvent, ConfirmedEvent, PlainEvent, ConflictEvent, EventTypes

LEMMA TouchesType ==
  ASSUME NEW t \in DOMAIN Tx
  PROVE  Advanced!Touches(t) \in SUBSET Addresses
BY DEF Advanced!Touches, Addresses

LEMMA PartialFacts ==
  ASSUME NEW S, NEW V, NEW f \in Partial(S, V)
  PROVE  /\ DOMAIN f \subseteq S /\ \A x \in DOMAIN f : f[x] \in V
         /\ \A keys \in SUBSET S, v \in V : Advanced!Put(f, keys, v) \in Partial(S, V)
<1>1. PICK D \in SUBSET S : f \in [D -> V]
  BY DEF Partial
<1>2. ASSUME NEW keys \in SUBSET S, NEW v \in V
      PROVE  Advanced!Put(f, keys, v) \in Partial(S, V)
  <2> DEFINE E == keys \cup D
             g == Advanced!Put(f, keys, v)
  <2>1. E \in SUBSET S
    BY <1>1
  <2>2. g \in [E -> V]
    BY <1>1 DEF Advanced!Put
  <2> HIDE DEF E, g
  <2>3. g \in Partial(S, V)
    BY <2>1, <2>2 DEF Partial
  <2> QED BY <2>3 DEF g
<1> QED BY <1>1, <1>2

LEMMA PartialFunctions ==
  /\ \A f \in Seens : DOMAIN f \subseteq DOMAIN Tx /\ \A t \in DOMAIN f : f[t] \in Entry
  /\ \A f \in Users : DOMAIN f \subseteq Outpoints /\ \A o \in DOMAIN f : f[o] \in DOMAIN Tx
  /\ \A f \in Seens, keys \in SUBSET DOMAIN Tx, v \in Entry : Advanced!Put(f, keys, v) \in Seens
  /\ \A f \in Users, keys \in SUBSET Outpoints, v \in DOMAIN Tx : Advanced!Put(f, keys, v) \in Users
<1>1. /\ \A f \in Seens : DOMAIN f \subseteq DOMAIN Tx /\ \A t \in DOMAIN f : f[t] \in Entry
      /\ \A f \in Seens, keys \in SUBSET DOMAIN Tx, v \in Entry : Advanced!Put(f, keys, v) \in Seens
  BY PartialFacts DEF Seens
<1>2. /\ \A f \in Users : DOMAIN f \subseteq Outpoints /\ \A o \in DOMAIN f : f[o] \in DOMAIN Tx
      /\ \A f \in Users, keys \in SUBSET Outpoints, v \in DOMAIN Tx : Advanced!Put(f, keys, v) \in Users
  BY PartialFacts DEF Users
<1> QED BY <1>1, <1>2

-----------------------------------------------------------------------------
(* What an instance knows of the events it was made of.                    *)

SeenIn(D, t) == \E e \in D : e.type = "TxSeen" /\ e.tx = t

PlaceOf(e) == [height |-> e.height, index |-> e.index]

ConfirmedIn(D, t) == {e \in D : e.type = "TxConfirmed" /\ e.tx = t}

PlacesIn(D, t) == {PlaceOf(e) : e \in ConfirmedIn(D, t)}

(* An entry that sums up events D of its transaction.                      *)
SumsUp(entry, D, t) ==
  /\ entry.touches = IF SeenIn(D, t) THEN Advanced!Touches(t) ELSE {}
  /\ IF PlacesIn(D, t) = {} THEN entry.confirmed = None ELSE entry.confirmed \in PlacesIn(D, t)

Known(D, t) == SeenIn(D, t) \/ PlacesIn(D, t) # {}

Summary(seen, D) ==
  /\ \A t \in DOMAIN Tx : t \in DOMAIN seen <=> Known(D, t)
  /\ \A t \in DOMAIN seen : SumsUp(seen[t], D, t)

LEMMA OneMore ==
  ASSUME NEW D, NEW e, NEW t
  PROVE  /\ SeenIn(D \cup {e}, t) <=> SeenIn(D, t) \/ (e.type = "TxSeen" /\ e.tx = t)
         /\ PlacesIn(D \cup {e}, t) =
              IF e.type = "TxConfirmed" /\ e.tx = t THEN PlacesIn(D, t) \cup {PlaceOf(e)} ELSE PlacesIn(D, t)
<1>1. SeenIn(D \cup {e}, t) <=> SeenIn(D, t) \/ (e.type = "TxSeen" /\ e.tx = t)
  BY DEF SeenIn
<1>2. ConfirmedIn(D \cup {e}, t) =
        IF e.type = "TxConfirmed" /\ e.tx = t THEN ConfirmedIn(D, t) \cup {e} ELSE ConfirmedIn(D, t)
  BY DEF ConfirmedIn
<1>3. \A A : {PlaceOf(x) : x \in A \cup {e}} = {PlaceOf(x) : x \in A} \cup {PlaceOf(e)}
  OBVIOUS
<1> QED BY <1>1, <1>2, <1>3 DEF PlacesIn

LEMMA ReduceStep ==
  ASSUME NEW m \in Instance, NEW D, Summary(m.seen, D), NEW e \in AEvent
  PROVE  /\ Advanced!Reduce(m, e) \in Instance
         /\ Advanced!Reduce(m, e).new = m.new
         /\ Summary(Advanced!Reduce(m, e).seen, D \cup {e})
<1> DEFINE x == Advanced!Reduce(m, e)
           D2 == D \cup {e}
<1>1. /\ m.seen \in Seens /\ m.user \in Users /\ m.new \in Seq(AEvent)
      /\ m = [seen |-> m.seen, user |-> m.user, new |-> m.new]
  BY DEF Instance
<1>2. \A t \in DOMAIN m.seen : t \in DOMAIN Tx /\ m.seen[t] \in Entry
  BY <1>1, PartialFunctions
<1>3. ASSUME NEW X \in Entry, NEW u \in Users,
             x = [seen |-> Advanced!Put(m.seen, {e.tx}, X), user |-> u, new |-> m.new],
             SumsUp(X, D2, e.tx), Known(D2, e.tx)
      PROVE  x \in Instance /\ x.new = m.new /\ Summary(x.seen, D2)
  <2>1. e.tx \in DOMAIN Tx
    BY AEventFacts
  <2> DEFINE s2 == Advanced!Put(m.seen, {e.tx}, X)
  <2>2. s2 \in Seens
    BY <1>1, <2>1, PartialFunctions
  <2>3. /\ DOMAIN s2 = {e.tx} \cup DOMAIN m.seen /\ s2[e.tx] = X
        /\ \A t \in DOMAIN m.seen : t # e.tx => s2[t] = m.seen[t]
    BY DEF Advanced!Put
  <2> HIDE DEF s2
  <2>4. ASSUME NEW t, t # e.tx
        PROVE  /\ Known(D2, t) <=> Known(D, t)
               /\ \A y : SumsUp(y, D2, t) <=> SumsUp(y, D, t)
    <3>1. SeenIn(D2, t) <=> SeenIn(D, t)
      BY <2>4, OneMore
    <3>2. PlacesIn(D2, t) = PlacesIn(D, t)
      BY <2>4, OneMore
    <3> HIDE DEF D2
    <3> QED BY <3>1, <3>2 DEF Known, SumsUp
  <2> HIDE DEF D2
  <2>5. Summary(s2, D2)
    <3>1. \A t \in DOMAIN Tx : t \in DOMAIN s2 <=> Known(D2, t)
      BY <1>3, <2>3, <2>4 DEF Summary
    <3>2. ASSUME NEW t \in DOMAIN s2 PROVE SumsUp(s2[t], D2, t)
      <4>1. CASE t = e.tx
        BY <1>3, <2>3, <4>1
      <4>2. CASE t # e.tx
        BY <2>3, <2>4, <4>2 DEF Summary
      <4> QED BY <4>1, <4>2
    <3> QED BY <3>1, <3>2 DEF Summary
  <2>6. x = [seen |-> s2, user |-> u, new |-> m.new]
    BY <1>3 DEF s2
  <2> HIDE DEF x
  <2> QED BY <1>1, <1>3, <2>2, <2>5, <2>6 DEF Instance
<1>4. CASE e.type = "TxSeen"
  <2> DEFINE entry == [touches |-> e.touches, rbf |-> e.rbf, source |-> e.source,
                       at |-> e.height, confirmed |-> None]
             again == [m.seen[e.tx] EXCEPT !.touches = @ \cup e.touches, !.rbf = @ \/ e.rbf]
             X == IF e.tx \in DOMAIN m.seen THEN again ELSE entry
             u == Advanced!Put(m.user, ToSet(Tx[e.tx].vin), e.tx)
  <2>1. e \in SeenEvent /\ e.touches = Advanced!Touches(e.tx) /\ e.tx \in DOMAIN Tx
    BY <1>4, AEventFacts DEF SeenEvent
  <2>2. \A s : Advanced!ToSet(s) = ToSet(s)
    BY DEF Advanced!ToSet, ToSet
  <2>3. x = [m EXCEPT !.seen = Advanced!Put(@, {e.tx}, X), !.user = Advanced!Put(@, ToSet(Tx[e.tx].vin), e.tx)]
    BY <1>4, <2>2 DEF Advanced!Reduce, Advanced!OnTxSeen, Advanced!Seen
  <2>4. u \in Users
    <3>1. Tx[e.tx].vin \in Seq(Outpoints)
      BY <2>1, TxAssumption DEF Outpoints
    <3>2. ToSet(Tx[e.tx].vin) \in SUBSET Outpoints
      BY <3>1, ToSetType
    <3> QED BY <1>1, <2>1, <3>2, PartialFunctions
  <2>5. entry \in Entry /\ entry.touches = e.touches /\ entry.confirmed = None
    BY <2>1 DEF SeenEvent, Entry
  <2>6. e.tx \in DOMAIN m.seen =>
          /\ again \in Entry /\ again.touches = m.seen[e.tx].touches \cup e.touches
          /\ again.confirmed = m.seen[e.tx].confirmed
    <3> SUFFICES ASSUME e.tx \in DOMAIN m.seen
                 PROVE  /\ again \in Entry /\ again.touches = m.seen[e.tx].touches \cup e.touches
                        /\ again.confirmed = m.seen[e.tx].confirmed
      OBVIOUS
    <3>1. m.seen[e.tx] \in Entry
      BY <1>2
    <3>2. e.touches \in SUBSET Addresses /\ e.rbf \in BOOLEAN
      BY <2>1 DEF SeenEvent
    <3> QED BY <3>1, <3>2 DEF Entry
  <2>7. SeenIn(D2, e.tx) /\ PlacesIn(D2, e.tx) = PlacesIn(D, e.tx)
    <3>1. e \in D2
      OBVIOUS
    <3>2. SeenIn(D2, e.tx)
      BY <1>4, <3>1 DEF SeenIn
    <3>3. PlacesIn(D2, e.tx) = PlacesIn(D, e.tx)
      <4>1. ConfirmedIn(D2, e.tx) = ConfirmedIn(D, e.tx)
        BY <1>4 DEF ConfirmedIn
      <4> QED BY <4>1 DEF PlacesIn
    <3> QED BY <3>2, <3>3
  <2> HIDE DEF entry, again, D2, x
  <2>8. X \in Entry /\ SumsUp(X, D2, e.tx)
    <3>1. CASE e.tx \in DOMAIN m.seen
      <4>1. X = again
        BY <3>1
      <4>2. SumsUp(m.seen[e.tx], D, e.tx)
        BY <3>1 DEF Summary
      <4>3. again.touches = Advanced!Touches(e.tx)
        BY <2>1, <2>6, <3>1, <4>2 DEF SumsUp
      <4> HIDE DEF X
      <4> QED BY <2>6, <2>7, <3>1, <4>1, <4>2, <4>3 DEF SumsUp
    <3>2. CASE e.tx \notin DOMAIN m.seen
      <4>1. X = entry
        BY <3>2
      <4>2. PlacesIn(D, e.tx) = {}
        BY <2>1, <3>2 DEF Summary, Known
      <4> HIDE DEF X
      <4> QED BY <2>1, <2>5, <2>7, <4>1, <4>2 DEF SumsUp
    <3> QED BY <3>1, <3>2
  <2> HIDE DEF X, u
  <2>9. x = [seen |-> Advanced!Put(m.seen, {e.tx}, X), user |-> u, new |-> m.new]
    BY <1>1, <2>3 DEF u
  <2> QED BY <1>3, <2>4, <2>7, <2>8, <2>9 DEF Known, x, D2
<1>5. CASE e.type = "TxConfirmed"
  <2> DEFINE place == PlaceOf(e)
             unknown == [touches |-> {}, rbf |-> FALSE, source |-> "block",
                         at |-> e.height, confirmed |-> place]
             known == [m.seen[e.tx] EXCEPT !.confirmed = place]
             X == IF e.tx \in DOMAIN m.seen THEN known ELSE unknown
  <2>1. e \in ConfirmedEvent /\ e.tx \in DOMAIN Tx /\ e.height \in Int /\ e.index \in Int
    BY <1>5, AEventFacts DEF ConfirmedEvent
  <2>2. x = [m EXCEPT !.seen = Advanced!Put(@, {e.tx}, X)]
    BY <1>5 DEF Advanced!Reduce, Advanced!OnTxConfirmed, Advanced!Seen, PlaceOf
  <2>3. place \in Place
    BY <2>1 DEF PlaceOf, Place
  <2> HIDE DEF place
  <2>4. unknown \in Entry /\ unknown.touches = {} /\ unknown.confirmed = place
    BY <2>1, <2>3 DEF Entry, Sources
  <2>5. e.tx \in DOMAIN m.seen =>
          /\ known \in Entry /\ known.touches = m.seen[e.tx].touches /\ known.confirmed = place
    <3> SUFFICES ASSUME e.tx \in DOMAIN m.seen
                 PROVE  known \in Entry /\ known.touches = m.seen[e.tx].touches /\ known.confirmed = place
      OBVIOUS
    <3>1. m.seen[e.tx] \in Entry
      BY <1>2
    <3> QED BY <2>3, <3>1 DEF Entry
  <2>6. /\ SeenIn(D2, e.tx) <=> SeenIn(D, e.tx)
        /\ PlacesIn(D2, e.tx) = PlacesIn(D, e.tx) \cup {place}
    BY <1>5, OneMore DEF place
  <2> HIDE DEF unknown, known, D2, x
  <2>7. X \in Entry /\ SumsUp(X, D2, e.tx)
    <3>1. CASE e.tx \in DOMAIN m.seen
      <4>1. X = known
        BY <3>1
      <4>2. SumsUp(m.seen[e.tx], D, e.tx)
        BY <3>1 DEF Summary
      <4> HIDE DEF X
      <4> QED BY <2>5, <2>6, <3>1, <4>1, <4>2 DEF SumsUp
    <3>2. CASE e.tx \notin DOMAIN m.seen
      <4>1. X = unknown
        BY <3>2
      <4>2. ~SeenIn(D, e.tx)
        BY <2>1, <3>2 DEF Summary, Known
      <4> HIDE DEF X
      <4> QED BY <2>4, <2>6, <4>1, <4>2 DEF SumsUp
    <3> QED BY <3>1, <3>2
  <2> HIDE DEF X
  <2>8. x = [seen |-> Advanced!Put(m.seen, {e.tx}, X), user |-> m.user, new |-> m.new]
    BY <1>1, <2>2
  <2>9. Known(D2, e.tx)
    BY <2>6 DEF Known
  <2> QED BY <1>1, <1>3, <2>7, <2>8, <2>9 DEF x, D2
<1>6. CASE e.type # "TxSeen" /\ e.type # "TxConfirmed"
  <2>1. x = m
    BY <1>6 DEF Advanced!Reduce
  <2>2. \A t : /\ SeenIn(D2, t) <=> SeenIn(D, t)
               /\ PlacesIn(D2, t) = PlacesIn(D, t)
    BY <1>6, OneMore
  <2> HIDE DEF x, D2
  <2>3. Summary(m.seen, D2)
    BY <2>2 DEF Summary, Known, SumsUp
  <2> QED BY <2>1, <2>3 DEF x, D2
<1> QED BY <1>4, <1>5, <1>6

-----------------------------------------------------------------------------
(* Instances that stored events have made, and that go on from there.      *)

AdvancedStep(c, m, e) == Advanced!Reduce(m, e)

FA == INSTANCE Folding WITH op <- AdvancedStep

Once(r) ==
  \A i, j \in 1..Len(r) :
    r[i].type = "TxSeen" /\ r[j].type = "TxSeen" /\ r[i].tx = r[j].tx => i = j

(* All that an instance was made of: stored events and its own.            *)
All(r0, m) == ToSet(r0 \o m.new)

(* An instance of stored events r0.                                        *)
Making(r0, m) ==
  /\ m \in Instance
  /\ Summary(m.seen, All(r0, m))
  /\ Once(r0 \o m.new)

LEMMA AdvancedRestoreIsFold ==
  ASSUME NEW events
  PROVE  Advanced!Restore(events) = FA!Fold(0, Advanced!NewModel, events)
BY DEF Advanced!Restore, Advanced!FoldLeft, Advanced!MapThenFoldSet, Advanced!Max, FA!Fold, FA!Max,
       AdvancedStep

LEMMA RestoreSums ==
  ASSUME NEW r \in Seq(AEvent)
  PROVE  /\ Advanced!Restore(r) \in Instance /\ Advanced!Restore(r).new = <<>>
         /\ Summary(Advanced!Restore(r).seen, ToSet(r))
<1> DEFINE nothing == <<>>
           Sums0(m, s) == m \in Instance /\ m.new = nothing /\ Summary(m.seen, ToSet(s))
           T == {s \in Seq(AEvent) : Sums0(Advanced!Restore(s), s)}
<1>1. nothing \in T
  <2>1. Advanced!Restore(nothing) = Advanced!NewModel
    BY AdvancedRestoreIsFold, FA!FoldNil
  <2>2. nothing \in Seq(AEvent) /\ ToSet(nothing) = {} /\ DOMAIN nothing = {}
    BY EmptySeq DEF ToSet
  <2>3. \A S, V : nothing \in Partial(S, V)
    <3>1. \A V : nothing \in [{} -> V]
      BY <2>2
    <3> QED BY <3>1 DEF Partial
  <2>4. Advanced!NewModel = [seen |-> nothing, user |-> nothing, new |-> nothing]
    BY DEF Advanced!NewModel
  <2>5. \A t : ~SeenIn({}, t) /\ PlacesIn({}, t) = {}
    BY DEF SeenIn, PlacesIn, ConfirmedIn
  <2>6. Summary(nothing, {})
    BY <2>2, <2>5 DEF Summary, Known
  <2> HIDE DEF nothing
  <2> DEFINE m == Advanced!NewModel
  <2>7. nothing \in Seens /\ nothing \in Users
    BY <2>3 DEF Seens, Users
  <2>8. m \in Instance /\ m.new = nothing /\ m.seen = nothing
    BY <2>2, <2>4, <2>7 DEF Instance
  <2> HIDE DEF m
  <2>9. Sums0(m, nothing)
    BY <2>2, <2>6, <2>8
  <2> HIDE DEF Sums0
  <2> QED BY <2>1, <2>2, <2>9 DEF m
<1>2. ASSUME NEW s \in Seq(AEvent), NEW e \in AEvent, s \in T PROVE Append(s, e) \in T
  <2> DEFINE m == Advanced!Restore(s)
  <2>1. FA!Fold(0, Advanced!NewModel, Append(s, e)) = AdvancedStep(0, FA!Fold(0, Advanced!NewModel, s), e)
    BY FA!FoldAppend
  <2>2. Advanced!Restore(Append(s, e)) = Advanced!Reduce(m, e)
    BY <2>1, AdvancedRestoreIsFold DEF AdvancedStep
  <2>3. Append(s, e) \in Seq(AEvent) /\ ToSet(Append(s, e)) = ToSet(s) \cup {e}
    BY AppendProperties, ToSetAppend
  <2>4. m \in Instance /\ m.new = nothing /\ Summary(m.seen, ToSet(s))
    BY <1>2
  <2> DEFINE D == ToSet(s)
  <2> HIDE DEF m, nothing, D
  <2>5. /\ Advanced!Reduce(m, e) \in Instance
        /\ Advanced!Reduce(m, e).new = nothing
        /\ Summary(Advanced!Reduce(m, e).seen, D \cup {e})
    BY <2>4, ReduceStep DEF D
  <2> QED BY <2>2, <2>3, <2>5 DEF D
<1> HIDE DEF T
<1>3. Seq(AEvent) \subseteq T
  <2>1. <<>> \in T
    BY <1>1
  <2> HIDE DEF nothing
  <2> QED BY <1>2, <2>1, FB!SeqInduction
<1> QED BY <1>3 DEF T

LEMMA RestoreMakes ==
  ASSUME NEW r \in Seq(AEvent), Once(r)
  PROVE  Making(r, Advanced!Restore(r)) /\ All(r, Advanced!Restore(r)) = ToSet(r)
<1> DEFINE m == Advanced!Restore(r)
<1>1. m \in Instance /\ m.new = <<>> /\ Summary(m.seen, ToSet(r))
  BY RestoreSums
<1>2. r \o m.new = r
  BY <1>1, ConcatEmptySeq
<1> QED BY <1>1, <1>2 DEF Making, All

LEMMA OnceAppend ==
  ASSUME NEW r \in Seq(AEvent), Once(r), NEW e \in AEvent,
         e.type = "TxSeen" => ~SeenIn(ToSet(r), e.tx)
  PROVE  Once(Append(r, e))
<1> DEFINE s == Append(r, e)
           n == Len(r)
<1>1. /\ n \in Nat /\ Len(s) = n + 1 /\ s[n + 1] = e /\ DOMAIN r = 1..n
      /\ \A i \in 1..n : s[i] = r[i]
  BY AppendProperties, LenProperties
<1> HIDE DEF s, n
<1>2. \A i \in 1..n : e.type = "TxSeen" /\ r[i].type = "TxSeen" => r[i].tx # e.tx
  BY <1>1 DEF SeenIn, ToSet
<1>3. \A i \in 1..(n + 1) : i \in 1..n \/ i = n + 1
  BY <1>1
<1>4. \A i, j \in 1..n : r[i].type = "TxSeen" /\ r[j].type = "TxSeen" /\ r[i].tx = r[j].tx => i = j
  BY DEF Once, n
<1>5. \A i, j \in 1..(n + 1) : s[i].type = "TxSeen" /\ s[j].type = "TxSeen" /\ s[i].tx = s[j].tx => i = j
  BY <1>1, <1>2, <1>3, <1>4
<1> QED BY <1>1, <1>5 DEF Once, s

LEMMA ApplyStep ==
  ASSUME NEW r0 \in Seq(AEvent), NEW m, Making(r0, m), NEW e \in AEvent,
         e.type = "TxSeen" => e.tx \notin DOMAIN m.seen
  PROVE  /\ Making(r0, Advanced!ApplyEvent(m, e))
         /\ All(r0, Advanced!ApplyEvent(m, e)) = All(r0, m) \cup {e}
<1> DEFINE x == Advanced!Reduce(m, e)
           y == Advanced!ApplyEvent(m, e)
           D == All(r0, m)
           r == r0 \o m.new
<1>1. m \in Instance /\ Summary(m.seen, D) /\ Once(r) /\ m.new \in Seq(AEvent)
  BY DEF Making, Instance
<1>2. r \in Seq(AEvent) /\ ToSet(r) = D
  BY <1>1, ConcatProperties DEF All
<1>3. x \in Instance /\ x.new = m.new /\ Summary(x.seen, D \cup {e})
  <2> HIDE DEF D
  <2> QED BY <1>1, ReduceStep
<1>4. y = [x EXCEPT !.new = Append(@, e)]
  BY DEF Advanced!ApplyEvent
<1> HIDE DEF x
<1>5. y = [seen |-> x.seen, user |-> x.user, new |-> Append(m.new, e)]
  BY <1>3, <1>4 DEF Instance
<1>6. r0 \o y.new = Append(r, e)
  <2>1. y.new = Append(m.new, e) /\ Append(m.new, e) = m.new \o <<e>> /\ <<e>> \in Seq(AEvent)
    BY <1>1, <1>5, AppendIsConcat
  <2> DEFINE n == m.new
             one == <<e>>
  <2>2. n \in Seq(AEvent) /\ one \in Seq(AEvent)
    BY <1>1
  <2> HIDE DEF n, one
  <2>3. (r0 \o n) \o one = r0 \o (n \o one)
    BY <2>2, ConcatAssociative, SMTT(60)
  <2>4. Append(r, e) = r \o one
    BY <1>2, AppendIsConcat DEF one
  <2> QED BY <2>1, <2>3, <2>4 DEF n, one
<1>7. y \in Instance
  <2>1. Append(m.new, e) \in Seq(AEvent)
    BY <1>1, AppendProperties
  <2> HIDE DEF y
  <2> QED BY <1>3, <1>5, <2>1 DEF Instance
<1> HIDE DEF r
<1>8. ToSet(Append(r, e)) = D \cup {e}
  BY <1>2, ToSetAppend
<1>9. Once(Append(r, e))
  <2>1. e.type = "TxSeen" => ~SeenIn(ToSet(r), e.tx)
    <3>1. e.tx \in DOMAIN Tx
      BY AEventFacts
    <3> HIDE DEF D
    <3> QED BY <1>1, <1>2, <3>1 DEF Summary, Known
  <2> QED BY <1>1, <1>2, <2>1, OnceAppend
<1>10. Summary(y.seen, D \cup {e})
  <2> HIDE DEF y, D
  <2> QED BY <1>3, <1>5
<1> HIDE DEF y, D
<1>11. All(r0, y) = D \cup {e}
  BY <1>6, <1>8 DEF All
<1> QED BY <1>6, <1>7, <1>9, <1>10, <1>11 DEF Making, y, D

LEMMA UserStep ==
  ASSUME NEW r0, NEW m, Making(r0, m), NEW o \in Outpoints, NEW t \in DOMAIN Tx
  PROVE  /\ Making(r0, [m EXCEPT !.user = Advanced!Put(@, {o}, t)])
         /\ All(r0, [m EXCEPT !.user = Advanced!Put(@, {o}, t)]) = All(r0, m)
<1> DEFINE y == [m EXCEPT !.user = Advanced!Put(@, {o}, t)]
           u == Advanced!Put(m.user, {o}, t)
<1>1. m \in Instance /\ m.user \in Users
  BY DEF Making, Instance
<1>2. u \in Users
  <2>1. {o} \in SUBSET Outpoints
    OBVIOUS
  <2> QED BY <1>1, <2>1, PartialFunctions
<1>3. y = [m EXCEPT !.user = u]
  OBVIOUS
<1> HIDE DEF u, y
<1>4. y \in Instance /\ y.seen = m.seen /\ y.new = m.new
  BY <1>1, <1>2, <1>3 DEF Instance
<1>5. All(r0, y) = All(r0, m)
  BY <1>4 DEF All
<1> QED BY <1>4, <1>5 DEF Making, y

-----------------------------------------------------------------------------
(* What an instance that goes on adds: nothing that confirms, unless a     *)
(* block does, and at the height of the command.                           *)
New(r0, m, m2) == All(r0, m2) \ All(r0, m)

Later(r0, m, m2, h) ==
  /\ Making(r0, m2)
  /\ All(r0, m) \subseteq All(r0, m2)
  /\ \A e \in New(r0, m, m2) : e.type # "TxConfirmed" /\ e.height = h

LEMMA LaterSelf ==
  ASSUME NEW r0, NEW m, Making(r0, m), NEW h
  PROVE  Later(r0, m, m, h)
BY DEF Later, New

LEMMA LaterStill ==
  ASSUME NEW r0, NEW m, NEW m2, NEW m3, NEW h, Later(r0, m, m2, h), Later(r0, m2, m3, h)
  PROVE  Later(r0, m, m3, h)
BY DEF Later, New

(* Events that are told, and not looked up.                                *)
Telling(e, h) == e \in AEvent /\ e.type \notin {"TxSeen", "TxConfirmed"} /\ e.height = h

LEMMA TellStep ==
  ASSUME NEW r0 \in Seq(AEvent), NEW m, Making(r0, m), NEW h, NEW e, Telling(e, h)
  PROVE  Later(r0, m, Advanced!ApplyEvent(m, e), h)
<1>1. e \in AEvent /\ e.type # "TxSeen" /\ e.type # "TxConfirmed" /\ e.height = h
  BY DEF Telling
<1>2. /\ Making(r0, Advanced!ApplyEvent(m, e))
      /\ All(r0, Advanced!ApplyEvent(m, e)) = All(r0, m) \cup {e}
  BY <1>1, ApplyStep
<1> DEFINE y == Advanced!ApplyEvent(m, e)
<1> HIDE DEF y
<1> QED BY <1>1, <1>2 DEF Later, New, y

LEMMA SeeStep ==
  ASSUME NEW r0 \in Seq(AEvent), NEW m, Making(r0, m), NEW t \in DOMAIN Tx, NEW h \in Int,
         NEW source \in Sources
  PROVE  /\ Later(r0, m, Advanced!See(m, t, h, source), h)
         /\ Known(All(r0, m), t) \/ SeenIn(All(r0, Advanced!See(m, t, h, source)), t)
<1> DEFINE e == Advanced!TxSeen(t, h, source)
           y == Advanced!ApplyEvent(m, e)
<1>1. CASE t \in DOMAIN m.seen
  <2>1. Advanced!See(m, t, h, source) = m
    BY <1>1 DEF Advanced!See, Advanced!Seen
  <2>2. Summary(m.seen, All(r0, m))
    BY DEF Making
  <2> DEFINE D == All(r0, m)
  <2> HIDE DEF D
  <2>3. Known(D, t)
    BY <1>1, <2>2 DEF Summary, D
  <2> QED BY <2>1, <2>3, LaterSelf DEF D
<1>2. CASE t \notin DOMAIN m.seen
  <2>1. Advanced!See(m, t, h, source) = y
    BY <1>2 DEF Advanced!See, Advanced!Seen
  <2>2. /\ e.type = "TxSeen" /\ e.tx = t /\ e.height = h
        /\ e \in SeenEvent
    <3>1. Tx[t].rbf \in BOOLEAN
      BY TxAssumption
    <3>2. Advanced!Touches(t) \in SUBSET Addresses
      BY TouchesType
    <3> QED BY <3>1, <3>2 DEF Advanced!TxSeen, SeenEvent
  <2>3. e \in AEvent
    BY <2>2 DEF AEvent
  <2> HIDE DEF e
  <2>4. Making(r0, y) /\ All(r0, y) = All(r0, m) \cup {e}
    BY <1>2, <2>2, <2>3, ApplyStep
  <2> HIDE DEF y
  <2>5. Later(r0, m, y, h)
    BY <2>2, <2>4 DEF Later, New
  <2>6. SeenIn(All(r0, y), t)
    BY <2>2, <2>4 DEF SeenIn
  <2> QED BY <2>1, <2>5, <2>6
<1> QED BY <1>1, <1>2

LEMMA ConflictStep ==
  ASSUME NEW r0 \in Seq(AEvent), NEW m, Making(r0, m), NEW t \in DOMAIN Tx,
         NEW o \in Outpoints, o \in DOMAIN m.user, NEW h \in Int
  PROVE  Later(r0, m, Advanced!Conflict(m, t, o, h), h)
<1> DEFINE prev == m.user[o]
           event(type) == [type |-> type, tx |-> t, height |-> h, prev |-> prev, outpoint |-> o]
           replaced == IF prev \in DOMAIN m.seen /\ m.seen[prev].rbf
                       THEN Advanced!ApplyEvent(m, event("TxReplacedByRbf")) ELSE m
<1>1. prev \in DOMAIN Tx
  BY PartialFunctions DEF Making, Instance
<1>2. ASSUME NEW type \in {"TxReplacedByRbf", "DoubleSpendDetected"}
      PROVE  Telling(event(type), h)
  <2> DEFINE e == event(type)
  <2>1. e \in ConflictEvent /\ e.type = type /\ e.height = h
    BY <1>1 DEF ConflictEvent
  <2> HIDE DEF e
  <2> QED BY <2>1 DEF Telling, AEvent, e
<1>3. Advanced!Conflict(m, t, o, h) = Advanced!ApplyEvent(replaced, event("DoubleSpendDetected"))
  BY DEF Advanced!Conflict, Advanced!Seen
<1>4. Telling(event("TxReplacedByRbf"), h) /\ Telling(event("DoubleSpendDetected"), h)
  BY <1>2
<1> HIDE DEF event
<1>5. Later(r0, m, Advanced!ApplyEvent(m, event("TxReplacedByRbf")), h)
  BY <1>4, TellStep
<1>6. Later(r0, m, replaced, h)
  BY <1>5, LaterSelf
<1> HIDE DEF replaced
<1>7. Later(r0, replaced, Advanced!ApplyEvent(replaced, event("DoubleSpendDetected")), h)
  BY <1>4, <1>6, TellStep DEF Later
<1> QED BY <1>3, <1>6, <1>7, LaterStill

LEMMA UseInputStep ==
  ASSUME NEW r0 \in Seq(AEvent), NEW m, Making(r0, m), NEW t \in DOMAIN Tx,
         NEW o \in Outpoints, NEW h \in Int
  PROVE  Later(r0, m, Advanced!UseInput(m, t, o, h), h)
<1> DEFINE told == IF o \in DOMAIN m.user /\ m.user[o] # t THEN Advanced!Conflict(m, t, o, h) ELSE m
           y == [told EXCEPT !.user = Advanced!Put(@, {o}, t)]
<1>1. Advanced!UseInput(m, t, o, h) = y
  BY DEF Advanced!UseInput
<1>2. Later(r0, m, told, h)
  BY ConflictStep, LaterSelf
<1> HIDE DEF told
<1>3. Making(r0, told)
  BY <1>2 DEF Later
<1>4. Making(r0, y) /\ All(r0, y) = All(r0, told)
  BY <1>3, UserStep
<1> HIDE DEF y
<1>5. Later(r0, told, y, h)
  BY <1>4 DEF Later, New
<1> QED BY <1>1, <1>2, <1>5, LaterStill

-----------------------------------------------------------------------------
(* A tick of the mempool.                                                  *)
InputStep(c, m, o) == Advanced!UseInput(m, c[1], o, c[2])

FI == INSTANCE Folding WITH op <- InputStep

TickStep(c, m, t) == IF Advanced!Parsed(t) THEN Advanced!FeedTx(m, t, c) ELSE m

FT == INSTANCE Folding WITH op <- TickStep

LEMMA FeedStep ==
  ASSUME NEW r0 \in Seq(AEvent), NEW m, Making(r0, m), NEW t \in DOMAIN Tx, NEW tip \in Int
  PROVE  Later(r0, m, Advanced!FeedTx(m, t, tip), tip)
<1> DEFINE seen == Advanced!See(m, t, tip, "mempool")
           e == Advanced!Event("WalletCreditSeen", t, tip)
           credited == IF Advanced!Touches(t) \ seen.seen[t].touches = {} THEN seen
                       ELSE Advanced!ApplyEvent(seen, e)
           vin == Tx[t].vin
           S == {x \in Instance : Later(r0, m, x, tip)}
           c == <<t, tip>>
<1>1. Advanced!FeedTx(m, t, tip) = FI!Fold(c, credited, vin)
  BY DEF Advanced!FeedTx, Advanced!FoldLeft, Advanced!MapThenFoldSet, Advanced!Max, FI!Fold, FI!Max,
         InputStep
<1>2. Later(r0, m, seen, tip)
  <2>1. "mempool" \in Sources
    BY DEF Sources
  <2> QED BY <2>1, SeeStep
<1>3. Telling(e, tip)
  <2>1. e \in PlainEvent /\ e.type = "WalletCreditSeen" /\ e.height = tip
    BY DEF Advanced!Event, PlainEvent
  <2> HIDE DEF e
  <2> QED BY <2>1 DEF Telling, AEvent
<1> HIDE DEF e, seen
<1>4. Later(r0, seen, Advanced!ApplyEvent(seen, e), tip)
  BY <1>2, <1>3, TellStep DEF Later
<1>5. Later(r0, m, credited, tip)
  BY <1>2, <1>4, LaterStill
<1> HIDE DEF credited
<1>6. vin \in Seq(Outpoints)
  BY TxAssumption DEF Outpoints
<1>7. credited \in S
  BY <1>5 DEF Later, Making
<1>8. ASSUME NEW x \in S, NEW o \in Outpoints PROVE InputStep(c, x, o) \in S
  <2> DEFINE y == Advanced!UseInput(x, t, o, tip)
  <2>1. Later(r0, x, y, tip)
    BY UseInputStep DEF Later
  <2> HIDE DEF y
  <2>2. Later(r0, m, y, tip)
    BY <2>1, LaterStill
  <2> QED BY <2>2 DEF InputStep, Later, Making, y
<1> HIDE DEF S, vin, c
<1>9. FI!Fold(c, credited, vin) \in S
  BY <1>6, <1>7, <1>8, FI!FoldType
<1> QED BY <1>1, <1>9 DEF S

LEMMA MempoolStep ==
  ASSUME NEW r0 \in Seq(AEvent), NEW m, Making(r0, m), NEW txids \in Seq(DOMAIN Tx), NEW tip \in Int
  PROVE  Later(r0, m, Advanced!MempoolTick(m, tip, txids), tip)
<1> DEFINE S == {x \in Instance : Later(r0, m, x, tip)}
<1>1. Advanced!MempoolTick(m, tip, txids) = FT!Fold(tip, m, txids)
  BY DEF Advanced!MempoolTick, Advanced!FoldLeft, Advanced!MapThenFoldSet, Advanced!Max, FT!Fold, FT!Max,
         TickStep
<1>2. m \in S
  BY LaterSelf DEF Making
<1>3. ASSUME NEW x \in S, NEW t \in DOMAIN Tx PROVE TickStep(tip, x, t) \in S
  <2> DEFINE y == Advanced!FeedTx(x, t, tip)
  <2>1. Later(r0, x, y, tip)
    BY FeedStep DEF Later
  <2> HIDE DEF y
  <2>2. Later(r0, m, y, tip)
    BY <2>1, LaterStill
  <2>3. y \in S
    BY <2>2 DEF Later, Making
  <2> QED BY <2>3 DEF TickStep, y
<1> HIDE DEF S
<1>4. FT!Fold(tip, m, txids) \in S
  BY <1>2, <1>3, FT!FoldType
<1> QED BY <1>1, <1>4 DEF S

-----------------------------------------------------------------------------
(* One transaction of a block.                                             *)
Confirms(r0, m, m2, t, h, index) ==
  /\ Making(r0, m2)
  /\ All(r0, m) \subseteq All(r0, m2)
  /\ \E e \in All(r0, m2) : e.type = "TxConfirmed" /\ e.tx = t
  /\ \A e \in New(r0, m, m2) :
       /\ e.height = h
       /\ e.type = "TxConfirmed" => e.tx = t /\ e.index = index
  /\ Known(All(r0, m), t) \/ SeenIn(All(r0, m2), t)

LEMMA ConfirmStep ==
  ASSUME NEW r0 \in Seq(AEvent), NEW m, Making(r0, m), NEW t \in DOMAIN Tx,
         NEW h \in Int, NEW index \in Int
  PROVE  Confirms(r0, m, Advanced!Confirm(m, t, h, index), t, h, index)
<1> DEFINE seen == Advanced!See(m, t, h, "block")
           e1 == Advanced!TxConfirmed(t, h, index)
           e2 == Advanced!Event("WalletCreditConfirmed", t, h)
           confirmed == Advanced!ApplyEvent(seen, e1)
           y == Advanced!ApplyEvent(confirmed, e2)
<1>1. Advanced!Confirm(m, t, h, index) = y
  BY DEF Advanced!Confirm
<1>2. Later(r0, m, seen, h) /\ (Known(All(r0, m), t) \/ SeenIn(All(r0, seen), t))
  <2>1. "block" \in Sources
    BY DEF Sources
  <2> QED BY <2>1, SeeStep
<1>3. e1 \in AEvent /\ e1.type = "TxConfirmed" /\ e1.tx = t /\ e1.height = h /\ e1.index = index
  <2>1. /\ e1 \in ConfirmedEvent
        /\ e1.type = "TxConfirmed" /\ e1.tx = t /\ e1.height = h /\ e1.index = index
    BY DEF Advanced!TxConfirmed, ConfirmedEvent
  <2> HIDE DEF e1
  <2> QED BY <2>1 DEF AEvent
<1>4. Telling(e2, h)
  <2>1. e2 \in PlainEvent /\ e2.type = "WalletCreditConfirmed" /\ e2.height = h
    BY DEF Advanced!Event, PlainEvent
  <2> HIDE DEF e2
  <2> QED BY <2>1 DEF Telling, AEvent
<1> HIDE DEF e1, e2, seen
<1>5. Making(r0, confirmed) /\ All(r0, confirmed) = All(r0, seen) \cup {e1}
  BY <1>2, <1>3, ApplyStep DEF Later
<1> HIDE DEF confirmed
<1>6. Later(r0, confirmed, y, h)
  BY <1>4, <1>5, TellStep
<1> HIDE DEF y
<1>7. All(r0, m) \subseteq All(r0, seen) /\ All(r0, seen) \subseteq All(r0, y) /\ e1 \in All(r0, y)
  BY <1>2, <1>5, <1>6 DEF Later
<1>8. ASSUME NEW e \in New(r0, m, y)
      PROVE  e.height = h /\ (e.type = "TxConfirmed" => e.tx = t /\ e.index = index)
  <2>1. e \in New(r0, m, seen) \/ e = e1 \/ e \in New(r0, confirmed, y)
    BY <1>5 DEF New
  <2> QED BY <1>2, <1>3, <1>6, <2>1 DEF Later
<1>9. Known(All(r0, m), t) \/ SeenIn(All(r0, y), t)
  BY <1>2, <1>7 DEF SeenIn
<1> QED BY <1>1, <1>3, <1>6, <1>7, <1>8, <1>9 DEF Confirms, Later

-----------------------------------------------------------------------------
(* The stored events of a chain; calm as long as no tick was ahead of it.  *)
Placed(D, c) ==
  \A e \in D :
    e.type = "TxConfirmed" =>
      /\ Advanced!Parsed(e.tx)
      /\ \E i \in DOMAIN c : /\ e.height = i - 1 /\ e.tx \in ToSet(c[i])
                             /\ e.index = Advanced!IndexIn(c[i], e.tx)

HasConfirmed(D, t) == \E e \in D : e.type = "TxConfirmed" /\ e.tx = t

Complete(D, T) == \A t \in T : Advanced!Parsed(t) => HasConfirmed(D, t)

(* What is confirmed was seen, and not later; what was seen is below h.    *)
SeenFirst(D) ==
  \A e \in D :
    e.type = "TxConfirmed" =>
      \E s \in D : s.type = "TxSeen" /\ s.tx = e.tx /\ s.height <= e.height

Below(D, h) == \A e \in D : e.type = "TxSeen" => e.height <= h

Good(D, c, calm) ==
  /\ Placed(D, c)
  /\ Complete(D, Confirmed(c))
  /\ calm => SeenFirst(D) /\ Below(D, Len(c) - 1)

LEMMA IndexType ==
  ASSUME NEW b \in Seq(DOMAIN Tx), NEW t \in ToSet(b)
  PROVE  Advanced!IndexIn(b, t) \in Int
<1> DEFINE I == {i \in 1..Len(b) : b[i] = t}
           R == OpToRel(<, Nat)
<1>1. I \in SUBSET Nat /\ I # {}
  BY LenProperties DEF ToSet
<1>2. Advanced!IndexIn(b, t) = (CHOOSE x \in I : \A y \in I : x =< y) - 1
  <2>1. I # {}
    BY <1>1
  <2> QED BY <2>1 DEF Advanced!IndexIn, Advanced!SelectInSeq, Advanced!Min
<1> HIDE DEF I
<1>3. PICK w \in I : \A x \in I : ~(<<x, w>> \in R)
  <2>1. IsWellFoundedOn(R, Nat)
    BY NatLessThanWellFounded
  <2> HIDE DEF R
  <2>2. I \subseteq Nat
    BY <1>1
  <2> QED BY <1>1, <2>1, <2>2, WFMin
<1>4. \A x, y \in Nat : x < y => <<x, y>> \in R
  BY DEF OpToRel
<1> HIDE DEF R
<1>5. \A x \in I : x \in Nat
  BY <1>1
<1>6. \A x \in I : w <= x
  <2>1. ASSUME NEW x \in I PROVE w <= x
    <3>1. ~(x < w)
      BY <1>3, <1>4, <1>5
    <3> QED BY <1>5, <3>1
  <2> QED BY <2>1
<1> DEFINE first == CHOOSE x \in I : \A y \in I : x =< y
<1>7. first \in I
  BY <1>6
<1> HIDE DEF first
<1>8. first - 1 \in Int
  BY <1>5, <1>7
<1> QED BY <1>2, <1>8 DEF first

-----------------------------------------------------------------------------
(* A block.                                                                *)
BlockTx(c, m, t) ==
  IF Advanced!Parsed(t) THEN Advanced!Confirm(m, t, c[1], Advanced!IndexIn(c[2], t)) ELSE m

FX == INSTANCE Folding WITH op <- BlockTx

(* An instance in the middle of block b, after its first k transactions.   *)
InBlock(r0, m, x, h, b, k, calm) ==
  /\ Making(r0, x)
  /\ All(r0, m) \subseteq All(r0, x)
  /\ \A i \in 1..k : Advanced!Parsed(b[i]) => HasConfirmed(All(r0, x), b[i])
  /\ \A e \in New(r0, m, x) :
       /\ e.height = h
       /\ e.type = "TxConfirmed" =>
            Advanced!Parsed(e.tx) /\ e.tx \in ToSet(b) /\ e.index = Advanced!IndexIn(b, e.tx)
  /\ calm => SeenFirst(All(r0, x)) /\ Below(All(r0, x), h)

LEMMA InBlockStep ==
  ASSUME NEW r0 \in Seq(AEvent), NEW m, NEW x, NEW h \in Int, NEW b \in Seq(DOMAIN Tx), NEW calm,
         NEW k \in 1..Len(b), InBlock(r0, m, x, h, b, k - 1, calm), Advanced!Parsed(b[k])
  PROVE  InBlock(r0, m, Advanced!Confirm(x, b[k], h, Advanced!IndexIn(b, b[k])), h, b, k, calm)
<1> DEFINE t == b[k]
           index == Advanced!IndexIn(b, t)
           y == Advanced!Confirm(x, t, h, index)
           D == All(r0, x)
           D2 == All(r0, y)
<1>1. t \in DOMAIN Tx /\ t \in ToSet(b) /\ Making(r0, x) /\ Len(b) \in Nat
  BY ElementOfSeq, LenProperties DEF ToSet, InBlock
<1>2. index \in Int
  BY <1>1, IndexType
<1> HIDE DEF index, t
<1>3. Confirms(r0, x, y, t, h, index)
  BY <1>1, <1>2, ConfirmStep
<1> HIDE DEF y
<1>4. /\ Making(r0, y) /\ D \subseteq D2 /\ HasConfirmed(D2, t)
      /\ \A e \in D2 \ D : /\ e.height = h
                           /\ e.type = "TxConfirmed" => e.tx = t /\ e.index = index
      /\ Known(D, t) \/ SeenIn(D2, t)
  BY <1>3 DEF Confirms, New, HasConfirmed
<1>5. All(r0, m) \subseteq D /\ \A i \in 1..(k - 1) : Advanced!Parsed(b[i]) => HasConfirmed(D, b[i])
  BY DEF InBlock
<1>6. \A e \in D \ All(r0, m) :
        /\ e.height = h
        /\ e.type = "TxConfirmed" =>
             Advanced!Parsed(e.tx) /\ e.tx \in ToSet(b) /\ e.index = Advanced!IndexIn(b, e.tx)
  BY DEF InBlock, New
<1> DEFINE M == All(r0, m)
<1> HIDE DEF D, D2, M
<1>7. \A i \in 1..k : Advanced!Parsed(b[i]) => HasConfirmed(D2, b[i])
  <2>1. ASSUME NEW i \in 1..k, Advanced!Parsed(b[i]) PROVE HasConfirmed(D2, b[i])
    <3>1. CASE i = k
      BY <1>4, <3>1 DEF t
    <3>2. CASE i # k
      <4>1. i \in 1..(k - 1)
        BY <1>1, <3>2
      <4> QED BY <1>4, <1>5, <2>1, <4>1 DEF HasConfirmed
    <3> QED BY <3>1, <3>2
  <2> QED BY <2>1
<1>8. \A e \in D2 \ M :
        /\ e.height = h
        /\ e.type = "TxConfirmed" =>
             Advanced!Parsed(e.tx) /\ e.tx \in ToSet(b) /\ e.index = Advanced!IndexIn(b, e.tx)
  <2>1. Advanced!Parsed(t) /\ index = Advanced!IndexIn(b, t)
    BY DEF t, index
  <2>2. ASSUME NEW e \in D2 \ M
        PROVE  /\ e.height = h
               /\ e.type = "TxConfirmed" =>
                    Advanced!Parsed(e.tx) /\ e.tx \in ToSet(b) /\ e.index = Advanced!IndexIn(b, e.tx)
    <3>1. CASE e \in D
      BY <1>6, <3>1 DEF M
    <3>2. CASE e \notin D
      BY <1>1, <1>4, <2>1, <3>2
    <3> QED BY <3>1, <3>2
  <2> QED BY <2>2
<1>9. ASSUME calm PROVE SeenFirst(D2) /\ Below(D2, h)
  <2>1. SeenFirst(D) /\ Below(D, h)
    BY <1>9 DEF InBlock, D
  <2>2. Below(D2, h)
    BY <1>4, <2>1 DEF Below
  <2>3. SeenIn(D2, t)
    <3>1. ASSUME PlacesIn(D, t) # {} PROVE SeenIn(D, t)
      BY <2>1, <3>1 DEF PlacesIn, ConfirmedIn, SeenFirst, SeenIn
    <3> QED BY <1>4, <3>1 DEF Known, SeenIn
  <2>4. ASSUME NEW e \in D2, e.type = "TxConfirmed"
        PROVE  \E s \in D2 : s.type = "TxSeen" /\ s.tx = e.tx /\ s.height <= e.height
    <3>1. CASE e \in D
      BY <1>4, <2>1, <2>4, <3>1 DEF SeenFirst
    <3>2. CASE e \notin D
      BY <1>4, <2>2, <2>3, <2>4, <3>2 DEF SeenIn, Below
    <3> QED BY <3>1, <3>2
  <2> QED BY <2>2, <2>4 DEF SeenFirst
<1>10. M \subseteq D2
  BY <1>4, <1>5 DEF M
<1>11. InBlock(r0, m, y, h, b, k, calm)
  BY <1>4, <1>7, <1>8, <1>9, <1>10 DEF InBlock, New, D2, M
<1> QED BY <1>11 DEF y, index, t

LEMMA ChainAppend ==
  ASSUME NEW c \in Chains, NEW b \in Seq(DOMAIN Tx)
  PROVE  /\ Append(c, b) \in Chains /\ Len(Append(c, b)) = Len(c) + 1 /\ Len(c) \in Nat
         /\ DOMAIN c = 1..Len(c) /\ DOMAIN Append(c, b) = 1..(Len(c) + 1)
         /\ Append(c, b)[Len(c) + 1] = b /\ \A i \in 1..Len(c) : Append(c, b)[i] = c[i]
         /\ Confirmed(Append(c, b)) = Confirmed(c) \cup ToSet(b)
<1> DEFINE n == Len(c)
           d == Append(c, b)
<1>1. /\ d \in Chains /\ Len(d) = n + 1 /\ n \in Nat /\ DOMAIN c = 1..n /\ DOMAIN d = 1..(n + 1)
      /\ d[n + 1] = b /\ \A i \in 1..n : d[i] = c[i]
  BY AppendProperties, LenProperties DEF Chains
<1> HIDE DEF n, d
<1>2. 1..(n + 1) = (1..n) \cup {n + 1}
  BY <1>1
<1>3. Confirmed(d) = Confirmed(c) \cup ToSet(b)
  BY <1>1, <1>2 DEF Confirmed
<1> QED BY <1>1, <1>3 DEF n, d

LEMMA BlockStep ==
  ASSUME NEW r0 \in Seq(AEvent), NEW m, Making(r0, m), NEW c \in Chains, NEW b \in Seq(DOMAIN Tx),
         NEW calm, Good(All(r0, m), c, calm)
  PROVE  /\ Making(r0, Advanced!ProcessBlock(m, Len(c), b))
         /\ Good(All(r0, Advanced!ProcessBlock(m, Len(c), b)), Append(c, b), calm)
<1> DEFINE h == Len(c)
           n == Len(b)
           y == Advanced!ProcessBlock(m, h, b)
           S == [k \in 0..n |-> {x \in Instance : InBlock(r0, m, x, h, b, k, calm)}]
           cb == <<h, b>>
           D == All(r0, m)
           d == Append(c, b)
<1>1. n \in Nat /\ DOMAIN b = 1..n /\ h \in Int
  BY LenProperties DEF Chains
<1>2. y = FX!Fold(cb, m, b)
  BY DEF Advanced!ProcessBlock, Advanced!FoldLeft, Advanced!MapThenFoldSet, Advanced!Max, FX!Fold,
         FX!Max, BlockTx
<1>3. ASSUME calm PROVE SeenFirst(D) /\ Below(D, h)
  <2>1. SeenFirst(D) /\ Below(D, h - 1)
    BY <1>3 DEF Good
  <2> HIDE DEF D
  <2>2. \A e \in D : e.height \in Int
    <3>1. D \subseteq AEvent
      <4>1. m.new \in Seq(AEvent)
        BY DEF Making, Instance
      <4>2. r0 \o m.new \in Seq(AEvent)
        BY <4>1, ConcatProperties
      <4> QED BY <4>2, ToSetType DEF D, All
    <3> QED BY <3>1, AEventFacts
  <2> QED BY <1>1, <2>1, <2>2 DEF Below
<1>4. m \in S[0]
  <2>1. InBlock(r0, m, m, h, b, 0, calm)
    <3>1. 1..0 = {}
      OBVIOUS
    <3> QED BY <1>3, <3>1 DEF InBlock, New
  <2> QED BY <1>1, <2>1 DEF Making
<1>5. ASSUME NEW k \in 1..n, NEW x \in S[k - 1] PROVE BlockTx(cb, x, b[k]) \in S[k]
  <2>1. k - 1 \in 0..n /\ k \in 0..n
    BY <1>1
  <2>2. x \in Instance /\ InBlock(r0, m, x, h, b, k - 1, calm)
    BY <1>5, <2>1
  <2> DEFINE z == BlockTx(cb, x, b[k])
  <2>3. InBlock(r0, m, z, h, b, k, calm)
    <3>1. CASE Advanced!Parsed(b[k])
      <4>1. z = Advanced!Confirm(x, b[k], h, Advanced!IndexIn(b, b[k]))
        BY <3>1 DEF BlockTx
      <4> HIDE DEF z
      <4> QED BY <1>1, <2>2, <3>1, <4>1, InBlockStep
    <3>2. CASE ~Advanced!Parsed(b[k])
      <4>1. z = x
        BY <3>2 DEF BlockTx
      <4>2. \A i \in 1..k : i \in 1..(k - 1) \/ i = k
        BY <1>1
      <4> HIDE DEF z
      <4> QED BY <2>2, <3>2, <4>1, <4>2 DEF InBlock
    <3> QED BY <3>1, <3>2
  <2> HIDE DEF z
  <2>4. z \in Instance
    BY <2>3 DEF InBlock, Making
  <2> QED BY <2>1, <2>3, <2>4 DEF z
<1> HIDE DEF S
<1>6. FX!Fold(cb, m, b) \in S[n]
  BY <1>4, <1>5, FX!FoldInvariant
<1> HIDE DEF y
<1>7. InBlock(r0, m, y, h, b, n, calm)
  <2>1. n \in 0..n
    BY <1>1
  <2> QED BY <1>2, <1>6, <2>1 DEF S
<1> DEFINE D2 == All(r0, y)
<1>8. /\ Making(r0, y) /\ D \subseteq D2
      /\ \A i \in 1..n : Advanced!Parsed(b[i]) => HasConfirmed(D2, b[i])
      /\ \A e \in D2 \ D :
           /\ e.height = h
           /\ e.type = "TxConfirmed" =>
                Advanced!Parsed(e.tx) /\ e.tx \in ToSet(b) /\ e.index = Advanced!IndexIn(b, e.tx)
      /\ calm => SeenFirst(D2) /\ Below(D2, h)
  BY <1>7 DEF InBlock, New
<1>9. Placed(D, c) /\ Complete(D, Confirmed(c))
  BY DEF Good
<1>10. /\ Len(d) = h + 1 /\ h \in Nat /\ DOMAIN c = 1..h /\ DOMAIN d = 1..(h + 1)
       /\ d[h + 1] = b /\ \A i \in 1..h : d[i] = c[i]
       /\ Confirmed(d) = Confirmed(c) \cup ToSet(b)
  BY ChainAppend
<1> HIDE DEF D, D2, h, d, n
<1>11. Placed(D2, d)
  <2> SUFFICES ASSUME NEW e \in D2, e.type = "TxConfirmed"
               PROVE  /\ Advanced!Parsed(e.tx)
                      /\ \E i \in DOMAIN d : /\ e.height = i - 1 /\ e.tx \in ToSet(d[i])
                                             /\ e.index = Advanced!IndexIn(d[i], e.tx)
    BY DEF Placed
  <2>1. CASE e \in D
    <3>1. PICK i \in DOMAIN c : /\ e.height = i - 1 /\ e.tx \in ToSet(c[i])
                                /\ e.index = Advanced!IndexIn(c[i], e.tx)
      BY <1>9, <2>1 DEF Placed
    <3>2. i \in DOMAIN d /\ d[i] = c[i]
      BY <1>10
    <3>3. Advanced!Parsed(e.tx)
      BY <1>9, <2>1 DEF Placed
    <3> QED BY <3>1, <3>2, <3>3
  <2>2. CASE e \notin D
    <3>1. /\ e.height = h /\ Advanced!Parsed(e.tx) /\ e.tx \in ToSet(b)
          /\ e.index = Advanced!IndexIn(b, e.tx)
      BY <1>8, <2>2
    <3>2. h + 1 \in DOMAIN d /\ e.height = (h + 1) - 1 /\ d[h + 1] = b
      BY <1>10, <3>1
    <3> QED BY <3>1, <3>2
  <2> QED BY <2>1, <2>2
<1>12. Complete(D2, Confirmed(d))
  <2>1. \A t \in Confirmed(c) : Advanced!Parsed(t) => HasConfirmed(D2, t)
    BY <1>8, <1>9 DEF Complete, HasConfirmed
  <2>2. \A t \in ToSet(b) : Advanced!Parsed(t) => HasConfirmed(D2, t)
    BY <1>1, <1>8 DEF ToSet
  <2> QED BY <1>10, <2>1, <2>2 DEF Complete
<1>13. Good(D2, d, calm)
  <2>1. Len(d) - 1 = h
    BY <1>10
  <2> QED BY <1>8, <1>11, <1>12, <2>1 DEF Good
<1> QED BY <1>8, <1>13 DEF D2, y, h, d

-----------------------------------------------------------------------------
(* The stored events, as commands leave them.                              *)
Stored(r, c, calm) == r \in Seq(AEvent) /\ Once(r) /\ Good(ToSet(r), c, calm)

LEMMA StoreStep ==
  ASSUME NEW r \in Seq(AEvent), NEW y, Making(r, y), NEW c, NEW calm, Good(All(r, y), c, calm)
  PROVE  Stored(r \o y.new, c, calm)
<1>1. y.new \in Seq(AEvent) /\ Once(r \o y.new)
  BY DEF Making, Instance
<1>2. r \o y.new \in Seq(AEvent)
  BY <1>1, ConcatProperties
<1> QED BY <1>1, <1>2 DEF Stored, All

BatchTx(c, m, i) == Advanced!ProcessBlock(m, c[1] + i, c[2][i])

FY == INSTANCE Folding WITH op <- BatchTx

(* The chain c with the first k blocks of a batch.                         *)
Grown(c, batch, k) ==
  [i \in 1..(Len(c) + k) |-> IF i <= Len(c) THEN c[i] ELSE batch[i - Len(c)]]

LEMMA GrownFacts ==
  ASSUME NEW c \in Chains, NEW batch \in Chains
  PROVE  /\ Grown(c, batch, 0) = c
         /\ Grown(c, batch, Len(batch)) = c \o batch
         /\ \A k \in 0..Len(batch) : Grown(c, batch, k) \in Chains /\ Len(Grown(c, batch, k)) = Len(c) + k
         /\ \A k \in 1..Len(batch) : Grown(c, batch, k) = Append(Grown(c, batch, k - 1), batch[k])
<1> DEFINE n == Len(c)
           g(k) == Grown(c, batch, k)
<1>1. /\ n \in Nat /\ DOMAIN c = 1..n /\ \A i \in 1..n : c[i] \in Seq(DOMAIN Tx)
      /\ Len(batch) \in Nat /\ DOMAIN batch = 1..Len(batch)
      /\ \A i \in 1..Len(batch) : batch[i] \in Seq(DOMAIN Tx)
  BY LenProperties, ElementOfSeq DEF Chains
<1>2. c = [i \in 1..n |-> c[i]]
  BY DEF Chains
<1>3. g(0) = c
  <2>1. g(0) = [i \in 1..n |-> IF i <= n THEN c[i] ELSE batch[i - n]]
    BY <1>1 DEF Grown
  <2>2. \A i \in 1..n : i <= n
    BY <1>1
  <2> HIDE DEF n
  <2> QED BY <1>2, <2>1, <2>2
<1>4. g(Len(batch)) = c \o batch
  <2> DEFINE m == Len(batch)
             d == c \o batch
  <2>1. /\ Len(d) = n + m /\ DOMAIN d = 1..(n + m) /\ d \in Chains
        /\ \A i \in 1..(n + m) : d[i] = IF i <= n THEN c[i] ELSE batch[i - n]
    BY <1>1, ConcatProperties DEF Chains
  <2> HIDE DEF d
  <2>2. d = [i \in 1..(n + m) |-> d[i]]
    BY <2>1 DEF Chains
  <2>3. g(m) = [i \in 1..(n + m) |-> IF i <= n THEN c[i] ELSE batch[i - n]]
    BY DEF Grown
  <2> HIDE DEF g, n, m
  <2>4. g(m) = d
    BY <2>1, <2>2, <2>3
  <2> QED BY <2>4 DEF d, m
<1>5. ASSUME NEW k \in 0..Len(batch) PROVE g(k) \in Chains /\ Len(g(k)) = n + k
  <2>1. g(k) = [i \in 1..(n + k) |-> IF i <= n THEN c[i] ELSE batch[i - n]]
    BY DEF Grown
  <2>2. \A i \in 1..(n + k) : (IF i <= n THEN c[i] ELSE batch[i - n]) \in Seq(DOMAIN Tx)
    BY <1>1
  <2>3. \A m \in Nat : \A V : \A f \in [1..m -> V] : f \in Seq(V) /\ Len(f) = m
    OBVIOUS
  <2>4. n + k \in Nat
    BY <1>1
  <2> DEFINE m == n + k
  <2> HIDE DEF g, n, m
  <2>5. g(k) \in [1..m -> Seq(DOMAIN Tx)]
    BY <2>1, <2>2 DEF m
  <2>6. g(k) \in Seq(Seq(DOMAIN Tx)) /\ Len(g(k)) = m
    BY <2>3, <2>4, <2>5 DEF m
  <2> QED BY <2>6 DEF Chains, m
<1>6. ASSUME NEW k \in 1..Len(batch) PROVE g(k) = Append(g(k - 1), batch[k])
  <2> DEFINE a == g(k - 1)
             d == Append(a, batch[k])
  <2>1. a \in Chains /\ Len(a) = n + k - 1
    BY <1>1, <1>5
  <2>2. \A i \in 1..(n + k - 1) : a[i] = IF i <= n THEN c[i] ELSE batch[i - n]
    BY <1>1 DEF Grown
  <2> HIDE DEF a
  <2>3. /\ d \in Chains /\ Len(d) = n + k /\ d[n + k] = batch[k]
        /\ \A i \in 1..(n + k - 1) : d[i] = a[i]
    BY <1>1, <2>1, AppendProperties DEF Chains
  <2>4. d = [i \in 1..(n + k) |-> d[i]]
    BY <2>3 DEF Chains
  <2> HIDE DEF d
  <2>5. ASSUME NEW i \in 1..(n + k) PROVE d[i] = IF i <= n THEN c[i] ELSE batch[i - n]
    <3>1. CASE i = n + k
      BY <1>1, <2>3, <3>1
    <3>2. CASE i # n + k
      <4> HIDE DEF n
      <4>1. i \in 1..(n + k - 1)
        BY <1>1, <3>2
      <4>2. d[i] = a[i]
        BY <2>3, <4>1
      <4>3. a[i] = IF i <= n THEN c[i] ELSE batch[i - n]
        BY <2>2, <4>1
      <4> QED BY <4>2, <4>3 DEF n
    <3> QED BY <3>1, <3>2
  <2>6. g(k) = [i \in 1..(n + k) |-> IF i <= n THEN c[i] ELSE batch[i - n]]
    BY DEF Grown
  <2> HIDE DEF g
  <2> QED BY <2>4, <2>5, <2>6 DEF d, a
<1> QED BY <1>3, <1>4, <1>5, <1>6

LEMMA BatchStep ==
  ASSUME NEW r, NEW c \in Chains, NEW calm, Stored(r, c, calm), NEW batch \in Chains, NEW y,
         y = FY!Fold(<<Len(c) - 1, batch>>, Advanced!Restore(r), [i \in DOMAIN batch |-> i])
  PROVE  Stored(r \o y.new, c \o batch, calm)
<1> DEFINE n == Len(batch)
           h == Len(c) - 1
           m0 == Advanced!Restore(r)
           cb == <<h, batch>>
           ids == [i \in DOMAIN batch |-> i]
           S == [k \in 0..n |-> {x \in Instance : Making(r, x) /\ Good(All(r, x), Grown(c, batch, k), calm)}]
<1>1. /\ n \in Nat /\ DOMAIN batch = 1..n /\ h + 1 \in Nat /\ h + 1 = Len(c)
      /\ \A i \in 1..n : batch[i] \in Seq(DOMAIN Tx)
  <2>1. n \in Nat /\ DOMAIN batch = 1..n /\ \A i \in 1..n : batch[i] \in Seq(DOMAIN Tx)
    BY LenProperties, ElementOfSeq DEF Chains
  <2>2. Len(c) \in Nat
    BY LenProperties DEF Chains
  <2> HIDE DEF n
  <2> QED BY <2>1, <2>2
<1> HIDE DEF n
<1>2. ids \in Seq(1..n) /\ Len(ids) = n /\ \A i \in 1..n : ids[i] = i
  BY <1>1
<1>3. y = FY!Fold(cb, m0, ids)
  OBVIOUS
<1>4. r \in Seq(AEvent) /\ Making(r, m0) /\ All(r, m0) = ToSet(r)
  BY RestoreMakes DEF Stored
<1> HIDE DEF m0, cb, ids
<1>5. m0 \in S[0]
  <2>1. Good(All(r, m0), Grown(c, batch, 0), calm)
    BY <1>4, GrownFacts DEF Stored
  <2>2. 0 \in 0..n /\ m0 \in Instance
    BY <1>1, <1>4 DEF Making
  <2> QED BY <1>4, <2>1, <2>2
<1>6. ASSUME NEW k \in 1..n, NEW x \in S[k - 1] PROVE BatchTx(cb, x, ids[k]) \in S[k]
  <2> DEFINE a == Grown(c, batch, k - 1)
             b == batch[k]
             z == Advanced!ProcessBlock(x, Len(a), b)
  <2>1. k - 1 \in 0..n /\ k \in 0..n
    BY <1>1
  <2>2. x \in Instance /\ Making(r, x) /\ Good(All(r, x), a, calm)
    BY <1>6, <2>1
  <2>3. a \in Chains /\ Len(a) = h + k /\ Grown(c, batch, k) = Append(a, b)
    <3>1. a \in Chains /\ Len(a) = Len(c) + (k - 1)
      BY <2>1, GrownFacts DEF n
    <3>2. Grown(c, batch, k) = Append(a, b)
      BY GrownFacts DEF n
    <3> HIDE DEF a
    <3> QED BY <1>1, <3>1, <3>2
  <2>4. b \in Seq(DOMAIN Tx)
    BY <1>1
  <2> HIDE DEF a, b, h
  <2>5. Making(r, z) /\ Good(All(r, z), Append(a, b), calm)
    BY <1>4, <2>2, <2>3, <2>4, BlockStep
  <2>6. BatchTx(cb, x, ids[k]) = z
    BY <1>2, <2>3 DEF BatchTx, cb, b, h
  <2> HIDE DEF z
  <2>7. z \in Instance
    BY <2>5 DEF Making
  <2> QED BY <2>1, <2>3, <2>5, <2>6, <2>7
<1> HIDE DEF S
<1>7. FY!Fold(cb, m0, ids) \in S[n]
  BY <1>1, <1>2, <1>5, <1>6, FY!FoldInvariant
<1>8. Making(r, y) /\ Good(All(r, y), Grown(c, batch, n), calm)
  <2>1. n \in 0..n
    BY <1>1
  <2> QED BY <1>3, <1>7, <2>1 DEF S
<1>9. Good(All(r, y), c \o batch, calm)
  BY <1>8, GrownFacts DEF n
<1> QED BY <1>4, <1>8, <1>9, StoreStep

LEMMA TickStored ==
  ASSUME NEW r, NEW c \in Chains, NEW calm \in BOOLEAN, Stored(r, c, calm), NEW tip \in Int,
         NEW txids \in Seq(DOMAIN Tx), NEW y, y = Advanced!MempoolTick(Advanced!Restore(r), tip, txids)
  PROVE  Stored(r \o y.new, c, calm /\ tip <= Len(c) - 1)
<1> DEFINE m == Advanced!Restore(r)
           D == ToSet(r)
           D2 == All(r, y)
           calm2 == calm /\ tip <= Len(c) - 1
<1>1. r \in Seq(AEvent) /\ Making(r, m) /\ All(r, m) = D
  BY RestoreMakes DEF Stored
<1>2. Later(r, m, y, tip)
  BY <1>1, MempoolStep
<1>3. Making(r, y) /\ D \subseteq D2 /\ \A e \in D2 \ D : e.type # "TxConfirmed" /\ e.height = tip
  BY <1>1, <1>2 DEF Later, New
<1>4. Placed(D, c) /\ Complete(D, Confirmed(c)) /\ (calm => SeenFirst(D) /\ Below(D, Len(c) - 1))
  BY DEF Stored, Good
<1> HIDE DEF D, D2
<1>5. Placed(D2, c)
  BY <1>3, <1>4 DEF Placed
<1>6. Complete(D2, Confirmed(c))
  BY <1>3, <1>4 DEF Complete, HasConfirmed
<1>7. ASSUME calm2 PROVE SeenFirst(D2) /\ Below(D2, Len(c) - 1)
  <2>1. SeenFirst(D) /\ Below(D, Len(c) - 1) /\ tip <= Len(c) - 1
    BY <1>4, <1>7
  <2>2. Below(D2, Len(c) - 1)
    BY <1>3, <2>1 DEF Below
  <2>3. SeenFirst(D2)
    BY <1>3, <2>1 DEF SeenFirst
  <2> QED BY <2>2, <2>3
<1> HIDE DEF calm2
<1>8. Good(D2, c, calm2)
  BY <1>5, <1>6, <1>7 DEF Good
<1> QED BY <1>1, <1>3, <1>8, StoreStep DEF D2, calm2

-----------------------------------------------------------------------------
(* A fork.                                                                 *)
LEMMA BlocksApart ==
  ASSUME NEW c \in Chains, Valid(c), NEW i \in 1..Len(c), NEW j \in 1..Len(c), i < j
  PROVE  ToSet(c[i]) \cap ToSet(c[j]) = {}
<1> DEFINE n == Len(c)
           A == SubSeq(c, 1, i)
           B == SubSeq(c, i + 1, n)
<1>1. n \in Nat /\ DOMAIN c = 1..n /\ \A k \in 1..n : c[k] \in Seq(DOMAIN Tx)
  BY LenProperties, ElementOfSeq DEF Chains
<1>2. A \o B = c
  <2>1. 1 \in 1..(n + 1) /\ i \in (1 - 1)..n /\ n \in i..n
    BY <1>1
  <2>2. SubSeq(c, 1, i) \o SubSeq(c, i + 1, n) = SubSeq(c, 1, n)
    BY <2>1, ConcatAdjacentSubSeq DEF Chains
  <2>3. SubSeq(c, 1, n) = c
    BY SubSeqFull DEF Chains
  <2> QED BY <2>2, <2>3, Zenon
<1>3. A \in Chains /\ Len(A) = i /\ DOMAIN A = 1..i /\ A[i] = c[i]
  <2>1. A \in Chains
    <3>1. 1 \in Int /\ i \in Int /\ \A k \in 1..i : c[k] \in Seq(DOMAIN Tx)
      BY <1>1
    <3> QED BY <3>1, SubSeqProperties DEF Chains
  <2>2. Len(A) = i /\ A[i] = c[i]
    BY <1>1 DEF Chains
  <2> HIDE DEF A
  <2>3. DOMAIN A = 1..Len(A)
    BY <2>1, LenProperties DEF Chains
  <2> QED BY <2>1, <2>2, <2>3
<1>4. B \in Chains /\ j - i \in DOMAIN B /\ B[j - i] = c[j]
  <2>1. B \in Chains
    <3>1. i + 1 \in Int /\ n \in Int /\ \A k \in (i + 1)..n : c[k] \in Seq(DOMAIN Tx)
      BY <1>1
    <3> QED BY <3>1, SubSeqProperties DEF Chains
  <2>2. B = [k \in 1..(n - i) |-> c[k + i]]
    BY <1>1 DEF Chains
  <2> HIDE DEF B, n
  <2>3. j - i \in 1..(n - i) /\ (j - i) + i = j
    BY <1>1 DEF n
  <2> QED BY <2>1, <2>2, <2>3
<1> HIDE DEF A, B
<1>5. Follows(Confirmed(B), Confirmed(A))
  BY <1>2, <1>3, <1>4, ValidParts
<1>6. ToSet(c[i]) \subseteq Confirmed(A) /\ ToSet(c[j]) \subseteq Confirmed(B)
  <2>1. i \in DOMAIN A
    BY <1>3
  <2> QED BY <1>3, <1>4, <2>1 DEF Confirmed
<1> QED BY <1>5, <1>6 DEF Follows

LEMMA OneBlock ==
  ASSUME NEW c \in Chains, Valid(c), NEW i \in DOMAIN c, NEW j \in DOMAIN c, NEW t,
         t \in ToSet(c[i]), t \in ToSet(c[j])
  PROVE  i = j
<1>1. DOMAIN c = 1..Len(c) /\ Len(c) \in Nat
  BY LenProperties DEF Chains
<1>2. ~(i < j) /\ ~(j < i)
  BY <1>1, BlocksApart
<1> QED BY <1>1, <1>2

LEMMA CutStored ==
  ASSUME NEW r, NEW c \in Chains, Valid(c), NEW calm, Stored(r, c, calm), NEW h \in Nat, h + 1 <= Len(c)
  PROVE  Stored(UpTo(r, h), SubSeq(c, 1, h + 1), calm)
<1> DEFINE u == UpTo(r, h)
           d == SubSeq(c, 1, h + 1)
           D == ToSet(r)
           D2 == ToSet(u)
<1>1. /\ r \in Seq(AEvent) /\ Once(r) /\ Placed(D, c) /\ Complete(D, Confirmed(c))
      /\ calm => SeenFirst(D) /\ Below(D, Len(c) - 1)
  BY DEF Stored, Good
<1>2. u = K!Keep(h, r)
  BY UpToIsKeep
<1> HIDE DEF u
<1>3. u \in Seq(AEvent) /\ D2 = {e \in D : e.height <= h}
  <2>1. u \in Seq({e \in AEvent : IsUpTo(h, e)})
    BY <1>1, <1>2, K!KeepType
  <2>2. ToSet(u) = {e \in ToSet(r) : IsUpTo(h, e)}
    <3>1. K!ToSet(K!Keep(h, r)) = {e \in K!ToSet(r) : IsUpTo(h, e)}
      BY <1>1, K!KeepRange
    <3> QED BY <1>2, <3>1 DEF K!ToSet, ToSet
  <2>3. u \in Seq(AEvent)
    <3> DEFINE E == {e \in AEvent : IsUpTo(h, e)}
    <3>1. \A k \in 1..Len(u) : u[k] \in AEvent
      <4>1. \A e \in E : e \in AEvent
        OBVIOUS
      <4> HIDE DEF E
      <4> QED BY <2>1, <4>1, ElementOfSeq DEF E
    <3>2. Len(u) \in Nat /\ u \in [1..Len(u) -> E]
      BY <2>1, LenProperties
    <3> QED BY <3>1, <3>2
  <2> QED BY <2>2, <2>3 DEF IsUpTo
<1>4. Once(u)
  <2>1. PICK f \in [1..Len(u) -> 1..Len(r)] :
              /\ \A i \in 1..Len(u) : u[i] = r[f[i]]
              /\ \A i, j \in 1..Len(u) : i < j => f[i] < f[j]
    BY <1>1, <1>2, K!KeepPlaces
  <2>2. Len(u) \in Nat /\ Len(r) \in Nat
    BY <1>1, <1>3, LenProperties
  <2>3. ASSUME NEW i \in 1..Len(u), NEW j \in 1..Len(u), u[i].type = "TxSeen", u[j].type = "TxSeen",
               u[i].tx = u[j].tx
        PROVE  i = j
    <3>1. f[i] \in 1..Len(r) /\ f[j] \in 1..Len(r) /\ u[i] = r[f[i]] /\ u[j] = r[f[j]]
      BY <2>1
    <3>2. f[i] = f[j]
      BY <1>1, <2>3, <3>1 DEF Once
    <3>3. ~(i < j) /\ ~(j < i)
      BY <2>1, <2>2, <3>1, <3>2
    <3> QED BY <2>2, <3>3
  <2> QED BY <2>3 DEF Once
<1>5. /\ d \in Chains /\ Len(d) = h + 1 /\ DOMAIN d = 1..(h + 1) /\ DOMAIN c = 1..Len(c)
      /\ \A i \in 1..(h + 1) : d[i] = c[i]
  BY ChainCut
<1> HIDE DEF d
<1>6. Len(c) \in Nat /\ \A i \in 1..(h + 1) : i \in DOMAIN c
  <2>1. Len(c) \in Nat
    BY LenProperties DEF Chains
  <2> QED BY <1>5, <2>1
<1>7. \A e \in D : e.height \in Int /\ e.type \in EventTypes
  BY <1>1, ToSetType, AEventFacts
<1> HIDE DEF D, D2
<1>8. Placed(D2, d)
  <2> SUFFICES ASSUME NEW e \in D2, e.type = "TxConfirmed"
               PROVE  /\ Advanced!Parsed(e.tx)
                      /\ \E i \in DOMAIN d : /\ e.height = i - 1 /\ e.tx \in ToSet(d[i])
                                             /\ e.index = Advanced!IndexIn(d[i], e.tx)
    BY DEF Placed
  <2>1. e \in D /\ e.height <= h /\ Advanced!Parsed(e.tx)
    BY <1>1, <1>3 DEF Placed
  <2>2. PICK i \in DOMAIN c : /\ e.height = i - 1 /\ e.tx \in ToSet(c[i])
                              /\ e.index = Advanced!IndexIn(c[i], e.tx)
    BY <1>1, <2>1 DEF Placed
  <2>3. i \in 1..(h + 1)
    BY <1>5, <1>6, <2>1, <2>2
  <2> QED BY <1>5, <2>1, <2>2, <2>3
<1>9. Complete(D2, Confirmed(d))
  <2> SUFFICES ASSUME NEW t \in Confirmed(d), Advanced!Parsed(t) PROVE HasConfirmed(D2, t)
    BY DEF Complete
  <2>1. PICK j \in 1..(h + 1) : t \in ToSet(c[j])
    BY <1>5 DEF Confirmed
  <2>2. t \in Confirmed(c)
    BY <1>6, <2>1 DEF Confirmed
  <2>3. PICK e \in D : e.type = "TxConfirmed" /\ e.tx = t
    BY <1>1, <2>2 DEF Complete, HasConfirmed
  <2>4. PICK i \in DOMAIN c : e.height = i - 1 /\ t \in ToSet(c[i])
    BY <1>1, <2>3 DEF Placed
  <2>5. i = j
    BY <1>6, <2>1, <2>4, OneBlock
  <2>6. e.height <= h
    BY <2>1, <2>4, <2>5
  <2> QED BY <1>3, <2>3, <2>6 DEF HasConfirmed
<1>10. ASSUME calm PROVE SeenFirst(D2) /\ Below(D2, Len(d) - 1)
  <2>1. Below(D2, Len(d) - 1)
    <3>1. Len(d) - 1 = h
      BY <1>5
    <3> QED BY <1>3, <3>1 DEF Below
  <2>2. SeenFirst(D2)
    <3> SUFFICES ASSUME NEW e \in D2, e.type = "TxConfirmed"
                 PROVE  \E s \in D2 : s.type = "TxSeen" /\ s.tx = e.tx /\ s.height <= e.height
      BY DEF SeenFirst
    <3>1. e \in D /\ e.height <= h
      BY <1>3
    <3>2. PICK s \in D : s.type = "TxSeen" /\ s.tx = e.tx /\ s.height <= e.height
      BY <1>1, <1>10, <3>1 DEF SeenFirst
    <3>3. s.height <= h
      BY <1>7, <3>1, <3>2
    <3> QED BY <1>3, <3>2, <3>3
  <2> QED BY <2>1, <2>2
<1>11. Good(D2, d, calm)
  BY <1>8, <1>9, <1>10 DEF Good
<1> QED BY <1>3, <1>4, <1>11 DEF Stored, u, d, D2

-----------------------------------------------------------------------------
(* The inductive invariant: the rows of the wallets that keep balances are *)
(* the events of the blocks of the chain, and those of the third wallet    *)
(* confirm what the chain has, where it has it.                            *)
ChainInv ==
  /\ chain \in Seq(Blocks) /\ Len(chain) <= MaxHeight + 1 /\ Valid(chain)
  /\ baseRows = BaseRows(chain) /\ utxoRows = UtxoRows(chain)

MempoolInv == mempool \in [loaded : SUBSET Pool, height : -1..MaxHeight] /\ ahead \in BOOLEAN

IInv == ChainInv /\ MempoolInv /\ Stored(rows, chain, ~ahead)

LEMMA ChainsType ==
  /\ \A c \in Seq(Blocks) : c \in Chains
  /\ \A c \in Seq(Blocks) : Len(c) \in Nat /\ DOMAIN c = 1..Len(c) /\ \A i \in DOMAIN c : c[i] \in Blocks
<1>1. \A c \in Seq(Blocks) : Len(c) \in Nat /\ DOMAIN c = 1..Len(c) /\ \A i \in DOMAIN c : c[i] \in Blocks
  BY LenProperties, ElementOfSeq
<1>2. ASSUME NEW c \in Seq(Blocks) PROVE c \in Chains
  <2>1. ToSet(c) \subseteq Seq(DOMAIN Tx)
    BY ToSetType, WalletAssumption
  <2> QED BY <2>1, SeqOfPart DEF Chains
<1> QED BY <1>1, <1>2

LEMMA InitIInv == Init => IInv
<1> SUFFICES ASSUME Init PROVE IInv
  OBVIOUS
<1> DEFINE nothing == <<>>
<1>1. nothing \in Chains /\ Confirmed(nothing) = {} /\ Valid(nothing)
  BY ConfirmedNil
<1>2. /\ nothing \in Seq(Blocks) /\ Len(nothing) = 0 /\ DOMAIN nothing = {} /\ nothing \in Seq(AEvent)
      /\ ToSet(nothing) = {}
  BY EmptySeq DEF ToSet
<1>3. FlattenSeq(nothing) = nothing
  BY FlattenIs, FB!FlattenNil
<1>4. BaseParts(nothing) = nothing /\ UtxoParts(nothing) = nothing
  <2>1. /\ Len(BaseParts(nothing)) = 0 /\ Len(UtxoParts(nothing)) = 0
        /\ BaseParts(nothing) \in Seq(Seq(BaseEvent)) /\ UtxoParts(nothing) \in Seq(Seq(UtxoEvent))
    BY <1>1, <1>2, BasePartsType, UtxoPartsType
  <2> QED BY <2>1, EmptySeq
<1>5. /\ chain = nothing /\ mempool = [loaded |-> {}, height |-> -1]
      /\ baseRows = nothing /\ utxoRows = nothing /\ rows = nothing /\ ahead = FALSE
  BY DEF Init
<1> HIDE DEF nothing
<1>6. ChainInv
  <2>1. MaxHeight \in Nat
    BY WalletAssumption
  <2> QED BY <1>1, <1>2, <1>3, <1>4, <1>5, <2>1 DEF ChainInv, BaseRows, UtxoRows
<1>7. MempoolInv
  <2>1. -1 \in -1..MaxHeight
    BY WalletAssumption
  <2> QED BY <1>5, <2>1 DEF MempoolInv
<1>8. Stored(nothing, nothing, TRUE)
  <2>1. Once(nothing)
    <3>1. 1..0 = {}
      OBVIOUS
    <3> QED BY <1>2, <3>1 DEF Once
  <2>2. Good(ToSet(nothing), nothing, TRUE)
    BY <1>1, <1>2 DEF Good, Placed, Complete, SeenFirst, Below
  <2> QED BY <1>2, <2>1, <2>2 DEF Stored
<1> QED BY <1>5, <1>6, <1>7, <1>8 DEF IInv

LEMMA AddBlocksBatchStep ==
  ASSUME IInv, AddBlocksBatch
  PROVE  IInv'
<1>1. PICK batch \in Batches :
        /\ Len(chain) + Len(batch) <= MaxHeight + 1
        /\ Valid(chain \o batch)
        /\ chain' = chain \o batch
        /\ baseRows' = baseRows \o BaseEvents(batch)
        /\ utxoRows' = utxoRows \o UtxoEvents(batch)
        /\ rows' = rows \o AdvancedEvents(batch)
        /\ UNCHANGED <<mempool, ahead, spent>>
  BY DEF AddBlocksBatch
<1> DEFINE c == chain
           n == Len(c)
<1>2. c \in Seq(Blocks) /\ c \in Chains /\ n \in Nat
  BY ChainsType DEF IInv, ChainInv
<1>3. batch \in Seq(Blocks) /\ Len(batch) \in Nat
  <2>1. PICK k \in 1..MaxBatch : batch \in [1..k -> Blocks]
    BY DEF Batches
  <2>2. k \in Nat
    BY <2>1, WalletAssumption
  <2>3. batch \in Seq(Blocks)
    BY <2>1, <2>2
  <2> QED BY <2>3, LenProperties
<1>4. batch \in Chains
  BY <1>3, ChainsType
<1>5. c \o batch \in Seq(Blocks) /\ Len(c \o batch) = n + Len(batch)
  BY <1>2, <1>3, ConcatProperties
<1>6. BaseRows(c \o batch) = BaseRows(c) \o BaseEvents(batch)
  <2>1. BaseEvents(batch) = FlattenSeq([i \in DOMAIN batch |-> Base!ProcessBlock((Len(c) - 1) + i, batch[i])])
    BY DEF BaseEvents, Height
  <2> QED BY <1>2, <1>4, <2>1, BaseRowsConcat
<1>7. UtxoRows(c \o batch) = UtxoRows(c) \o UtxoEvents(batch)
  <2>1. UtxoEvents(batch) = FlattenSeq([i \in DOMAIN batch |-> Utxo!ProcessBlock((Len(c) - 1) + i, batch[i])])
    BY DEF UtxoEvents, Height
  <2> QED BY <1>2, <1>4, <2>1, UtxoRowsConcat
<1>8. ChainInv'
  <2>1. Len(chain') <= MaxHeight + 1 /\ chain' \in Seq(Blocks) /\ Valid(chain')
    BY <1>1, <1>5
  <2>2. baseRows' = BaseRows(chain') /\ utxoRows' = UtxoRows(chain')
    BY <1>1, <1>6, <1>7 DEF IInv, ChainInv
  <2> QED BY <2>1, <2>2 DEF ChainInv
<1>9. MempoolInv'
  BY <1>1 DEF IInv, MempoolInv
<1> DEFINE y == FY!Fold(<<Len(c) - 1, batch>>, Advanced!Restore(rows), [i \in DOMAIN batch |-> i])
<1>10. AdvancedEvents(batch) = y.new
  BY DEF AdvancedEvents, Height, FoldLeft, MapThenFoldSet, Max, FY!Fold, FY!Max, BatchTx
<1>11. Stored(rows, c, ~ahead)
  BY DEF IInv
<1> HIDE DEF c, y
<1>12. Stored(rows \o y.new, c \o batch, ~ahead)
  BY <1>2, <1>4, <1>11, BatchStep DEF y
<1>13. Stored(rows, chain, ~ahead)'
  BY <1>1, <1>10, <1>12 DEF c
<1> QED BY <1>8, <1>9, <1>13 DEF IInv

LEMMA ReorganiseStep ==
  ASSUME IInv, Reorganise
  PROVE  IInv'
<1>1. PICK h \in 0..(Height - 1) :
        /\ chain' = SubSeq(chain, 1, h + 1)
        /\ baseRows' = UpTo(baseRows, h)
        /\ utxoRows' = UpTo(utxoRows, h)
        /\ rows' = UpTo(rows, h)
        /\ UNCHANGED <<mempool, ahead>>
  BY DEF Reorganise
<1>2. /\ chain \in Seq(Blocks) /\ chain \in Chains /\ Len(chain) \in Nat /\ Valid(chain)
      /\ DOMAIN chain = 1..Len(chain) /\ \A i \in DOMAIN chain : chain[i] \in Blocks
      /\ Len(chain) <= MaxHeight + 1 /\ MaxHeight \in Nat
  BY ChainsType, WalletAssumption DEF IInv, ChainInv
<1>3. h \in Nat /\ h + 1 <= Len(chain)
  BY <1>2 DEF Height
<1> DEFINE d == SubSeq(chain, 1, h + 1)
<1>4. /\ d \in Chains /\ Valid(d) /\ Len(d) = h + 1 /\ DOMAIN d = 1..(h + 1)
      /\ \A i \in 1..(h + 1) : d[i] = chain[i]
  BY <1>2, <1>3, ChainCut
<1> HIDE DEF d
<1>5. d \in Seq(Blocks)
  <2>1. ToSet(d) \subseteq Blocks
    <3>1. \A i \in 1..(h + 1) : d[i] \in Blocks
      BY <1>2, <1>3, <1>4
    <3> QED BY <1>4, <3>1 DEF ToSet
  <2> QED BY <1>4, <2>1, SeqOfPart DEF Chains
<1>6. UpTo(BaseRows(chain), h) = BaseRows(d) /\ UpTo(UtxoRows(chain), h) = UtxoRows(d)
  BY <1>2, <1>3, BaseRowsCut, UtxoRowsCut DEF d
<1>7. Stored(UpTo(rows, h), d, ~ahead)
  BY <1>2, <1>3, CutStored DEF IInv, d
<1>8. chain' = d
  BY <1>1 DEF d
<1>9. ChainInv'
  <2>1. Len(d) <= MaxHeight + 1
    BY <1>2, <1>3, <1>4
  <2>2. baseRows' = BaseRows(d) /\ utxoRows' = UtxoRows(d)
    BY <1>1, <1>6 DEF IInv, ChainInv
  <2> QED BY <1>4, <1>5, <1>8, <2>1, <2>2 DEF ChainInv
<1>10. MempoolInv'
  BY <1>1 DEF IInv, MempoolInv
<1>11. Stored(rows, chain, ~ahead)'
  BY <1>1, <1>7, <1>8
<1> QED BY <1>9, <1>10, <1>11 DEF IInv

LEMMA RefreshStep ==
  ASSUME IInv, Refresh
  PROVE  IInv'
<1>1. /\ mempool' \in [loaded : SUBSET Pool, height : 0..MaxHeight]
      /\ UNCHANGED <<chain, baseRows, utxoRows, rows, ahead>>
  BY DEF Refresh
<1>2. MempoolInv'
  <2>1. \A x \in 0..MaxHeight : x \in -1..MaxHeight
    BY WalletAssumption
  <2> QED BY <1>1, <2>1 DEF IInv, MempoolInv
<1>3. ChainInv'
  BY <1>1 DEF IInv, ChainInv
<1>4. Stored(rows, chain, ~ahead)'
  BY <1>1 DEF IInv
<1> QED BY <1>2, <1>3, <1>4 DEF IInv

LEMMA SyncMempoolStep ==
  ASSUME IInv, SyncMempool
  PROVE  IInv'
<1>1. PICK txids \in SetToSeqs(mempool.loaded) :
        /\ rows' = rows \o Advanced!MempoolTick(Advanced!Restore(rows), mempool.height, txids).new
        /\ ahead' = (ahead \/ mempool.height > Height)
        /\ UNCHANGED <<chain, mempool, baseRows, utxoRows>>
  BY DEF SyncMempool
<1>2. chain \in Chains /\ Len(chain) \in Nat
  BY ChainsType DEF IInv, ChainInv
<1>3. mempool.loaded \subseteq DOMAIN Tx /\ mempool.height \in Int /\ ahead \in BOOLEAN
  BY WalletAssumption DEF IInv, MempoolInv
<1>4. txids \in Seq(DOMAIN Tx)
  <2> DEFINE S == mempool.loaded
             n == Cardinality(S)
  <2>1. IsFiniteSet(S)
    BY <1>3, TxAssumption, FS_Subset
  <2>2. n \in Nat
    BY <2>1, FS_CardinalityType
  <2>3. txids \in [1..n -> S]
    BY DEF SetToSeqs
  <2> HIDE DEF S, n
  <2>4. txids \in Seq(S)
    BY <2>2, <2>3
  <2>5. ToSet(txids) \subseteq DOMAIN Tx
    BY <1>3, <2>4, ToSetType DEF S
  <2> QED BY <2>4, <2>5, SeqOfPart
<1> DEFINE y == Advanced!MempoolTick(Advanced!Restore(rows), mempool.height, txids)
           calm == ~ahead
<1>5. calm \in BOOLEAN /\ Stored(rows, chain, calm)
  BY DEF IInv
<1> HIDE DEF y, calm
<1>6. Stored(rows \o y.new, chain, calm /\ mempool.height <= Len(chain) - 1)
  BY <1>2, <1>3, <1>4, <1>5, TickStored DEF y
<1>7. ~ahead' => calm /\ mempool.height <= Len(chain) - 1
  <2> DEFINE higher == mempool.height > Len(chain) - 1
  <2>1. ahead' <=> ahead \/ higher
    BY <1>1 DEF Height
  <2>2. ~higher => mempool.height <= Len(chain) - 1
    BY <1>2, <1>3
  <2> HIDE DEF higher
  <2> QED BY <2>1, <2>2 DEF calm
<1>8. Stored(rows \o y.new, chain, ~ahead')
  BY <1>6, <1>7 DEF Stored, Good
<1>9. Stored(rows, chain, ~ahead)'
  BY <1>1, <1>8 DEF y
<1>10. ChainInv'
  BY <1>1 DEF IInv, ChainInv
<1>11. MempoolInv'
  BY <1>1, <1>3 DEF IInv, MempoolInv
<1> QED BY <1>9, <1>10, <1>11 DEF IInv

LEMMA StutterIInv ==
  ASSUME IInv, UNCHANGED vars
  PROVE  IInv'
BY DEF IInv, ChainInv, MempoolInv, vars

LEMMA SpecIInv == Spec => []IInv
<1>1. IInv /\ [Next]_vars => IInv'
  BY AddBlocksBatchStep, ReorganiseStep, RefreshStep, SyncMempoolStep, StutterIInv DEF Next
<1> QED BY InitIInv, <1>1, PTL DEF Spec

-----------------------------------------------------------------------------
(* Every variable holds a value of its kind.                               *)
THEOREM TypeOKHolds == Spec => []TypeOK
<1>1. IInv => TypeOK
  <2> SUFFICES ASSUME IInv PROVE TypeOK
    OBVIOUS
  <2>1. chain \in Seq(Blocks) /\ chain \in Chains /\ Len(chain) <= MaxHeight + 1
    BY ChainsType DEF IInv, ChainInv
  <2>2. \A i \in DOMAIN baseRows : /\ baseRows[i].type \in {"WalletCredited", "WalletDebited"}
                                   /\ baseRows[i].outpoints # {}
    <3>1. baseRows \in Seq(BaseEvent)
      BY <2>1, BasePartsType DEF IInv, ChainInv
    <3>2. \A i \in DOMAIN baseRows : baseRows[i] \in BaseEvent
      BY <3>1, ElementOfSeq, LenProperties
    <3> QED BY <3>2 DEF BaseEvent
  <2>3. \A i \in DOMAIN utxoRows : utxoRows[i].type = "BasicWalletDelta"
    <3>1. utxoRows \in Seq(UtxoEvent)
      BY <2>1, UtxoPartsType DEF IInv, ChainInv
    <3>2. \A i \in DOMAIN utxoRows : utxoRows[i] \in UtxoEvent
      BY <3>1, ElementOfSeq, LenProperties
    <3> QED BY <3>2 DEF UtxoEvent
  <2>4. \A i \in DOMAIN rows : rows[i].type \in EventTypes /\ rows[i].tx \in DOMAIN Tx
    <3>1. rows \in Seq(AEvent)
      BY DEF IInv, Stored
    <3>2. \A i \in DOMAIN rows : rows[i] \in AEvent
      BY <3>1, ElementOfSeq, LenProperties
    <3> QED BY <3>2, AEventFacts
  <2> QED BY <2>1, <2>2, <2>3, <2>4 DEF TypeOK, IInv, MempoolInv
<1> QED BY SpecIInv, <1>1, PTL

(* Both wallets that keep balances answer with what the chain pays to an   *)
(* address and has not spent, whatever batches and forks led to it.        *)
THEOREM BalanceIsUnspentHolds == Spec => []BalanceIsUnspent
<1>1. IInv => BalanceIsUnspent
  <2> SUFFICES ASSUME IInv PROVE BalanceIsUnspent
    OBVIOUS
  <2>1. chain \in Chains
    BY ChainsType DEF IInv, ChainInv
  <2> QED BY <2>1, BalanceFollows DEF IInv, ChainInv
<1> QED BY SpecIInv, <1>1, PTL

(* What is first seen is told once, over ticks, batches and restores.      *)
THEOREM SeenOnceHolds == Spec => []SeenOnce
<1>1. IInv => SeenOnce
  <2> SUFFICES ASSUME IInv PROVE SeenOnce
    OBVIOUS
  <2>1. rows \in Seq(AEvent) /\ Once(rows)
    BY DEF IInv, Stored
  <2>2. DOMAIN rows = 1..Len(rows)
    BY <2>1, LenProperties
  <2> QED BY <2>1, <2>2 DEF SeenOnce, Once
<1> QED BY SpecIInv, <1>1, PTL

(* What the restored model answers of a transaction.                       *)
LEMMA Answers ==
  ASSUME IInv, NEW t \in DOMAIN Tx
  PROVE  LET m == Advanced!Restore(rows)
             D == ToSet(rows)
         IN  /\ t \in DOMAIN m.seen <=> Known(D, t)
             /\ t \in DOMAIN m.seen => m.seen[t] \in Entry /\ SumsUp(m.seen[t], D, t)
             /\ DOMAIN m.seen \subseteq DOMAIN Tx
             /\ Advanced!ConfirmedAt(m, t) \in PlacesIn(D, t) \cup {None}
             /\ Advanced!ConfirmedAt(m, t) = None <=> PlacesIn(D, t) = {}
             /\ None \notin PlacesIn(D, t)
<1> DEFINE m == Advanced!Restore(rows)
           D == ToSet(rows)
<1>1. rows \in Seq(AEvent) /\ m \in Instance /\ Summary(m.seen, D)
  BY RestoreSums DEF IInv, Stored
<1>2. D \subseteq AEvent
  BY <1>1, ToSetType
<1> HIDE DEF m, D
<1>3. m.seen \in Seens
  BY <1>1 DEF Instance
<1>4. DOMAIN m.seen \subseteq DOMAIN Tx /\ \A x \in DOMAIN m.seen : m.seen[x] \in Entry
  BY <1>3, PartialFunctions
<1>5. None \notin PlacesIn(D, t)
  <2>1. ASSUME NEW e \in ConfirmedIn(D, t) PROVE PlaceOf(e) \in Place
    <3>1. e \in ConfirmedEvent
      BY <1>2, <2>1, AEventFacts DEF ConfirmedIn
    <3> QED BY <3>1 DEF ConfirmedEvent, PlaceOf, Place
  <2>2. None \notin Place
    BY TxAssumption DEF Place
  <2> QED BY <2>1, <2>2 DEF PlacesIn
<1>6. t \in DOMAIN m.seen <=> Known(D, t)
  BY <1>1 DEF Summary
<1>7. t \in DOMAIN m.seen => SumsUp(m.seen[t], D, t)
  BY <1>1 DEF Summary
<1>8. /\ Advanced!ConfirmedAt(m, t) \in PlacesIn(D, t) \cup {None}
      /\ Advanced!ConfirmedAt(m, t) = None <=> PlacesIn(D, t) = {}
  <2>1. CASE t \in DOMAIN m.seen
    <3>1. Advanced!ConfirmedAt(m, t) = m.seen[t].confirmed
      BY <2>1 DEF Advanced!ConfirmedAt, Advanced!Seen
    <3> QED BY <1>5, <1>7, <2>1, <3>1 DEF SumsUp
  <2>2. CASE t \notin DOMAIN m.seen
    <3>1. Advanced!ConfirmedAt(m, t) = None
      BY <2>2 DEF Advanced!ConfirmedAt, Advanced!Seen
    <3>2. PlacesIn(D, t) = {}
      BY <1>6, <2>2 DEF Known
    <3> QED BY <3>1, <3>2
  <2> QED BY <2>1, <2>2
<1> QED BY <1>4, <1>5, <1>6, <1>7, <1>8 DEF m, D

(* Where the stored events have a transaction, and where the chain has it. *)
LEMMA PlacesMatch ==
  ASSUME IInv, NEW t \in DOMAIN Tx
  PROVE  /\ PlacesIn(ToSet(rows), t) # {} <=> Advanced!Parsed(t) /\ t \in Confirmed(chain)
         /\ \A p \in PlacesIn(ToSet(rows), t) :
              \E i \in DOMAIN chain :
                /\ t \in ToSet(chain[i])
                /\ p = [height |-> i - 1, index |-> Advanced!IndexIn(chain[i], t)]
<1> DEFINE D == ToSet(rows)
<1>1. Placed(D, chain) /\ Complete(D, Confirmed(chain))
  BY DEF IInv, Stored, Good
<1> HIDE DEF D
<1>2. ASSUME NEW e \in ConfirmedIn(D, t)
      PROVE  /\ Advanced!Parsed(t)
             /\ \E i \in DOMAIN chain :
                  /\ t \in ToSet(chain[i])
                  /\ PlaceOf(e) = [height |-> i - 1, index |-> Advanced!IndexIn(chain[i], t)]
  <2>1. e \in D /\ e.type = "TxConfirmed" /\ e.tx = t
    BY DEF ConfirmedIn
  <2>2. PICK i \in DOMAIN chain : /\ e.height = i - 1 /\ t \in ToSet(chain[i])
                                  /\ e.index = Advanced!IndexIn(chain[i], t)
    BY <1>1, <2>1 DEF Placed
  <2>3. Advanced!Parsed(t)
    BY <1>1, <2>1 DEF Placed
  <2> QED BY <2>2, <2>3 DEF PlaceOf
<1>3. ASSUME NEW p \in PlacesIn(D, t)
      PROVE  /\ Advanced!Parsed(t) /\ t \in Confirmed(chain)
             /\ \E i \in DOMAIN chain :
                  /\ t \in ToSet(chain[i])
                  /\ p = [height |-> i - 1, index |-> Advanced!IndexIn(chain[i], t)]
  <2>1. PICK e \in ConfirmedIn(D, t) : p = PlaceOf(e)
    BY DEF PlacesIn
  <2>2. PICK i \in DOMAIN chain :
               /\ t \in ToSet(chain[i])
               /\ p = [height |-> i - 1, index |-> Advanced!IndexIn(chain[i], t)]
    BY <1>2, <2>1
  <2>3. t \in Confirmed(chain)
    BY <2>2 DEF Confirmed
  <2> QED BY <1>2, <2>1, <2>2, <2>3
<1>4. ASSUME Advanced!Parsed(t), t \in Confirmed(chain) PROVE PlacesIn(D, t) # {}
  BY <1>1, <1>4 DEF Complete, HasConfirmed, PlacesIn, ConfirmedIn
<1> QED BY <1>3, <1>4 DEF D

(* A transaction that pays to a wallet has the status confirmed exactly if *)
(* the chain has it, and with its place there, through the mempool, forks  *)
(* and confirmation in another block.                                      *)
THEOREM StatusMatchesChainHolds == Spec => []StatusMatchesChain
<1>1. IInv => StatusMatchesChain
  <2> SUFFICES ASSUME IInv PROVE StatusMatchesChain
    OBVIOUS
  <2> DEFINE m == Advanced!Restore(rows)
             P(t) == PlacesIn(ToSet(rows), t)
  <2>1. chain \in Chains /\ Valid(chain)
    BY ChainsType DEF IInv, ChainInv
  <2>2. ASSUME NEW t \in DOMAIN Tx
        PROVE  Advanced!ConfirmedAt(m, t) =
                 IF Advanced!Touches(t) # {} /\ t \in Confirmed(chain)
                 THEN LET i == CHOOSE i \in DOMAIN chain : Contains(chain[i], t)
                      IN  [height |-> i - 1, index |-> Advanced!IndexIn(chain[i], t)]
                 ELSE None
    <3> DEFINE at == Advanced!ConfirmedAt(m, t)
               first == CHOOSE i \in DOMAIN chain : Contains(chain[i], t)
    <3>1. at \in P(t) \cup {None} /\ (at = None <=> P(t) = {})
      BY Answers
    <3>2. P(t) # {} <=> Advanced!Touches(t) # {} /\ t \in Confirmed(chain)
      BY PlacesMatch DEF Advanced!Parsed
    <3>3. \A p \in P(t) : \E i \in DOMAIN chain :
            /\ t \in ToSet(chain[i])
            /\ p = [height |-> i - 1, index |-> Advanced!IndexIn(chain[i], t)]
      BY PlacesMatch
    <3> HIDE DEF at, P
    <3>4. CASE P(t) = {}
      BY <3>1, <3>2, <3>4 DEF at
    <3>5. CASE P(t) # {}
      <4>1. PICK i \in DOMAIN chain :
                   /\ t \in ToSet(chain[i])
                   /\ at = [height |-> i - 1, index |-> Advanced!IndexIn(chain[i], t)]
        BY <3>1, <3>3, <3>5
      <4>2. \A j \in DOMAIN chain : Contains(chain[j], t) <=> t \in ToSet(chain[j])
        <5>1. \A j \in DOMAIN chain : DOMAIN chain[j] = 1..Len(chain[j])
          BY <2>1, LenProperties, ElementOfSeq DEF Chains
        <5> QED BY <5>1 DEF Contains, ToSet
      <4>3. first \in DOMAIN chain /\ Contains(chain[first], t)
        BY <4>1, <4>2
      <4>4. first = i
        BY <2>1, <4>1, <4>2, <4>3, OneBlock
      <4> HIDE DEF first
      <4> QED BY <3>2, <3>5, <4>1, <4>4 DEF at, first
    <3> QED BY <3>4, <3>5
  <2> QED BY <2>2 DEF StatusMatchesChain
<1> QED BY SpecIInv, <1>1, PTL

(* As long as no tick has run ahead of the chain, an address is answered   *)
(* with the confirmed transactions that touch it, and no pending one is    *)
(* confirmed.                                                              *)
THEOREM ConfirmedListedHolds == Spec => []ConfirmedListed
<1>1. IInv => ConfirmedListed
  <2> SUFFICES ASSUME IInv, ~ahead PROVE ConfirmedListed
    BY DEF ConfirmedListed
  <2> DEFINE m == Advanced!Restore(rows)
             D == ToSet(rows)
             P(t) == PlacesIn(D, t)
  <2>1. SeenFirst(D)
    BY DEF IInv, Stored, Good
  <2>2. ASSUME NEW t \in DOMAIN Tx
        PROVE  /\ t \in DOMAIN m.seen <=> Known(D, t)
               /\ t \in DOMAIN m.seen => SumsUp(m.seen[t], D, t)
               /\ None \notin P(t)
               /\ P(t) # {} <=> Advanced!Parsed(t) /\ t \in Confirmed(chain)
               /\ P(t) # {} => SeenIn(D, t)
    <3>1. P(t) # {} => SeenIn(D, t)
      BY <2>1 DEF PlacesIn, ConfirmedIn, SeenFirst, SeenIn
    <3> QED BY <3>1, Answers, PlacesMatch
  <2>3. DOMAIN m.seen \subseteq DOMAIN Tx
    <3>1. rows \in Seq(AEvent)
      BY DEF IInv, Stored
    <3>2. m.seen \in Seens
      BY <3>1, RestoreSums DEF Instance
    <3> QED BY <3>2, PartialFunctions
  <2>4. Confirmed(chain) \subseteq DOMAIN Tx
    BY ChainsType, ConfirmedFacts DEF IInv, ChainInv
  <2> HIDE DEF m, P, D
  <2>5. ASSUME NEW a \in Watched
        PROVE  LET view  == Advanced!AddressSeen(m, a)
                   there == {t \in Confirmed(chain) : a \in Advanced!Touches(t)}
               IN  view.confirmed = there /\ view.pending \cap there = {}
    <3> DEFINE view == Advanced!AddressSeen(m, a)
               there == {t \in Confirmed(chain) : a \in Advanced!Touches(t)}
               shown(t) == t \in DOMAIN m.seen /\ a \in m.seen[t].touches
    <3>1. /\ \A t : t \in view.confirmed <=> shown(t) /\ m.seen[t].confirmed # None
          /\ \A t : t \in view.pending <=> shown(t) /\ m.seen[t].confirmed = None
      BY DEF Advanced!AddressSeen
    <3>2. ASSUME NEW t \in DOMAIN m.seen, shown(t), m.seen[t].confirmed # None PROVE t \in there
      <4>1. t \in DOMAIN Tx /\ SumsUp(m.seen[t], D, t)
        BY <2>2, <2>3
      <4>2. a \in Advanced!Touches(t)
        BY <3>2, <4>1 DEF SumsUp
      <4>3. P(t) # {}
        BY <3>2, <4>1 DEF SumsUp, P
      <4> QED BY <2>2, <4>1, <4>2, <4>3
    <3>3. ASSUME NEW t \in there PROVE shown(t) /\ m.seen[t].confirmed # None
      <4>1. t \in DOMAIN Tx /\ Advanced!Parsed(t)
        BY <2>4 DEF Advanced!Parsed
      <4>2. P(t) # {} /\ SeenIn(D, t) /\ None \notin P(t)
        BY <2>2, <4>1
      <4>3. t \in DOMAIN m.seen /\ SumsUp(m.seen[t], D, t)
        BY <2>2, <4>1, <4>2 DEF Known
      <4>4. m.seen[t].touches = Advanced!Touches(t)
        BY <4>2, <4>3 DEF SumsUp
      <4>5. m.seen[t].confirmed \in P(t)
        BY <4>2, <4>3 DEF SumsUp, P
      <4> QED BY <4>2, <4>3, <4>4, <4>5
    <3> HIDE DEF view, there
    <3>4. view.confirmed = there
      BY <3>1, <3>2, <3>3
    <3>5. view.pending \cap there = {}
      BY <3>1, <3>3
    <3> QED BY <3>4, <3>5 DEF view, there
  <2> QED BY <2>5 DEF ConfirmedListed, m
<1> QED BY SpecIInv, <1>1, PTL

=============================================================================
