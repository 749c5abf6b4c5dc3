------------------------ MODULE CompiledModelProofs ------------------------
(***************************************************************************)
(* The safety properties of CompiledModel, proved for every chain and pool,*)
(* every set of descriptors and every bound.                               *)
(***************************************************************************)
EXTENDS CompiledModel, SequenceTheorems, TLAPS

ReduceIn(c, state, e) == Reduce(state, e)

F == INSTANCE Folding WITH op <- ReduceIn

IsUpTo(h, e) == e.height <= h

K == INSTANCE Filtering WITH test <- IsUpTo

(* Every event the user's code may ever emit.                              *)
State == [Outputs -> Int]

Emitted == [type : {"created", "spent"}, out : Outputs, height : Int]

-----------------------------------------------------------------------------
(* The replay of stored events.                                            *)

LEMMA ReplayIsFold ==
  ASSUME NEW state, NEW events
  PROVE  Replay(state, events) = F!Fold(0, state, events)
BY DEF Replay, FoldLeft, MapThenFoldSet, Max, F!Fold, F!Max, ReduceIn

LEMMA UpToIsKeep ==
  ASSUME NEW events, NEW h
  PROVE  UpTo(events, h) = K!Keep(h, events)
BY DEF UpTo, FoldLeft, MapThenFoldSet, Max, K!Keep, K!F!Fold, K!F!Max, K!KeepOne, IsUpTo

(* The reducer keeps a state a state, and counts the output of the event.  *)
LEMMA ReduceType ==
  ASSUME NEW state \in State, NEW e \in Emitted
  PROVE  /\ Reduce(state, e) \in State
         /\ \A o \in Outputs : Reduce(state, e)[o] =
              IF o # e.out THEN state[o]
              ELSE IF e.type = "created" THEN state[o] + 1 ELSE state[o] - 1
BY DEF Reduce, State, Emitted

LEMMA ReplayType ==
  ASSUME NEW state \in State, NEW events \in Seq(Emitted)
  PROVE  Replay(state, events) \in State
<1>1. \A x \in State, e \in Emitted : ReduceIn(0, x, e) \in State
  BY ReduceType DEF ReduceIn
<1>2. F!Fold(0, state, events) \in State
  BY <1>1, F!FoldType
<1> QED BY <1>2, ReplayIsFold

LEMMA ReplayNil == \A state : Replay(state, <<>>) = state
BY ReplayIsFold, F!FoldNil

LEMMA ReplayAppend ==
  ASSUME NEW state, NEW events \in Seq(Emitted), NEW e \in Emitted
  PROVE  Replay(state, Append(events, e)) = Reduce(Replay(state, events), e)
<1>1. F!Fold(0, state, Append(events, e)) = ReduceIn(0, F!Fold(0, state, events), e)
  BY F!FoldAppend
<1> QED BY <1>1, ReplayIsFold DEF ReduceIn

LEMMA ReplayConcat ==
  ASSUME NEW state, NEW events \in Seq(Emitted), NEW more \in Seq(Emitted)
  PROVE  Replay(state, events \o more) = Replay(Replay(state, events), more)
<1>1. F!Fold(0, state, events \o more) = F!Fold(0, F!Fold(0, state, events), more)
  BY F!FoldConcat
<1> QED BY <1>1, ReplayIsFold

-----------------------------------------------------------------------------
(* What the walker visits.                                                 *)

LEMMA ReverseFacts ==
  ASSUME NEW E, NEW s \in Seq(E)
  PROVE  /\ Reverse(s) \in Seq(E) /\ Len(Reverse(s)) = Len(s)
         /\ Reverse(Reverse(s)) = s
         /\ ToSet(Reverse(s)) = ToSet(s)
<1> DEFINE n == Len(s)
<1>1. n \in Nat /\ DOMAIN s = 1..n /\ \A i \in 1..n : s[i] \in E
  BY LenProperties, ElementOfSeq
<1>2. s = [i \in 1..n |-> s[i]]
  BY <1>1
<1>3. Reverse(s) = [i \in 1..n |-> s[(n - i) + 1]]
  BY DEF Reverse
<1> HIDE DEF n
<1>4. \A i \in 1..n : (n - i) + 1 \in 1..n /\ (n - ((n - i) + 1)) + 1 = i
  BY <1>1
<1>5. Reverse(s) \in [1..n -> E]
  BY <1>1, <1>3, <1>4
<1>6. Reverse(s) \in Seq(E) /\ Len(Reverse(s)) = n
  <2>1. \A f \in [1..n -> E] : f \in Seq(E) /\ Len(f) = n
    BY <1>1
  <2> QED BY <1>5, <2>1
<1>7. Reverse(Reverse(s)) = [i \in 1..n |-> Reverse(s)[(n - i) + 1]]
  BY <1>6 DEF Reverse
<1>8. Reverse(Reverse(s)) = s
  <2>1. \A i \in 1..n : Reverse(s)[(n - i) + 1] = s[i]
    BY <1>3, <1>4
  <2> QED BY <1>2, <1>7, <2>1
<1>9. ToSet(Reverse(s)) = ToSet(s)
  <2>1. DOMAIN Reverse(s) = 1..n
    BY <1>5
  <2>2. \A i \in 1..n : s[i] = Reverse(s)[(n - i) + 1] /\ Reverse(s)[i] = s[(n - i) + 1]
    BY <1>3, <1>4
  <2> QED BY <1>1, <1>4, <2>1, <2>2 DEF ToSet
<1> QED BY <1>6, <1>8, <1>9 DEF n

LEMMA FlattenIs == \A ss : FlattenSeq(ss) = F!FlattenSeq(ss)
BY DEF FlattenSeq, F!FlattenSeq

LEMMA WalkType ==
  ASSUME NEW txs \in Seq(Transaction)
  PROVE  /\ Walk(txs, "vout") \in Seq(Outputs)
         /\ Walk(txs, "vin") \in Seq(Outputs)
         /\ Walk(txs, "tx") \in Seq(Txids)
<1> DEFINE n == Len(txs)
<1>1. n \in Nat /\ DOMAIN txs = 1..n /\ \A i \in 1..n : txs[i] \in Transaction
  BY LenProperties, ElementOfSeq
<1> HIDE DEF n
<1>2. \A D : \A f \in [1..n -> D] : f \in Seq(D)
  BY <1>1
<1>3. [i \in DOMAIN txs |-> txs[i].vout] \in [1..n -> Seq(Outputs)]
  BY <1>1 DEF Transaction
<1>4. [i \in DOMAIN txs |-> txs[i].vin] \in [1..n -> Seq(Outputs)]
  BY <1>1 DEF Transaction
<1>5. [i \in DOMAIN txs |-> txs[i].txid] \in [1..n -> Txids]
  BY <1>1 DEF Transaction
<1>6. /\ [i \in DOMAIN txs |-> txs[i].vout] \in Seq(Seq(Outputs))
      /\ [i \in DOMAIN txs |-> txs[i].vin] \in Seq(Seq(Outputs))
      /\ [i \in DOMAIN txs |-> txs[i].txid] \in Seq(Txids)
  BY <1>2, <1>3, <1>4, <1>5
<1>7. /\ Walk(txs, "vout") = FlattenSeq([i \in DOMAIN txs |-> txs[i].vout])
      /\ Walk(txs, "vin") = FlattenSeq([i \in DOMAIN txs |-> txs[i].vin])
      /\ Walk(txs, "tx") = [i \in DOMAIN txs |-> txs[i].txid]
  BY DEF Walk
<1> QED BY <1>6, <1>7, FlattenIs, F!FlattenType

(* What is collected for a source that the descriptor has.                 *)
Full(S, txs, source) == IF source \in S THEN Bag(txs, source) ELSE <<>>

LEMMA FullType ==
  ASSUME NEW S, NEW txs \in Seq(Transaction)
  PROVE  /\ Full(S, txs, "vout") \in Seq(Outputs)
         /\ Full(S, txs, "vin") \in Seq(Outputs)
         /\ Full(S, txs, "tx") \in Seq(Txids)
<1>1. /\ Bag(txs, "vout") \in Seq(Outputs)
      /\ Bag(txs, "vin") \in Seq(Outputs)
      /\ Bag(txs, "tx") \in Seq(Txids)
  <2>1. /\ Bag(txs, "vout") = Reverse(Walk(txs, "vout"))
        /\ Bag(txs, "vin") = Reverse(Walk(txs, "vin"))
        /\ Bag(txs, "tx") = Walk(txs, "tx")
    BY DEF Bag
  <2> QED BY <2>1, WalkType, ReverseFacts
<1> QED BY <1>1, EmptySeq DEF Full

-----------------------------------------------------------------------------
(* The events of the chain.                                                *)

Named(type, outs, h) == [i \in DOMAIN outs |-> [type |-> type, out |-> outs[i], height |-> h]]

BlockEvents(S, h) ==
  Named("created", Full(S, Blocks[h], "vout"), h) \o Named("spent", Full(S, Blocks[h], "vin"), h)

Chain(S, n) == FlattenSeq([h \in 1..n |-> BlockEvents(S, h)])

AtHeight(h) == [type : {"created", "spent"}, out : Outputs, height : {h}]

LEMMA NamedFacts ==
  ASSUME NEW type \in {"created", "spent"}, NEW h, NEW outs \in Seq(Outputs)
  PROVE  /\ Named(type, outs, h) \in Seq(AtHeight(h))
         /\ \A o \in Outputs : Named(type, Append(outs, o), h) =
              Append(Named(type, outs, h), [type |-> type, out |-> o, height |-> h])
<1> DEFINE n == Len(outs)
<1>1. n \in Nat /\ DOMAIN outs = 1..n /\ \A i \in 1..n : outs[i] \in Outputs
  BY LenProperties, ElementOfSeq
<1>2. \A D : \A f \in [1..n -> D] : f \in Seq(D) /\ Len(f) = n
  BY <1>1
<1>3. Named(type, outs, h) \in [1..n -> AtHeight(h)]
  BY <1>1 DEF Named, AtHeight
<1>4. Named(type, outs, h) \in Seq(AtHeight(h)) /\ Len(Named(type, outs, h)) = n
  BY <1>2, <1>3
<1>5. ASSUME NEW o \in Outputs
      PROVE  Named(type, Append(outs, o), h) =
               Append(Named(type, outs, h), [type |-> type, out |-> o, height |-> h])
  <2> DEFINE e == [type |-> type, out |-> o, height |-> h]
             new == Append(outs, o)
             s == Named(type, new, h)
             t == Append(Named(type, outs, h), e)
  <2>1. /\ new \in Seq(Outputs) /\ Len(new) = n + 1
        /\ \A i \in 1..n : new[i] = outs[i]
        /\ new[n + 1] = o
    BY AppendProperties
  <2>2. DOMAIN new = 1..(n + 1) /\ \A i \in 1..(n + 1) : new[i] \in Outputs
    BY <2>1, LenProperties, ElementOfSeq
  <2>3. e \in AtHeight(h)
    BY DEF AtHeight
  <2>4. /\ t \in Seq(AtHeight(h)) /\ Len(t) = n + 1
        /\ \A i \in 1..n : t[i] = Named(type, outs, h)[i]
        /\ t[n + 1] = e
    BY <1>4, <2>3, AppendProperties
  <2>5. \A i \in 1..n : Named(type, outs, h)[i] = [type |-> type, out |-> outs[i], height |-> h]
    BY <1>1 DEF Named
  <2>6. \A i \in 1..(n + 1) : s[i] = [type |-> type, out |-> new[i], height |-> h]
    BY <2>2 DEF Named
  <2>7. s \in [1..(n + 1) -> AtHeight(h)]
    BY <2>2 DEF Named, AtHeight
  <2>8. s \in Seq(AtHeight(h)) /\ Len(s) = n + 1
    <3>1. \A D : \A f \in [1..(n + 1) -> D] : f \in Seq(D) /\ Len(f) = n + 1
      BY <1>1
    <3> QED BY <2>7, <3>1
  <2> HIDE DEF s, t, new, e
  <2>9. \A i \in 1..(n + 1) : s[i] = t[i]
    <3>1. \A i \in 1..(n + 1) : i \in 1..n \/ i = n + 1
      BY <1>1
    <3> QED BY <2>1, <2>4, <2>5, <2>6, <3>1 DEF e
  <2>10. s = t
    BY <2>4, <2>8, <2>9, SeqEqual
  <2> QED BY <2>10 DEF s, t, new, e
<1> QED BY <1>4, <1>5

LEMMA NamedNil == \A type, h : Named(type, <<>>, h) = <<>>
<1> SUFFICES ASSUME NEW type, NEW h PROVE Named(type, <<>>, h) = <<>>
  OBVIOUS
<1>1. <<>> \in Seq({}) /\ Len(<<>>) = 0
  BY EmptySeq
<1>2. DOMAIN <<>> = 1..0
  BY <1>1, LenProperties
<1>3. 1..0 = {}
  OBVIOUS
<1>4. Named(type, <<>>, h) \in [1..0 -> {}]
  BY <1>2, <1>3 DEF Named
<1>5. Named(type, <<>>, h) \in Seq({}) /\ Len(Named(type, <<>>, h)) = 0
  <2>1. \A f \in [1..0 -> {}] : f \in Seq({}) /\ Len(f) = 0
    OBVIOUS
  <2> QED BY <1>4, <2>1
<1> QED BY <1>1, <1>5, EmptySeq

LEMMA BlockEventsType ==
  ASSUME NEW S, NEW h \in 1..Len(Blocks)
  PROVE  BlockEvents(S, h) \in Seq(AtHeight(h))
<1>1. Blocks[h] \in Seq(Transaction)
  BY BlocksAssumption, ElementOfSeq
<1>2. /\ Named("created", Full(S, Blocks[h], "vout"), h) \in Seq(AtHeight(h))
      /\ Named("spent", Full(S, Blocks[h], "vin"), h) \in Seq(AtHeight(h))
  BY <1>1, FullType, NamedFacts
<1> QED BY <1>2, ConcatProperties DEF BlockEvents

(* The chain of the descriptor's events is what RowsAreChain speaks of.    *)
LEMMA EventsOfIs ==
  ASSUME NEW h \in 1..Len(Blocks)
  PROVE  EventsOf(h) = BlockEvents(descriptor.sources, h)
<1>1. /\ Walk(Blocks[h], "vout") = Walk(Blocks[h], "vout")
      /\ Bag(Blocks[h], "vout") = Reverse(Walk(Blocks[h], "vout"))
      /\ Bag(Blocks[h], "vin") = Reverse(Walk(Blocks[h], "vin"))
  BY DEF Bag
<1>2. /\ Named("created", <<>>, h) = <<>>
      /\ Named("spent", <<>>, h) = <<>>
  BY NamedNil
<1>3. EventsOf(h) =
        (IF Has("vout") THEN Named("created", Reverse(Walk(Blocks[h], "vout")), h) ELSE <<>>)
        \o (IF Has("vin") THEN Named("spent", Reverse(Walk(Blocks[h], "vin")), h) ELSE <<>>)
  BY DEF EventsOf, Named
<1> QED BY <1>1, <1>2, <1>3 DEF BlockEvents, Full, Has

LEMMA RowsAreChainIs ==
  ASSUME height \in 0..Len(Blocks)
  PROVE  RowsAreChain <=> rows = Chain(descriptor.sources, height)
<1>1. Len(Blocks) \in Nat
  BY BlocksAssumption, LenProperties
<1>2. \A h \in 1..height : h \in 1..Len(Blocks)
  BY <1>1
<1>3. [h \in 1..height |-> EventsOf(h)] = [h \in 1..height |-> BlockEvents(descriptor.sources, h)]
  BY <1>2, EventsOfIs
<1> QED BY <1>3 DEF RowsAreChain, Chain

Upto(n) == UNION {AtHeight(h) : h \in 1..n}

LEMMA ChainStep ==
  ASSUME NEW S, NEW n \in 0..Len(Blocks)
  PROVE  /\ Chain(S, n) \in Seq(Upto(n))
         /\ n < Len(Blocks) => Chain(S, n + 1) = Chain(S, n) \o BlockEvents(S, n + 1)
         /\ Chain(S, 0) = <<>>
<1>1. n \in Nat /\ Len(Blocks) \in Nat /\ n <= Len(Blocks)
  BY BlocksAssumption, LenProperties
<1>2. \A k \in Nat : \A f : \A D : f \in [1..k -> D] => f \in Seq(D) /\ Len(f) = k
  OBVIOUS
<1>3. ASSUME NEW h \in 1..n PROVE BlockEvents(S, h) \in Seq(Upto(n))
  <2>1. h \in 1..Len(Blocks) /\ AtHeight(h) \subseteq Upto(n)
    BY <1>1 DEF Upto
  <2> QED BY <2>1, BlockEventsType, SeqMonotonic
<1> DEFINE ss == [h \in 1..n |-> BlockEvents(S, h)]
<1>4. ss \in Seq(Seq(Upto(n))) /\ Len(ss) = n
  <2>1. ss \in [1..n -> Seq(Upto(n))]
    BY <1>3
  <2> HIDE DEF ss
  <2> QED BY <1>1, <1>2, <2>1
<1>5. Chain(S, n) \in Seq(Upto(n))
  <2>1. F!FlattenSeq(ss) \in Seq(Upto(n))
    <3> HIDE DEF ss
    <3> QED BY <1>4, F!FlattenType
  <2> QED BY <2>1, FlattenIs DEF Chain
<1>6. ASSUME n < Len(Blocks) PROVE Chain(S, n + 1) = Chain(S, n) \o BlockEvents(S, n + 1)
  <2> DEFINE x == BlockEvents(S, n + 1)
             D == Upto(n) \cup AtHeight(n + 1)
             tt == [h \in 1..(n + 1) |-> BlockEvents(S, h)]
  <2>1. n + 1 \in 1..Len(Blocks)
    BY <1>1, <1>6
  <2>2. x \in Seq(D)
    BY <2>1, BlockEventsType, SeqMonotonic
  <2>3. Seq(Upto(n)) \subseteq Seq(D)
    BY SeqMonotonic
  <2>4. ss \in Seq(Seq(D))
    <3> HIDE DEF ss, D
    <3> QED BY <1>4, <2>3, SeqMonotonic
  <2>5. tt = Append(ss, x)
    <3>1. /\ Append(ss, x) \in Seq(Seq(D)) /\ Len(Append(ss, x)) = n + 1
          /\ \A i \in 1..n : Append(ss, x)[i] = ss[i]
          /\ Append(ss, x)[n + 1] = x
      <4> HIDE DEF ss, D, x
      <4> QED BY <1>4, <2>2, <2>4, AppendProperties
    <3>2. \A i \in 1..n : tt[i] = ss[i] /\ ss[i] = BlockEvents(S, i)
      BY <1>1
    <3>3. tt[n + 1] = x
      BY <1>1
    <3>4. DOMAIN Append(ss, x) = 1..(n + 1)
      <4> HIDE DEF ss, D, x
      <4> QED BY <3>1, LenProperties
    <3>5. \A i \in 1..(n + 1) : i \in 1..n \/ i = n + 1
      BY <1>1
    <3>6. Append(ss, x) = [i \in 1..(n + 1) |-> Append(ss, x)[i]]
      <4> HIDE DEF ss, D, x
      <4> QED BY <3>1, <3>4, LenProperties
    <3>7. \A i \in 1..(n + 1) : Append(ss, x)[i] = BlockEvents(S, i)
      <4> HIDE DEF ss, D, tt
      <4> QED BY <3>1, <3>2, <3>3, <3>5
    <3> QED BY <3>6, <3>7
  <2>6. F!FlattenSeq(Append(ss, x)) = F!FlattenSeq(ss) \o x
    <3> HIDE DEF ss, D, x
    <3> QED BY <2>2, <2>4, F!FlattenAppend
  <2> QED BY <2>5, <2>6, FlattenIs DEF Chain
<1>7. Chain(S, 0) = <<>>
  <2> DEFINE zz == [h \in 1..0 |-> BlockEvents(S, h)]
  <2>1. zz \in [1..0 -> {}]
    <3>1. 1..0 = {}
      OBVIOUS
    <3> QED BY <3>1
  <2> HIDE DEF zz
  <2>2. zz \in Seq({}) /\ Len(zz) = 0
    BY <1>2, <2>1
  <2>3. zz = <<>>
    BY <2>2, EmptySeq
  <2> QED BY <2>3, FlattenIs, F!FlattenNil DEF Chain, zz
<1> QED BY <1>5, <1>6, <1>7

(* A rollback of the chain's events leaves those of the shorter chain.     *)
LEMMA UpToChain ==
  ASSUME NEW S, NEW n \in 0..Len(Blocks), NEW h \in 0..n
  PROVE  UpTo(Chain(S, n), h) = Chain(S, h)
<1> DEFINE T == {k \in Nat : h <= k /\ k <= Len(Blocks) => K!Keep(h, Chain(S, k)) = Chain(S, h)}
<1>1. n \in Nat /\ h \in Nat /\ Len(Blocks) \in Nat /\ h <= n /\ n <= Len(Blocks)
  BY BlocksAssumption, LenProperties
<1>2. K!Keep(h, Chain(S, h)) = Chain(S, h)
  <2>1. Chain(S, h) \in Seq(Upto(h))
    BY <1>1, ChainStep
  <2>2. \A e \in Upto(h) : IsUpTo(h, e)
    BY <1>1 DEF Upto, AtHeight, IsUpTo
  <2> QED BY <2>1, <2>2, K!KeepAll
<1>3. 0 \in T
  <2>1. h <= 0 => h = 0
    BY <1>1
  <2> QED BY <1>2, <2>1
<1>4. ASSUME NEW k \in Nat, k \in T PROVE k + 1 \in T
  <2> SUFFICES ASSUME h <= k + 1, k + 1 <= Len(Blocks)
               PROVE  K!Keep(h, Chain(S, k + 1)) = Chain(S, h)
    OBVIOUS
  <2>1. CASE h = k + 1
    BY <1>2, <2>1
  <2>2. CASE h <= k
    <3> DEFINE D == Upto(k) \cup AtHeight(k + 1)
    <3>1. k \in 0..Len(Blocks) /\ k < Len(Blocks) /\ k + 1 \in 1..Len(Blocks)
      BY <1>1
    <3>2. Chain(S, k + 1) = Chain(S, k) \o BlockEvents(S, k + 1)
      BY <3>1, ChainStep
    <3>3. Chain(S, k) \in Seq(D)
      BY <3>1, ChainStep, SeqMonotonic
    <3>4. BlockEvents(S, k + 1) \in Seq(AtHeight(k + 1))
      BY <3>1, BlockEventsType
    <3>5. BlockEvents(S, k + 1) \in Seq(D)
      BY <3>4, SeqMonotonic
    <3> HIDE DEF D
    <3>6. K!Keep(h, Chain(S, k + 1)) =
            K!Keep(h, Chain(S, k)) \o K!Keep(h, BlockEvents(S, k + 1))
      BY <3>2, <3>3, <3>5, K!KeepConcat
    <3>7. \A e \in AtHeight(k + 1) : ~IsUpTo(h, e)
      BY <1>1, <2>2 DEF AtHeight, IsUpTo
    <3>8. K!Keep(h, BlockEvents(S, k + 1)) = <<>>
      BY <3>4, <3>7, K!KeepNone
    <3>9. K!Keep(h, Chain(S, k)) = Chain(S, h)
      BY <1>1, <1>4, <2>2, <3>1
    <3>10. Chain(S, h) \in Seq(Upto(h))
      BY <1>1, ChainStep
    <3> QED BY <3>6, <3>8, <3>9, <3>10, ConcatEmptySeq
  <2> QED BY <1>1, <2>1, <2>2
<1> HIDE DEF T
<1>5. n \in T
  BY <1>1, <1>3, <1>4, F!SetInduction
<1>6. K!Keep(h, Chain(S, n)) = Chain(S, h)
  BY <1>1, <1>5 DEF T
<1> QED BY <1>6, UpToIsKeep

-----------------------------------------------------------------------------
(* The inductive invariant.                                                *)

(* The job is a job, of a block of the chain or of no block at all.        *)
Job == [kind : {"none", "block", "tick"}, block : 0..Len(Blocks), last : 0..Len(Blocks),
        phase : 0..4, bag : Seq(Outputs \cup Txids \cup {"once"}),
        locals : [vout : Seq(Outputs), vin : Seq(Outputs), tx : Seq(Txids)],
        called : SUBSET {"vout", "vin", "tx", "block"}]

JobInv ==
  /\ job \in Job
  /\ job.block <= job.last
  /\ job.kind = "block" => job.block >= 1
  /\ job.kind # "block" => job.block = 0 /\ job.last = 0
  /\ pc = "walking" <=> job.kind # "none"
  /\ job.phase = 0 => job.bag = <<>>
  /\ job.phase \in {1, 2} => job.bag \in Seq(Outputs)
  /\ job.phase = 3 => job.bag \in Seq(Txids)

Nothing == <<>>

(* What a handler has been called with and what it is yet to be called     *)
(* with make up what was collected for it.                                 *)
Walked(p, source, done) ==
  /\ job.phase < p => done = Nothing
  /\ job.phase = p => done \o job.bag = Full(descriptor.sources, Txs, source)
  /\ job.phase > p => done = Full(descriptor.sources, Txs, source)

LocalsInv ==
  job.kind # "none" =>
    /\ Walked(1, "vout", job.locals.vout)
    /\ Walked(2, "vin", job.locals.vin)
    /\ Walked(3, "tx", job.locals.tx)

(* The events of the running block so far.                                 *)
SoFar ==
  Named("created", job.locals.vout, job.block) \o Named("spent", job.locals.vin, job.block)

EventsInv ==
  /\ rows = Chain(descriptor.sources, height)
  /\ pc = "walking" <=> inst["command"].live
  /\ job.kind = "block" =>
       inst["command"].seen = Chain(descriptor.sources, job.block - 1) \o SoFar
  /\ job.kind = "tick" => inst["command"].seen = rows
  /\ inst["query"].live =>
       \E h \in 0..Len(Blocks) : inst["query"].seen = Chain(descriptor.sources, h)

Instance == [live : BOOLEAN, state : State, seen : Seq(Event)]

Typed ==
  /\ descriptor \in Descriptors
  /\ pc \in {"off", "refused", "idle", "walking"}
  /\ rows \in Seq(Event)
  /\ height \in 0..Len(Blocks)
  /\ object \in State
  /\ inst \in [Actors -> Instance]
  /\ failures \in 0..MaxFailures /\ reorgs \in 0..MaxReorgs

Replayed ==
  ~Shared =>
    \A a \in Actors : inst[a].live => inst[a].state = Replay(InitialState, inst[a].seen)

IInv == Typed /\ JobInv /\ LocalsInv /\ EventsInv /\ Replayed

-----------------------------------------------------------------------------
LEMMA PhasesFacts ==
  /\ Len(Phases) = 4
  /\ Phases[1] = "vout" /\ Phases[2] = "vin" /\ Phases[3] = "tx" /\ Phases[4] = "block"
  /\ ToSet(Phases) = {"vout", "vin", "tx", "block"}
<1>1. Len(Phases) = 4 /\ DOMAIN Phases = 1..4
  BY DEF Phases
<1>2. Phases[1] = "vout" /\ Phases[2] = "vin" /\ Phases[3] = "tx" /\ Phases[4] = "block"
  BY DEF Phases
<1>3. 1..4 = {1, 2, 3, 4}
  OBVIOUS
<1>4. ToSet(Phases) = {Phases[i] : i \in {1, 2, 3, 4}}
  BY <1>1, <1>3 DEF ToSet
<1> QED BY <1>1, <1>2, <1>4

LEMMA BlocksFacts ==
  /\ Len(Blocks) \in Nat
  /\ \A h \in 1..Len(Blocks) : Blocks[h] \in Seq(Transaction)
  /\ Pool \in Seq(Transaction)
  /\ InitialState \in State
BY BlocksAssumption, LenProperties, ElementOfSeq DEF InitialState, State

LEMMA EventFacts ==
  /\ Event \subseteq Emitted
  /\ Seq(Event) \subseteq Seq(Emitted)
  /\ \A n \in 0..Len(Blocks) : Upto(n) \subseteq Event
<1>1. Event \subseteq Emitted
  BY BlocksFacts DEF Event, Emitted
<1>2. ASSUME NEW n \in 0..Len(Blocks) PROVE Upto(n) \subseteq Event
  <2>1. \A h \in 1..n : h \in 0..Len(Blocks)
    BY BlocksFacts
  <2> QED BY <2>1 DEF Upto, AtHeight, Event
<1> QED BY <1>1, <1>2, SeqMonotonic

LEMMA ChainIsEvents ==
  ASSUME NEW S, NEW n \in 0..Len(Blocks)
  PROVE  Chain(S, n) \in Seq(Event)
BY ChainStep, EventFacts, SeqMonotonic

(* The transactions a running job walks over.                              *)
LEMMA TxsType ==
  ASSUME JobInv, job.kind # "none"
  PROVE  Txs \in Seq(Transaction)
<1>1. CASE job.kind = "tick"
  BY <1>1, BlocksFacts DEF Txs
<1>2. CASE job.kind = "block"
  <2>1. job.block \in 1..Len(Blocks)
    BY <1>2, BlocksFacts DEF JobInv, Job
  <2> QED BY <1>2, <2>1, BlocksFacts DEF Txs
<1> QED BY <1>1, <1>2 DEF JobInv, Job

-----------------------------------------------------------------------------
(* Instances.                                                              *)

LEMMA RestoreType ==
  ASSUME NEW a \in Actors, NEW events \in Seq(Event), Restore(a, events),
         inst \in [Actors -> Instance], object \in State
  PROVE  /\ inst' \in [Actors -> Instance]
         /\ object' \in State
         /\ inst'[a].live /\ inst'[a].seen = events
         /\ ~Shared => inst'[a].state = Replay(InitialState, events)
         /\ \A b \in Actors : b # a => inst'[b] = inst[b]
<1> DEFINE state == Replay(IF Shared THEN object ELSE InitialState, events)
<1>1. state \in State
  <2>1. events \in Seq(Emitted)
    BY EventFacts
  <2> QED BY <2>1, ReplayType, BlocksFacts
<1>2. /\ inst' = [inst EXCEPT ![a] = [live |-> TRUE, state |-> state, seen |-> events]]
      /\ object' = IF Shared THEN state ELSE object
  BY DEF Restore
<1>3. ~Shared => state = Replay(InitialState, events)
  OBVIOUS
<1> HIDE DEF state
<1> QED BY <1>1, <1>2, <1>3 DEF Instance

LEMMA DropType ==
  ASSUME NEW a \in Actors, Drop(a), inst \in [Actors -> Instance]
  PROVE  /\ inst' \in [Actors -> Instance]
         /\ ~inst'[a].live
         /\ \A b \in Actors : b # a => inst'[b] = inst[b]
BY BlocksFacts, EmptySeq DEF Drop, NoInstance, Instance

LEMMA ApplyEventType ==
  ASSUME NEW a \in Actors, NEW e \in Event, ApplyEvent(a, e),
         inst \in [Actors -> Instance], object \in State
  PROVE  /\ inst' \in [Actors -> Instance]
         /\ object' \in State
         /\ inst'[a].live = inst[a].live
         /\ inst'[a].seen = Append(inst[a].seen, e)
         /\ ~Shared => inst'[a].state = Reduce(inst[a].state, e)
         /\ \A b \in Actors : b # a => inst'[b] = inst[b]
<1> DEFINE state == Reduce(StateOf(a), e)
<1>1. state \in State
  <2>1. StateOf(a) \in State /\ e \in Emitted
    BY EventFacts DEF StateOf, Instance
  <2> QED BY <2>1, ReduceType
<1>2. /\ inst' = [inst EXCEPT ![a].state = state, ![a].seen = Append(@, e)]
      /\ object' = IF Shared THEN state ELSE object
  BY DEF ApplyEvent
<1>3. ~Shared => state = Reduce(inst[a].state, e)
  BY DEF StateOf
<1>4. Append(inst[a].seen, e) \in Seq(Event)
  BY AppendProperties DEF Instance
<1> HIDE DEF state
<1> QED BY <1>1, <1>2, <1>3, <1>4 DEF Instance

(* What the code means by these.                                           *)
LEMMA IInvMeans ==
  ASSUME IInv
  PROVE  TypeOK /\ RowsAreChain /\ (~Shared => RestoredIsReplay)
<1>1. /\ job.kind \in {"none", "block", "tick"} /\ job.phase \in 0..4
      /\ job.block \in 0..job.last /\ job.last \in 0..Len(Blocks)
      /\ job.called \subseteq {"vout", "vin", "tx", "block"}
  BY BlocksFacts DEF IInv, JobInv, Job
<1>2. TypeOK
  BY <1>1, PhasesFacts DEF IInv, Typed, TypeOK, State, Instance
<1>3. RowsAreChain
  BY RowsAreChainIs DEF IInv, Typed, EventsInv
<1>4. ~Shared => RestoredIsReplay
  BY DEF IInv, Replayed, RestoredIsReplay, StateOf
<1> QED BY <1>2, <1>3, <1>4

-----------------------------------------------------------------------------
(* No job runs.                                                            *)
LEMMA NoJobFacts ==
  /\ NoJob \in Job /\ NoInstance \in Instance
  /\ NoJob.kind = "none" /\ NoJob.block = 0 /\ NoJob.last = 0
  /\ NoJob.phase = 0 /\ NoJob.bag = <<>>
BY BlocksFacts, EmptySeq DEF NoJob, NoLocals, Job, NoInstance, Instance

LEMMA InitIInv == Init => IInv
<1> SUFFICES ASSUME Init PROVE IInv
  OBVIOUS
<1>1. JobInv
  BY NoJobFacts, BlocksFacts DEF Init, JobInv
<1>2. Typed
  BY NoJobFacts, BlocksFacts, EmptySeq, DescriptorsAssumption DEF Init, Typed
<1>3. rows = Chain(descriptor.sources, height)
  <2>1. 0 \in 0..Len(Blocks)
    BY BlocksFacts
  <2> QED BY <2>1, ChainStep DEF Init
<1>4. \A a \in Actors : ~inst[a].live
  BY DEF Init, NoInstance
<1>5. EventsInv
  BY <1>3, <1>4, NoJobFacts DEF Init, EventsInv, Actors
<1>6. LocalsInv
  BY NoJobFacts DEF Init, LocalsInv
<1> QED BY <1>1, <1>2, <1>4, <1>5, <1>6 DEF IInv, Replayed

-----------------------------------------------------------------------------
(* The next-state relation, action by action.                              *)

(* One item more: from what is left to what the handler was called with.   *)
LEMMA MoveHead ==
  ASSUME NEW E, NEW s \in Seq(E), NEW bag \in Seq(E), bag # <<>>
  PROVE  /\ Head(bag) \in E /\ Tail(bag) \in Seq(E)
         /\ Append(s, Head(bag)) \in Seq(E)
         /\ Append(s, Head(bag)) \o Tail(bag) = s \o bag
<1>1. Head(bag) \in E /\ Tail(bag) \in Seq(E) /\ Len(bag) \in Nat \ {0}
  BY HeadTailProperties, EmptySeq
<1>2. 1 \in 1..Len(bag) /\ Len(bag) \in 1..Len(bag)
  BY <1>1
<1>3. SubSeq(bag, 1, Len(bag)) = bag
  BY SubSeqFull
<1>4. bag = <<Head(bag)>> \o Tail(bag)
  <2>1. SubSeq(bag, 1, Len(bag)) = <<bag[1]>> \o SubSeq(bag, 1 + 1, Len(bag))
    BY <1>2, SubSeqRecursiveFirst
  <2>2. /\ Head(SubSeq(bag, 1, Len(bag))) = bag[1]
        /\ Tail(SubSeq(bag, 1, Len(bag))) = SubSeq(bag, 1 + 1, Len(bag))
    BY <1>2, HeadTailOfSubSeq
  <2> QED BY <1>3, <2>1, <2>2
<1>5. <<Head(bag)>> \in Seq(E)
  BY <1>1
<1>6. (s \o <<Head(bag)>>) \o Tail(bag) = s \o (<<Head(bag)>> \o Tail(bag))
  BY <1>1, <1>5, ConcatAssociative, SMTT(60)
<1>7. Append(s, Head(bag)) = s \o <<Head(bag)>> /\ Append(s, Head(bag)) \in Seq(E)
  BY <1>1, AppendIsConcat, AppendProperties
<1> QED BY <1>1, <1>4, <1>6, <1>7

LEMMA AppendToConcat ==
  ASSUME NEW E, NEW s \in Seq(E), NEW t \in Seq(E), NEW e \in E
  PROVE  Append(s \o t, e) = s \o Append(t, e)
<1>1. <<e>> \in Seq(E) /\ s \o t \in Seq(E)
  BY ConcatProperties
<1>2. (s \o t) \o <<e>> = s \o (t \o <<e>>)
  BY <1>1, ConcatAssociative, SMTT(60)
<1> QED BY <1>1, <1>2, AppendIsConcat

LEMMA SoFarType ==
  ASSUME JobInv, job.kind = "block"
  PROVE  /\ job.block \in 1..Len(Blocks)
         /\ job.block \in 0..Len(Blocks) /\ job.block - 1 \in 0..Len(Blocks)
         /\ Named("created", job.locals.vout, job.block) \in Seq(Event)
         /\ Named("spent", job.locals.vin, job.block) \in Seq(Event)
         /\ SoFar \in Seq(Event)
<1>1. job.block \in 1..Len(Blocks) /\ job.locals.vout \in Seq(Outputs) /\ job.locals.vin \in Seq(Outputs)
  BY BlocksFacts DEF JobInv, Job
<1>2. /\ Named("created", job.locals.vout, job.block) \in Seq(AtHeight(job.block))
      /\ Named("spent", job.locals.vin, job.block) \in Seq(AtHeight(job.block))
  BY <1>1, NamedFacts
<1>3. AtHeight(job.block) \subseteq Event
  BY <1>1, BlocksFacts DEF AtHeight, Event
<1>4. /\ Named("created", job.locals.vout, job.block) \in Seq(Event)
      /\ Named("spent", job.locals.vin, job.block) \in Seq(Event)
  BY <1>2, <1>3, SeqMonotonic
<1> QED BY <1>1, <1>4, ConcatProperties, BlocksFacts DEF SoFar

(* When a block has ended, its events have been emitted.                   *)
LEMMA EndedIsChain ==
  ASSUME IInv, Ended
  PROVE  job.kind = "block" => inst["command"].seen = Chain(descriptor.sources, job.block)
<1> SUFFICES ASSUME job.kind = "block"
             PROVE  inst["command"].seen = Chain(descriptor.sources, job.block)
  OBVIOUS
<1> DEFINE S == descriptor.sources
<1>1. job.phase = 4
  BY PhasesFacts DEF Ended
<1>2. /\ job.locals.vout = Full(S, Blocks[job.block], "vout")
      /\ job.locals.vin = Full(S, Blocks[job.block], "vin")
  BY <1>1 DEF IInv, LocalsInv, Walked, Txs
<1>3. SoFar = BlockEvents(S, job.block)
  BY <1>2 DEF SoFar, BlockEvents
<1>4. job.block - 1 \in 0..Len(Blocks) /\ job.block - 1 < Len(Blocks) /\ (job.block - 1) + 1 = job.block
  BY SoFarType, BlocksFacts DEF IInv
<1>5. Chain(S, (job.block - 1) + 1) = Chain(S, job.block - 1) \o BlockEvents(S, (job.block - 1) + 1)
  BY <1>4, ChainStep
<1> QED BY <1>3, <1>4, <1>5 DEF IInv, EventsInv

LEMMA LocalsInvSame ==
  ASSUME LocalsInv, UNCHANGED <<descriptor, job>>
  PROVE  LocalsInv'
BY DEF LocalsInv, Walked, Txs

LEMMA NormalizeStep == IInv /\ Normalize => IInv'
<1> SUFFICES ASSUME IInv, Normalize PROVE IInv'
  OBVIOUS
<1>1. /\ pc = "off" /\ pc' \in {"idle", "refused"}
      /\ UNCHANGED <<descriptor, rows, height, object, inst, job, failures, reorgs>>
  BY DEF Normalize
<1>2. Typed'
  BY <1>1 DEF IInv, Typed
<1>3. JobInv'
  BY <1>1 DEF IInv, JobInv
<1>4. LocalsInv'
  BY <1>1, LocalsInvSame DEF IInv
<1>5. EventsInv'
  BY <1>1 DEF IInv, EventsInv, SoFar
<1>6. Replayed'
  BY <1>1 DEF IInv, Replayed, Shared
<1> QED BY <1>2, <1>3, <1>4, <1>5, <1>6 DEF IInv

(* A command restores its model and starts walking: nothing is walked yet. *)
LEMMA StartStep ==
  ASSUME IInv, pc = "idle", Restore("command", rows), pc' = "walking",
         UNCHANGED <<descriptor, rows, height, failures, reorgs>>,
         NEW kind \in {"block", "tick"}, NEW block \in 0..Len(Blocks), NEW last \in 0..Len(Blocks),
         job' = [kind |-> kind, block |-> block, last |-> last, phase |-> 0, bag |-> <<>>,
                 locals |-> NoLocals, called |-> {}],
         kind = "block" => block = height + 1 /\ block <= last,
         kind = "tick" => block = 0 /\ last = 0
  PROVE  IInv'
<1>1. /\ inst' \in [Actors -> Instance]
      /\ object' \in State
      /\ inst'["command"].live /\ inst'["command"].seen = rows
      /\ ~Shared => inst'["command"].state = Replay(InitialState, rows)
      /\ inst'["query"] = inst["query"]
  <2>1. "command" \in Actors /\ "query" \in Actors /\ "query" # "command"
    BY DEF Actors
  <2> QED BY <2>1, RestoreType DEF IInv, Typed
<1>2. /\ job' \in Job /\ job'.kind = kind /\ job'.block = block /\ job'.last = last
      /\ job'.phase = 0 /\ job'.bag = <<>> /\ job'.locals = NoLocals
  BY NoJobFacts DEF NoJob, Job, NoLocals
<1>3. Typed'
  BY <1>1 DEF IInv, Typed
<1>4. JobInv'
  BY <1>2, BlocksFacts DEF IInv, Typed, JobInv
<1>5. LocalsInv'
  <2>1. NoLocals.vout = Nothing /\ NoLocals.vin = Nothing /\ NoLocals.tx = Nothing
    BY DEF NoLocals, Nothing
  <2>2. Walked(1, "vout", job.locals.vout)' /\ Walked(2, "vin", job.locals.vin)' /\ Walked(3, "tx", job.locals.tx)'
    BY <1>2, <2>1 DEF Walked
  <2> QED BY <2>2 DEF LocalsInv
<1>6. SoFar' = <<>>
  <2>1. SoFar' = <<>> \o <<>>
    BY <1>2, NamedNil DEF SoFar, NoLocals
  <2> QED BY <2>1, EmptySeq, ConcatEmptySeq
<1>7. EventsInv'
  <2>1. kind = "block" => rows = Chain(descriptor.sources, block - 1) \o <<>>
    <3> SUFFICES ASSUME kind = "block" PROVE rows = Chain(descriptor.sources, block - 1) \o <<>>
      OBVIOUS
    <3>1. block - 1 = height /\ height \in 0..Len(Blocks)
      BY BlocksFacts DEF IInv, Typed
    <3> QED BY <3>1, ChainIsEvents, ConcatEmptySeq DEF IInv, EventsInv
  <2> QED BY <1>1, <1>2, <1>6, <2>1 DEF IInv, EventsInv
<1>8. Replayed'
  BY <1>1 DEF IInv, Replayed, Shared, Actors
<1> QED BY <1>3, <1>4, <1>5, <1>7, <1>8 DEF IInv

LEMMA StartBatchStep == IInv /\ StartBatch => IInv'
<1> SUFFICES ASSUME IInv, NEW k \in 1..MaxBatch,
                    pc = "idle", height + k <= Len(Blocks), Restore("command", rows),
                    job' = [NoJob EXCEPT !.kind = "block", !.block = height + 1, !.last = height + k],
                    pc' = "walking",
                    UNCHANGED <<descriptor, rows, height, failures, reorgs>>
             PROVE  IInv'
  BY DEF StartBatch
<1>1. height + 1 \in 0..Len(Blocks) /\ height + k \in 0..Len(Blocks) /\ height + 1 <= height + k
  BY BlocksFacts, DescriptorsAssumption DEF IInv, Typed
<1>2. job' = [kind |-> "block", block |-> height + 1, last |-> height + k, phase |-> 0,
               bag |-> <<>>, locals |-> NoLocals, called |-> {}]
  BY DEF NoJob
<1> QED BY <1>1, <1>2, StartStep

LEMMA StartTickStep == IInv /\ StartTick => IInv'
<1> SUFFICES ASSUME IInv, StartTick PROVE IInv'
  OBVIOUS
<1>1. 0 \in 0..Len(Blocks)
  BY BlocksFacts
<1>2. job' = [kind |-> "tick", block |-> 0, last |-> 0, phase |-> 0, bag |-> <<>>,
               locals |-> NoLocals, called |-> {}]
  BY DEF StartTick, NoJob
<1> QED BY <1>1, <1>2, StartStep DEF StartTick

(* The next phase: what it collects is all still to be walked.             *)
LEMMA EnterStep == IInv /\ Enter => IInv'
<1> SUFFICES ASSUME IInv, Enter PROVE IInv'
  OBVIOUS
<1> DEFINE n == job.phase + 1
           next == Phases[n]
           bag == IF next \in descriptor.sources THEN Bag(Txs, next) ELSE <<>>
<1>1. /\ pc = "walking" /\ job.bag = <<>> /\ job.phase < 4
      /\ job' = [job EXCEPT !.phase = @ + 1, !.bag = bag]
      /\ UNCHANGED <<descriptor, pc, rows, height, object, inst, failures, reorgs>>
  BY PhasesFacts DEF Enter, Has
<1>2. job \in Job /\ job.kind # "none"
  BY <1>1 DEF IInv, JobInv
<1>3. Txs \in Seq(Transaction)
  BY <1>2, TxsType DEF IInv
<1>4. n \in {1, 2, 3, 4} /\ n \in 0..4
  BY <1>1, <1>2 DEF Job
<1>5. /\ n = 1 => bag = Full(descriptor.sources, Txs, "vout")
      /\ n = 2 => bag = Full(descriptor.sources, Txs, "vin")
      /\ n = 3 => bag = Full(descriptor.sources, Txs, "tx")
  BY PhasesFacts DEF Full
<1>6. /\ n \in {1, 2} => bag \in Seq(Outputs)
      /\ n = 3 => bag \in Seq(Txids)
  BY <1>3, <1>5, FullType
<1>7. n = 4 => bag \in Seq({"once"})
  <2>1. Bag(Txs, "block") = <<"once">>
    BY DEF Bag, Walk
  <2>2. <<"once">> \in Seq({"once"}) /\ <<>> \in Seq({"once"})
    BY EmptySeq
  <2> QED BY <2>1, <2>2, PhasesFacts
<1>8. bag \in Seq(Outputs \cup Txids \cup {"once"})
  BY <1>4, <1>6, <1>7, SeqMonotonic
<1> HIDE DEF bag, next
<1>9. /\ job' \in Job /\ job'.phase = n /\ job'.bag = bag
      /\ job'.kind = job.kind /\ job'.block = job.block /\ job'.last = job.last
      /\ job'.locals = job.locals
  BY <1>1, <1>2, <1>4, <1>8 DEF Job
<1>10. Typed'
  BY <1>1 DEF IInv, Typed
<1>11. JobInv'
  BY <1>1, <1>4, <1>6, <1>9 DEF IInv, JobInv
<1>12. LocalsInv'
  <2>1. Txs' = Txs /\ descriptor' = descriptor
    BY <1>1, <1>9 DEF Txs
  <2>2. Walked(1, "vout", job.locals.vout) /\ Walked(2, "vin", job.locals.vin) /\ Walked(3, "tx", job.locals.tx)
    BY <1>2 DEF IInv, LocalsInv
  <2>3. job.locals.vout \in Seq(Outputs) /\ job.locals.vin \in Seq(Outputs)
        /\ job.locals.tx \in Seq(Txids)
    BY <1>2 DEF Job
  <2>4. /\ job.locals.vout \o <<>> = job.locals.vout
        /\ job.locals.vin \o <<>> = job.locals.vin
        /\ job.locals.tx \o <<>> = job.locals.tx
    BY <2>3, ConcatEmptySeq
  <2>5. Nothing \o bag = bag
    <3>1. bag \in Seq(Outputs \cup Txids \cup {"once"})
      BY <1>8
    <3> QED BY <3>1, ConcatEmptySeq DEF Nothing
  <2>6. job.phase \in Nat /\ n = job.phase + 1
    BY <1>2 DEF Job
  <2>7. Walked(1, "vout", job.locals.vout)'
    <3>1. CASE n < 1
      BY <1>9, <2>2, <2>6, <3>1 DEF Walked
    <3>2. CASE n = 1
      <4>0. job.phase < 1
        BY <2>6, <3>2
      <4>1. job.locals.vout = Nothing
        BY <2>2, <4>0 DEF Walked
      <4> QED BY <1>5, <1>9, <2>1, <2>5, <3>2, <4>1 DEF Walked
    <3>3. CASE n > 1
      <4>1. job.locals.vout = Full(descriptor.sources, Txs, "vout")
        BY <1>1, <2>2, <2>4, <2>6, <3>3 DEF Walked
      <4> QED BY <1>9, <2>1, <2>6, <3>3, <4>1 DEF Walked
    <3> QED BY <2>6, <3>1, <3>2, <3>3
  <2>8. Walked(2, "vin", job.locals.vin)'
    <3>1. CASE n < 2
      BY <1>9, <2>2, <2>6, <3>1 DEF Walked
    <3>2. CASE n = 2
      <4>0. job.phase < 2
        BY <2>6, <3>2
      <4>1. job.locals.vin = Nothing
        BY <2>2, <4>0 DEF Walked
      <4> QED BY <1>5, <1>9, <2>1, <2>5, <3>2, <4>1 DEF Walked
    <3>3. CASE n > 2
      <4>1. job.locals.vin = Full(descriptor.sources, Txs, "vin")
        BY <1>1, <2>2, <2>4, <2>6, <3>3 DEF Walked
      <4> QED BY <1>9, <2>1, <2>6, <3>3, <4>1 DEF Walked
    <3> QED BY <2>6, <3>1, <3>2, <3>3
  <2>9. Walked(3, "tx", job.locals.tx)'
    <3>1. CASE n < 3
      BY <1>9, <2>2, <2>6, <3>1 DEF Walked
    <3>2. CASE n = 3
      <4>0. job.phase < 3
        BY <2>6, <3>2
      <4>1. job.locals.tx = Nothing
        BY <2>2, <4>0 DEF Walked
      <4> QED BY <1>5, <1>9, <2>1, <2>5, <3>2, <4>1 DEF Walked
    <3>3. CASE n > 3
      <4>1. job.locals.tx = Full(descriptor.sources, Txs, "tx")
        BY <1>1, <2>2, <2>4, <2>6, <3>3 DEF Walked
      <4> QED BY <1>9, <2>1, <2>6, <3>3, <4>1 DEF Walked
    <3> QED BY <2>6, <3>1, <3>2, <3>3
  <2> QED BY <2>7, <2>8, <2>9 DEF LocalsInv
<1>13. EventsInv'
  BY <1>1, <1>9 DEF IInv, EventsInv, SoFar
<1>14. Replayed'
  BY <1>1 DEF IInv, Replayed, Shared
<1> QED BY <1>10, <1>11, <1>12, <1>13, <1>14 DEF IInv

(* The state of a job between two calls of one handler.                    *)
LEMMA CallJob ==
  ASSUME IInv, Call
  PROVE  LET phase == Phases[job.phase]
             item  == Head(job.bag)
         IN  /\ pc = "walking" /\ job.bag # <<>>
             /\ job.kind # "none" /\ job.phase \in {1, 2, 3, 4}
             /\ job.kind = "tick" => job.phase \in {3, 4}
             /\ job' \in Job /\ job'.kind = job.kind /\ job'.block = job.block
             /\ job'.last = job.last /\ job'.phase = job.phase /\ job'.bag = Tail(job.bag)
             /\ job'.locals.vout = (IF job.phase = 1 THEN Append(job.locals.vout, item) ELSE job.locals.vout)
             /\ job'.locals.vin = (IF job.phase = 2 THEN Append(job.locals.vin, item) ELSE job.locals.vin)
             /\ job'.locals.tx = (IF job.phase = 3 THEN Append(job.locals.tx, item) ELSE job.locals.tx)
             /\ job.phase \in {1, 2} => item \in Outputs /\ Tail(job.bag) \in Seq(Outputs)
             /\ job.phase = 3 => item \in Txids /\ Tail(job.bag) \in Seq(Txids)
<1> DEFINE phase == Phases[job.phase]
           item  == Head(job.bag)
<1>1. /\ pc = "walking" /\ job.bag # <<>> /\ ~Throws(phase)
      /\ job' = [job EXCEPT !.bag = Tail(@), !.called = @ \cup {phase},
                            !.locals = Returned(@, phase, item)]
  BY DEF Call
<1>2. job \in Job /\ job.kind # "none" /\ job.phase # 0
  BY <1>1 DEF IInv, JobInv
<1>3. job.phase \in {1, 2, 3, 4}
  BY <1>2 DEF Job
<1>4. phase \in {"vout", "vin", "tx", "block"} /\ (phase = "block" <=> job.phase = 4)
  BY <1>3, PhasesFacts
<1>5. job.kind = "tick" => job.phase \in {3, 4}
  BY <1>1, <1>3, PhasesFacts DEF Throws
<1>6. /\ item \in Outputs \cup Txids \cup {"once"}
      /\ Tail(job.bag) \in Seq(Outputs \cup Txids \cup {"once"})
      /\ job.phase \in {1, 2} => item \in Outputs /\ Tail(job.bag) \in Seq(Outputs)
      /\ job.phase = 3 => item \in Txids /\ Tail(job.bag) \in Seq(Txids)
  <2>1. /\ job.bag \in Seq(Outputs \cup Txids \cup {"once"})
        /\ job.phase \in {1, 2} => job.bag \in Seq(Outputs)
        /\ job.phase = 3 => job.bag \in Seq(Txids)
    BY <1>2 DEF Job, IInv, JobInv
  <2> QED BY <1>1, <2>1, HeadTailProperties
<1> DEFINE locals == Returned(job.locals, phase, item)
<1>7. /\ locals \in [vout : Seq(Outputs), vin : Seq(Outputs), tx : Seq(Txids)]
      /\ locals.vout = (IF job.phase = 1 THEN Append(job.locals.vout, item) ELSE job.locals.vout)
      /\ locals.vin = (IF job.phase = 2 THEN Append(job.locals.vin, item) ELSE job.locals.vin)
      /\ locals.tx = (IF job.phase = 3 THEN Append(job.locals.tx, item) ELSE job.locals.tx)
  <2> DEFINE L == job.locals
  <2>1. L \in [vout : Seq(Outputs), vin : Seq(Outputs), tx : Seq(Txids)]
    BY <1>2 DEF Job
  <2> HIDE DEF L
  <2>2. CASE job.phase = 1
    <3> DEFINE more == Append(L.vout, item)
    <3>1. more \in Seq(Outputs)
      BY <1>6, <2>1, <2>2, AppendProperties
    <3>2. locals = [L EXCEPT !.vout = more]
      BY <2>2, PhasesFacts DEF L, Returned
    <3> HIDE DEF locals, more
    <3>3. /\ locals \in [vout : Seq(Outputs), vin : Seq(Outputs), tx : Seq(Txids)]
          /\ locals.vout = more
          /\ locals.vin = L.vin /\ locals.tx = L.tx
      BY <2>1, <3>1, <3>2
    <3> QED BY <2>2, <3>3 DEF L, more
  <2>3. CASE job.phase = 2
    <3> DEFINE more == Append(L.vin, item)
    <3>1. more \in Seq(Outputs)
      BY <1>6, <2>1, <2>3, AppendProperties
    <3>2. locals = [L EXCEPT !.vin = more]
      BY <2>3, PhasesFacts DEF L, Returned
    <3> HIDE DEF locals, more
    <3>3. /\ locals \in [vout : Seq(Outputs), vin : Seq(Outputs), tx : Seq(Txids)]
          /\ locals.vin = more
          /\ locals.vout = L.vout /\ locals.tx = L.tx
      BY <2>1, <3>1, <3>2
    <3> QED BY <2>3, <3>3 DEF L, more
  <2>4. CASE job.phase = 3
    <3> DEFINE more == Append(L.tx, item)
    <3>1. more \in Seq(Txids)
      BY <1>6, <2>1, <2>4, AppendProperties
    <3>2. locals = [L EXCEPT !.tx = more]
      BY <2>4, PhasesFacts DEF L, Returned
    <3> HIDE DEF locals, more
    <3>3. /\ locals \in [vout : Seq(Outputs), vin : Seq(Outputs), tx : Seq(Txids)]
          /\ locals.tx = more
          /\ locals.vout = L.vout /\ locals.vin = L.vin
      BY <2>1, <3>1, <3>2
    <3> QED BY <2>4, <3>3 DEF L, more
  <2>5. CASE job.phase = 4
    <3>1. locals = L
      BY <2>5, PhasesFacts DEF L, Returned
    <3> HIDE DEF locals
    <3> QED BY <2>1, <2>5, <3>1 DEF L
  <2> QED BY <1>3, <2>2, <2>3, <2>4, <2>5
<1>8. job' = [job EXCEPT !.bag = Tail(job.bag), !.called = job.called \cup {phase}, !.locals = locals]
  BY <1>1
<1> HIDE DEF phase, item, locals
<1>10. /\ job' \in Job /\ job'.kind = job.kind /\ job'.block = job.block
       /\ job'.last = job.last /\ job'.phase = job.phase /\ job'.bag = Tail(job.bag)
       /\ job'.locals = locals
  BY <1>2, <1>4, <1>6, <1>7, <1>8 DEF Job
<1> QED BY <1>1, <1>2, <1>3, <1>4, <1>5, <1>6, <1>7, <1>10 DEF phase, item

(* One call hands one item over: the rest of the source is as it was.      *)
LEMMA WalkedStep ==
  ASSUME NEW E, NEW p \in {1, 2, 3}, NEW source, NEW done \in Seq(E), NEW then,
         NEW bag, job.bag = bag, bag # <<>>, job.phase = p => bag \in Seq(E),
         Walked(p, source, done),
         job.phase \in {1, 2, 3, 4}, job'.phase = job.phase, job'.bag = Tail(bag),
         job.phase = p => then = Append(done, Head(bag)),
         job.phase # p => then = done,
         Txs' = Txs, descriptor' = descriptor
  PROVE  /\ job'.phase < p => then = Nothing
         /\ job'.phase = p => then \o job'.bag = Full(descriptor'.sources, Txs', source)
         /\ job'.phase > p => then = Full(descriptor'.sources, Txs', source)
<1>1. CASE job.phase = p
  <2>1. bag \in Seq(E)
    BY <1>1
  <2>2. \A all : all = done \o bag => Append(done, Head(bag)) \o Tail(bag) = all
    BY <2>1, MoveHead
  <2>3. then \o job'.bag = done \o bag
    BY <1>1, <2>2
  <2>4. done \o bag = Full(descriptor.sources, Txs, source)
    <3>1. done \o job.bag = Full(descriptor.sources, Txs, source)
      BY <1>1 DEF Walked
    <3> QED BY <3>1
  <2>5. Full(descriptor'.sources, Txs', source) = Full(descriptor.sources, Txs, source)
    OBVIOUS
  <2>6. then \o job'.bag = Full(descriptor'.sources, Txs', source)
    BY <2>3, <2>4, <2>5
  <2>7. ~(job'.phase < p) /\ ~(job'.phase > p)
    BY <1>1
  <2> QED BY <2>6, <2>7
<1>2. CASE job.phase < p
  BY <1>2 DEF Walked
<1>3. CASE job.phase > p
  BY <1>3 DEF Walked
<1> QED BY <1>1, <1>2, <1>3

LEMMA CallStep == IInv /\ Call => IInv'
<1> SUFFICES ASSUME IInv, Call PROVE IInv'
  OBVIOUS
<1> DEFINE phase == Phases[job.phase]
           item  == Head(job.bag)
           event == [type |-> IF phase = "vout" THEN "created" ELSE "spent",
                     out |-> item, height |-> job.block]
<1>1. /\ phase \in {"vout", "vin"} => ApplyEvent("command", event)
      /\ phase \notin {"vout", "vin"} => UNCHANGED <<inst, object>>
      /\ UNCHANGED <<descriptor, pc, rows, height, failures, reorgs>>
  BY DEF Call
<1>2. /\ pc = "walking" /\ job.bag # <<>> /\ job.kind # "none"
      /\ job.kind = "tick" => job.phase \in {3, 4}
      /\ job' \in Job /\ job'.kind = job.kind /\ job'.block = job.block
      /\ job'.last = job.last /\ job'.phase = job.phase /\ job'.bag = Tail(job.bag)
      /\ job'.locals.vout = (IF job.phase = 1 THEN Append(job.locals.vout, item) ELSE job.locals.vout)
      /\ job'.locals.vin = (IF job.phase = 2 THEN Append(job.locals.vin, item) ELSE job.locals.vin)
      /\ job'.locals.tx = (IF job.phase = 3 THEN Append(job.locals.tx, item) ELSE job.locals.tx)
      /\ job.phase \in {1, 2} => item \in Outputs /\ Tail(job.bag) \in Seq(Outputs)
      /\ job.phase = 3 => item \in Txids /\ Tail(job.bag) \in Seq(Txids)
  BY CallJob
<1>3. /\ job.phase \in {1, 2, 3, 4} /\ job \in Job
      /\ job.locals.vout \in Seq(Outputs) /\ job.locals.vin \in Seq(Outputs)
      /\ job.locals.tx \in Seq(Txids)
      /\ job.phase \in {1, 2} => job.bag \in Seq(Outputs)
      /\ job.phase = 3 => job.bag \in Seq(Txids)
  BY CallJob DEF IInv, JobInv, Job
<1>4. JobInv'
  BY <1>1, <1>2, <1>3 DEF IInv, JobInv
<1>5. LocalsInv'
  <2>1. Txs' = Txs /\ descriptor' = descriptor
    BY <1>1, <1>2 DEF Txs
  <2>2. /\ Walked(1, "vout", job.locals.vout) /\ Walked(2, "vin", job.locals.vin)
        /\ Walked(3, "tx", job.locals.tx)
    BY <1>2 DEF IInv, LocalsInv
  <2>3. Walked(1, "vout", job.locals.vout)'
    <3> DEFINE done == job.locals.vout
               then == job'.locals.vout
               bag == job.bag
    <3>1. /\ done \in Seq(Outputs) /\ Walked(1, "vout", done)
          /\ job.bag = bag /\ bag # <<>> /\ job'.bag = Tail(bag)
          /\ job.phase = 1 => then = Append(done, Head(bag)) /\ bag \in Seq(Outputs)
          /\ job.phase # 1 => then = done
      BY <1>2, <1>3, <2>2
    <3> HIDE DEF done, then, bag
    <3>2. /\ job'.phase < 1 => then = Nothing
          /\ job'.phase = 1 => then \o job'.bag = Full(descriptor'.sources, Txs', "vout")
          /\ job'.phase > 1 => then = Full(descriptor'.sources, Txs', "vout")
      BY <1>2, <1>3, <2>1, <3>1, WalkedStep
    <3> QED BY <3>2 DEF Walked, then
  <2>4. Walked(2, "vin", job.locals.vin)'
    <3> DEFINE done == job.locals.vin
               then == job'.locals.vin
               bag == job.bag
    <3>1. /\ done \in Seq(Outputs) /\ Walked(2, "vin", done)
          /\ job.bag = bag /\ bag # <<>> /\ job'.bag = Tail(bag)
          /\ job.phase = 2 => then = Append(done, Head(bag)) /\ bag \in Seq(Outputs)
          /\ job.phase # 2 => then = done
      BY <1>2, <1>3, <2>2
    <3> HIDE DEF done, then, bag
    <3>2. /\ job'.phase < 2 => then = Nothing
          /\ job'.phase = 2 => then \o job'.bag = Full(descriptor'.sources, Txs', "vin")
          /\ job'.phase > 2 => then = Full(descriptor'.sources, Txs', "vin")
      BY <1>2, <1>3, <2>1, <3>1, WalkedStep, SMTT(30)
    <3> QED BY <3>2 DEF Walked, then
  <2>5. Walked(3, "tx", job.locals.tx)'
    <3> DEFINE done == job.locals.tx
               then == job'.locals.tx
               bag == job.bag
    <3>1. /\ done \in Seq(Txids) /\ Walked(3, "tx", done)
          /\ job.bag = bag /\ bag # <<>> /\ job'.bag = Tail(bag)
          /\ job.phase = 3 => then = Append(done, Head(bag)) /\ bag \in Seq(Txids)
          /\ job.phase # 3 => then = done
      BY <1>2, <1>3, <2>2
    <3> HIDE DEF done, then, bag
    <3>2. /\ job'.phase < 3 => then = Nothing
          /\ job'.phase = 3 => then \o job'.bag = Full(descriptor'.sources, Txs', "tx")
          /\ job'.phase > 3 => then = Full(descriptor'.sources, Txs', "tx")
      BY <1>2, <1>3, <2>1, <3>1, WalkedStep
    <3> QED BY <3>2 DEF Walked, then
  <2> QED BY <2>3, <2>4, <2>5 DEF LocalsInv
<1> HIDE DEF item
(* In the first two phases a block is processed, and an event applied.     *)
<1>6. CASE job.phase \in {1, 2}
  <2> DEFINE S == descriptor.sources
             h == job.block
             made == Named("created", job.locals.vout, h)
             gone == Named("spent", job.locals.vin, h)
  <2>1. job.kind = "block"
    BY <1>2, <1>6 DEF IInv, JobInv, Job
  <2>2. /\ h \in 1..Len(Blocks) /\ h \in 0..Len(Blocks) /\ h - 1 \in 0..Len(Blocks)
        /\ made \in Seq(Event) /\ gone \in Seq(Event) /\ SoFar = made \o gone /\ SoFar \in Seq(Event)
    BY <2>1, SoFarType DEF IInv, SoFar
  <2>3. event \in Event
    BY <1>2, <1>6, <2>2 DEF Event
  <2>4. "command" \in Actors /\ "query" \in Actors /\ \A a \in Actors : a = "command" \/ a = "query"
    BY DEF Actors
  <2>5. phase \in {"vout", "vin"} /\ (phase = "vout" <=> job.phase = 1)
    BY <1>6, PhasesFacts
  <2> HIDE DEF event, phase
  <2>6. /\ inst' \in [Actors -> Instance] /\ object' \in State
        /\ inst'["command"].live = inst["command"].live
        /\ inst'["command"].seen = Append(inst["command"].seen, event)
        /\ ~Shared => inst'["command"].state = Reduce(inst["command"].state, event)
        /\ inst'["query"] = inst["query"]
    BY <1>1, <2>3, <2>4, <2>5, ApplyEventType DEF IInv, Typed
  <2>7. Typed'
    BY <1>1, <2>6 DEF IInv, Typed
  <2>8. SoFar' = Append(SoFar, event)
    <3>0. SoFar' = Named("created", job'.locals.vout, h) \o Named("spent", job'.locals.vin, h)
      BY <1>2 DEF SoFar
    <3>1. CASE job.phase = 1
      <4>1. job'.locals.vout = Append(job.locals.vout, item) /\ job'.locals.vin = job.locals.vin
        BY <1>2, <3>1
      <4>2. job.locals.vin = <<>>
        <5>1. job.phase < 2
          BY <3>1
        <5> QED BY <1>2, <5>1 DEF IInv, LocalsInv, Walked, Nothing
      <4>3. event = [type |-> "created", out |-> item, height |-> h]
        BY <2>5, <3>1 DEF event
      <4>4. Named("created", Append(job.locals.vout, item), h) = Append(made, event)
        BY <1>2, <1>3, <1>6, <4>3, NamedFacts
      <4>5. gone = <<>>
        BY <4>2, NamedNil
      <4>6. SoFar' = Append(made, event) \o gone
        BY <3>0, <4>1, <4>4
      <4>7. Append(made, event) \in Seq(Event)
        BY <2>2, <2>3, AppendProperties
      <4> HIDE DEF made, gone
      <4> QED BY <2>2, <4>5, <4>6, <4>7, ConcatEmptySeq
    <3>2. CASE job.phase = 2
      <4>1. job'.locals.vin = Append(job.locals.vin, item) /\ job'.locals.vout = job.locals.vout
        BY <1>2, <3>2
      <4>2. event = [type |-> "spent", out |-> item, height |-> h]
        BY <2>5, <3>2 DEF event
      <4>3. Named("spent", Append(job.locals.vin, item), h) = Append(gone, event)
        BY <1>2, <1>3, <1>6, <4>2, NamedFacts
      <4>4. SoFar' = made \o Append(gone, event)
        BY <3>0, <4>1, <4>3
      <4> HIDE DEF made, gone
      <4> QED BY <2>2, <2>3, <4>4, AppendToConcat
    <3> QED BY <1>6, <3>1, <3>2
  <2>9. EventsInv'
    <3>1. inst["command"].seen = Chain(S, h - 1) \o SoFar
      BY <2>1 DEF IInv, EventsInv
    <3>2. Chain(S, h - 1) \in Seq(Event)
      BY <2>2, ChainIsEvents
    <3>3. Append(Chain(S, h - 1) \o SoFar, event) = Chain(S, h - 1) \o Append(SoFar, event)
      <4> DEFINE x == Chain(S, h - 1)
                 y == SoFar
      <4>1. x \in Seq(Event) /\ y \in Seq(Event)
        BY <2>2, <3>2
      <4> HIDE DEF x, y
      <4>2. \A z, w : z = x \o y /\ w = x \o Append(y, event) => Append(z, event) = w
        BY <2>3, <4>1, AppendToConcat
      <4> QED BY <4>2 DEF x, y
    <3>4. inst'["command"].seen = Chain(S, h - 1) \o SoFar'
      BY <2>6, <2>8, <3>1, <3>3
    <3> QED BY <1>1, <1>2, <2>1, <2>6, <3>4 DEF IInv, EventsInv
  <2>10. Replayed'
    <3> SUFFICES ASSUME ~Shared, NEW a \in Actors, inst'[a].live
                 PROVE  inst'[a].state = Replay(InitialState, inst'[a].seen)
      BY <1>1 DEF Replayed, Shared
    <3>1. CASE a = "command"
      <4>1. inst["command"].state = Replay(InitialState, inst["command"].seen)
        BY <2>4, <2>6, <3>1 DEF IInv, Replayed
      <4>2. inst["command"].seen \in Seq(Emitted) /\ event \in Emitted
        BY <2>3, <2>4, EventFacts DEF IInv, Typed, Instance
      <4>3. Replay(InitialState, Append(inst["command"].seen, event)) =
              Reduce(Replay(InitialState, inst["command"].seen), event)
        BY <4>2, ReplayAppend
      <4> QED BY <2>6, <3>1, <4>1, <4>3
    <3>2. CASE a = "query"
      BY <2>6, <3>2 DEF IInv, Replayed
    <3> QED BY <2>4, <3>1, <3>2
  <2> QED BY <1>4, <1>5, <2>7, <2>9, <2>10 DEF IInv
(* In the others no event.                                                 *)
<1>7. CASE job.phase \in {3, 4}
  <2>1. UNCHANGED <<inst, object>>
    BY <1>1, <1>7, PhasesFacts
  <2>2. /\ job'.locals.vout = job.locals.vout
        /\ job'.locals.vin = job.locals.vin
    BY <1>2, <1>3, <1>7, PhasesFacts
  <2>3. SoFar' = SoFar
    BY <1>2, <2>2 DEF SoFar
  <2>4. Typed' /\ EventsInv' /\ Replayed'
    BY <1>1, <1>2, <2>1, <2>3 DEF IInv, Typed, EventsInv, Replayed, Shared
  <2> QED BY <1>4, <1>5, <2>4 DEF IInv
<1> QED BY <1>3, <1>6, <1>7

(* The next block of the batch, on the same instance.                      *)
LEMMA NextBlockStep == IInv /\ NextBlock => IInv'
<1> SUFFICES ASSUME IInv, NextBlock PROVE IInv'
  OBVIOUS
<1> DEFINE S == descriptor.sources
           next == job.block + 1
           last == job.last
<1>1. /\ pc = "walking" /\ Ended /\ job.block < last
      /\ job' = [NoJob EXCEPT !.kind = "block", !.block = next, !.last = last]
      /\ UNCHANGED <<descriptor, pc, rows, height, object, inst, failures, reorgs>>
  BY DEF NextBlock
<1>2. job \in Job /\ job.kind = "block" /\ last \in 0..Len(Blocks)
  BY <1>1, BlocksFacts DEF IInv, JobInv, Job
<1>3. next \in 0..Len(Blocks) /\ next >= 1 /\ next <= last /\ next - 1 = job.block
  BY <1>1, <1>2, BlocksFacts DEF Job
<1> HIDE DEF next, last
<1>4. /\ job' \in Job /\ job'.kind = "block" /\ job'.block = next /\ job'.last = last
      /\ job'.phase = 0 /\ job'.bag = <<>> /\ job'.locals = NoLocals
  BY <1>1, <1>2, <1>3, NoJobFacts DEF NoJob, Job
<1>5. Typed'
  BY <1>1 DEF IInv, Typed
<1>6. JobInv'
  BY <1>1, <1>3, <1>4 DEF JobInv
<1>7. NoLocals.vout = <<>> /\ NoLocals.vin = <<>> /\ NoLocals.tx = <<>>
  BY DEF NoLocals
<1>8. LocalsInv'
  <2>1. /\ Walked(1, "vout", job.locals.vout)' /\ Walked(2, "vin", job.locals.vin)'
        /\ Walked(3, "tx", job.locals.tx)'
    BY <1>4, <1>7 DEF Walked, Nothing
  <2> QED BY <2>1 DEF LocalsInv
<1>9. SoFar' = <<>>
  <2>1. SoFar' = <<>> \o <<>>
    BY <1>4, <1>7, NamedNil DEF SoFar
  <2> QED BY <2>1, EmptySeq, ConcatEmptySeq
<1>10. inst["command"].seen = Chain(S, next - 1) \o <<>>
  <2>1. inst["command"].seen = Chain(S, job.block)
    BY <1>1, <1>2, EndedIsChain
  <2>2. job.block \in 0..Len(Blocks)
    BY <1>2 DEF Job
  <2> QED BY <1>3, <2>1, <2>2, ChainIsEvents, ConcatEmptySeq
<1>11. EventsInv'
  BY <1>1, <1>2, <1>4, <1>9, <1>10 DEF IInv, EventsInv
<1>12. Replayed'
  BY <1>1 DEF IInv, Replayed, Shared
<1> QED BY <1>5, <1>6, <1>8, <1>11, <1>12 DEF IInv

(* A command ends: its instance is dropped, and the rows are a chain's.    *)
LEMMA EndStep ==
  ASSUME IInv, pc' = "idle", job' = NoJob, Drop("command"), UNCHANGED <<descriptor, object>>,
         height' \in 0..Len(Blocks), rows' = Chain(descriptor.sources, height'),
         failures' \in 0..MaxFailures, reorgs' \in 0..MaxReorgs
  PROVE  IInv'
<1>1. /\ "command" \in Actors /\ "query" \in Actors /\ "command" # "query"
      /\ \A a \in Actors : a = "command" \/ a = "query"
  BY DEF Actors
<1>2. /\ inst' \in [Actors -> Instance] /\ ~inst'["command"].live
      /\ inst'["query"] = inst["query"]
  BY <1>1, DropType DEF IInv, Typed
<1>3. rows' \in Seq(Event)
  BY ChainIsEvents
<1>4. Typed'
  BY <1>2, <1>3 DEF IInv, Typed
<1>5. job'.kind = "none" /\ job' \in Job /\ JobInv'
  BY NoJobFacts DEF JobInv
<1>6. LocalsInv'
  BY <1>5 DEF LocalsInv
<1>7. EventsInv'
  BY <1>2, <1>5 DEF IInv, EventsInv
<1>8. Replayed'
  BY <1>1, <1>2 DEF IInv, Replayed, Shared
<1> QED BY <1>4, <1>5, <1>6, <1>7, <1>8 DEF IInv

LEMMA SaveStep == IInv /\ Save => IInv'
<1> SUFFICES ASSUME IInv, Save PROVE IInv'
  OBVIOUS
<1>1. /\ pc = "walking" /\ Ended /\ job.block = job.last
      /\ rows' = inst["command"].seen
      /\ height' = IF job.kind = "block" THEN job.last ELSE height
      /\ Drop("command") /\ job' = NoJob /\ pc' = "idle"
      /\ UNCHANGED <<descriptor, object, failures, reorgs>>
  BY DEF Save
<1>2. height' \in 0..Len(Blocks) /\ rows' = Chain(descriptor.sources, height')
  <2>1. CASE job.kind = "block"
    <3>1. height' = job.block /\ job.block \in 0..Len(Blocks)
      BY <1>1, <2>1 DEF IInv, JobInv, Job
    <3> QED BY <1>1, <2>1, <3>1, EndedIsChain
  <2>2. CASE job.kind = "tick"
    BY <1>1, <2>2 DEF IInv, Typed, EventsInv
  <2> QED BY <1>1, <2>1, <2>2 DEF IInv, JobInv, Job
<1>3. failures' \in 0..MaxFailures /\ reorgs' \in 0..MaxReorgs
  BY <1>1 DEF IInv, Typed
<1> QED BY <1>1, <1>2, <1>3, EndStep

(* A command that fails leaves the rows as they were.                      *)
LEMMA AbortStep ==
  ASSUME IInv, Abort, failures' \in 0..MaxFailures
  PROVE  IInv'
<1>1. /\ pc' = "idle" /\ job' = NoJob /\ Drop("command")
      /\ UNCHANGED <<descriptor, rows, height, object, reorgs>>
  BY DEF Abort
<1>2. height' \in 0..Len(Blocks) /\ rows' = Chain(descriptor.sources, height')
  BY <1>1 DEF IInv, Typed, EventsInv
<1>3. reorgs' \in 0..MaxReorgs
  BY <1>1 DEF IInv, Typed
<1> QED BY <1>1, <1>2, <1>3, EndStep

LEMMA HandlerThrowsStep == IInv /\ HandlerThrows => IInv'
<1> SUFFICES ASSUME IInv, HandlerThrows PROVE IInv'
  OBVIOUS
<1>1. Abort /\ failures' \in 0..MaxFailures
  BY DEF HandlerThrows, IInv, Typed
<1> QED BY <1>1, AbortStep

LEMMA FailStep == IInv /\ Fail => IInv'
<1> SUFFICES ASSUME IInv, Fail PROVE IInv'
  OBVIOUS
<1>1. Abort /\ failures' \in 0..MaxFailures
  BY DescriptorsAssumption DEF Fail, IInv, Typed
<1> QED BY <1>1, AbortStep

(* The rows up to a height are the chain up to it.                         *)
LEMMA ReorganiseStep == IInv /\ Reorganise => IInv'
<1> SUFFICES ASSUME IInv, NEW h \in 0..(height - 1), pc = "idle", reorgs < MaxReorgs,
                    reorgs' = reorgs + 1, rows' = UpTo(rows, h), height' = h,
                    UNCHANGED <<descriptor, pc, object, inst, job, failures>>
             PROVE  IInv'
  BY DEF Reorganise
<1>1. /\ height \in 0..Len(Blocks) /\ h \in 0..height /\ h \in 0..Len(Blocks)
      /\ reorgs' \in 0..MaxReorgs
  BY BlocksFacts, DescriptorsAssumption DEF IInv, Typed
<1>2. rows' = Chain(descriptor.sources, h)
  BY <1>1, UpToChain DEF IInv, EventsInv
<1>3. Typed'
  BY <1>1, <1>2, ChainIsEvents DEF IInv, Typed
<1>4. JobInv'
  BY DEF IInv, JobInv
<1>5. LocalsInv'
  BY LocalsInvSame DEF IInv
<1>6. job.kind = "none"
  BY DEF IInv, JobInv
<1>7. EventsInv'
  BY <1>2, <1>6 DEF IInv, EventsInv
<1>8. Replayed'
  BY DEF IInv, Replayed, Shared
<1> QED BY <1>3, <1>4, <1>5, <1>7, <1>8 DEF IInv

(* A query's instance is its own: the command's is as it was.              *)
LEMMA QueryStep == IInv /\ Query => IInv'
<1> SUFFICES ASSUME IInv, NEW h \in 0..height, Restore("query", UpTo(rows, h)),
                    UNCHANGED <<descriptor, pc, rows, height, job, failures, reorgs>>
             PROVE  IInv'
  BY DEF Query
<1> DEFINE events == UpTo(rows, h)
<1>1. height \in 0..Len(Blocks) /\ h \in 0..Len(Blocks)
  BY BlocksFacts DEF IInv, Typed
<1>2. events = Chain(descriptor.sources, h)
  BY <1>1, UpToChain DEF IInv, EventsInv
<1>3. events \in Seq(Event)
  BY <1>1, <1>2, ChainIsEvents
<1>4. /\ "command" \in Actors /\ "query" \in Actors /\ "command" # "query"
      /\ \A a \in Actors : a = "command" \/ a = "query"
  BY DEF Actors
<1> HIDE DEF events
<1>5. /\ inst' \in [Actors -> Instance] /\ object' \in State
      /\ inst'["query"].live /\ inst'["query"].seen = events
      /\ ~Shared => inst'["query"].state = Replay(InitialState, events)
      /\ inst'["command"] = inst["command"]
  <2>1. Restore("query", events)
    BY DEF events
  <2> QED BY <1>3, <1>4, <2>1, RestoreType DEF IInv, Typed
<1>6. Typed'
  BY <1>5 DEF IInv, Typed
<1>7. JobInv'
  BY DEF IInv, JobInv
<1>8. LocalsInv'
  BY LocalsInvSame DEF IInv
<1>9. SoFar' = SoFar
  BY DEF SoFar
<1>10. EventsInv'
  BY <1>1, <1>2, <1>5, <1>9 DEF IInv, EventsInv
<1>11. Replayed'
  BY <1>4, <1>5 DEF IInv, Replayed, Shared
<1> QED BY <1>6, <1>7, <1>8, <1>10, <1>11 DEF IInv

LEMMA AnswerStep == IInv /\ Answer => IInv'
<1> SUFFICES ASSUME IInv, Answer PROVE IInv'
  OBVIOUS
<1>1. /\ Drop("query")
      /\ UNCHANGED <<descriptor, pc, rows, height, object, job, failures, reorgs>>
  BY DEF Answer
<1>2. /\ "command" \in Actors /\ "query" \in Actors /\ "command" # "query"
      /\ \A a \in Actors : a = "command" \/ a = "query"
  BY DEF Actors
<1>3. /\ inst' \in [Actors -> Instance] /\ ~inst'["query"].live
      /\ inst'["command"] = inst["command"]
  BY <1>1, <1>2, DropType DEF IInv, Typed
<1>4. Typed'
  BY <1>1, <1>3 DEF IInv, Typed
<1>5. JobInv'
  BY <1>1 DEF IInv, JobInv
<1>6. LocalsInv'
  BY <1>1, LocalsInvSame DEF IInv
<1>7. SoFar' = SoFar
  BY <1>1 DEF SoFar
<1>8. EventsInv'
  BY <1>1, <1>3, <1>7 DEF IInv, EventsInv
<1>9. Replayed'
  BY <1>1, <1>2, <1>3 DEF IInv, Replayed, Shared
<1> QED BY <1>4, <1>5, <1>6, <1>8, <1>9 DEF IInv

LEMMA StutterStep == IInv /\ UNCHANGED vars => IInv'
<1> SUFFICES ASSUME IInv, UNCHANGED vars PROVE IInv'
  OBVIOUS
<1>1. UNCHANGED <<descriptor, pc, rows, height, object, inst, job, failures, reorgs>>
  BY DEF vars
<1>2. Typed'
  BY <1>1 DEF IInv, Typed
<1>3. JobInv'
  BY <1>1 DEF IInv, JobInv
<1>4. LocalsInv'
  BY <1>1, LocalsInvSame DEF IInv
<1>5. EventsInv'
  BY <1>1 DEF IInv, EventsInv, SoFar
<1>6. Replayed'
  BY <1>1 DEF IInv, Replayed, Shared
<1> QED BY <1>2, <1>3, <1>4, <1>5, <1>6 DEF IInv

LEMMA InductiveInvariant == Spec => []IInv
<1>1. IInv /\ [Next]_vars => IInv'
  BY NormalizeStep, StartBatchStep, StartTickStep, EnterStep, CallStep, NextBlockStep, SaveStep,
     HandlerThrowsStep, FailStep, ReorganiseStep, QueryStep, AnswerStep, StutterStep DEF Next
<1> QED BY <1>1, InitIInv, PTL DEF Spec

-----------------------------------------------------------------------------
(* A valid chain never overspends: of the outputs created, those that are  *)
(* not spent count one and all others none.                                *)

Unspent(C, X) == [o \in Outputs |-> IF o \in C /\ o \notin X THEN 1 ELSE 0]

Created(S, n) == UNION {ToSet(Full(S, Blocks[d], "vout")) : d \in 1..n}

Spent(S, n) == UNION {ToSet(Full(S, Blocks[d], "vin")) : d \in 1..n}

LEMMA AppendFacts ==
  ASSUME NEW E, NEW s \in Seq(E), NEW e \in E
  PROVE  /\ ToSet(Append(s, e)) = ToSet(s) \cup {e}
         /\ IsInjective(Append(s, e)) => IsInjective(s) /\ e \notin ToSet(s)
<1> DEFINE n == Len(s)
           t == Append(s, e)
<1>1. /\ n \in Nat /\ DOMAIN s = 1..n /\ DOMAIN t = 1..(n + 1)
      /\ \A i \in 1..n : t[i] = s[i]
      /\ t[n + 1] = e
  BY AppendProperties, LenProperties
<1> HIDE DEF n, t
<1>2. \A i \in 1..(n + 1) : i \in 1..n \/ i = n + 1
  BY <1>1
<1>3. \A i \in 1..n : i \in 1..(n + 1) /\ i # n + 1
  BY <1>1
<1>4. n + 1 \in 1..(n + 1)
  BY <1>1
<1>5. ToSet(t) = ToSet(s) \cup {e}
  BY <1>1, <1>2, <1>3, <1>4 DEF ToSet
<1>6. ASSUME IsInjective(t) PROVE IsInjective(s) /\ e \notin ToSet(s)
  <2>1. \A i, j \in 1..(n + 1) : t[i] = t[j] => i = j
    BY <1>1, <1>6 DEF IsInjective
  <2>2. IsInjective(s)
    BY <1>1, <1>3, <2>1 DEF IsInjective
  <2>3. \A i \in 1..n : s[i] # e
    BY <1>1, <1>3, <1>4, <2>1
  <2> QED BY <1>1, <2>2, <2>3 DEF ToSet
<1> QED BY <1>5, <1>6 DEF t

LEMMA PrefixFacts ==
  ASSUME NEW E, NEW s \in Seq(E), NEW t \in Seq(E)
  PROVE  /\ ToSet(s) \subseteq ToSet(s \o t)
         /\ IsInjective(s \o t) => IsInjective(s)
<1> DEFINE u == s \o t
<1>1. /\ Len(s) \in Nat /\ Len(t) \in Nat
      /\ DOMAIN s = 1..Len(s) /\ DOMAIN u = 1..(Len(s) + Len(t))
      /\ \A i \in 1..Len(s) : u[i] = s[i]
  BY ConcatProperties, LenProperties
<1> HIDE DEF u
<1>2. \A i \in 1..Len(s) : i \in 1..(Len(s) + Len(t))
  BY <1>1
<1>3. ToSet(s) \subseteq ToSet(u)
  BY <1>1, <1>2 DEF ToSet
<1>4. IsInjective(u) => IsInjective(s)
  BY <1>1, <1>2 DEF IsInjective
<1> QED BY <1>3, <1>4 DEF u

LEMMA ReverseInjective ==
  ASSUME NEW E, NEW s \in Seq(E), IsInjective(s)
  PROVE  IsInjective(Reverse(s))
<1> DEFINE n == Len(s)
<1>1. n \in Nat /\ DOMAIN s = 1..n
  BY LenProperties
<1>2. Reverse(s) = [i \in 1..n |-> s[(n - i) + 1]]
  BY DEF Reverse
<1> HIDE DEF n
<1>3. \A i \in 1..n : (n - i) + 1 \in 1..n
  BY <1>1
<1>4. \A i, j \in 1..n : (n - i) + 1 = (n - j) + 1 => i = j
  BY <1>1
<1> QED BY <1>1, <1>2, <1>3, <1>4 DEF IsInjective

(* The counts after creating new outputs.                                  *)
LEMMA CreateAll ==
  ASSUME NEW C, NEW X \in SUBSET C, NEW h \in Int, NEW outs \in Seq(Outputs),
         IsInjective(outs), ToSet(outs) \cap C = {}
  PROVE  Replay(Unspent(C, X), Named("created", outs, h)) = Unspent(C \cup ToSet(outs), X)
<1> DEFINE P(s) == Replay(Unspent(C, X), Named("created", s, h)) = Unspent(C \cup ToSet(s), X)
           T == {s \in Seq(Outputs) : IsInjective(s) /\ ToSet(s) \cap C = {} => P(s)}
<1>1. <<>> \in T
  <2>1. <<>> \in Seq(Outputs) /\ ToSet(<<>>) = {}
    BY EmptySeq DEF ToSet
  <2>2. P(<<>>)
    <3>1. C \cup ToSet(<<>>) = C
      BY <2>1
    <3> QED BY <3>1, NamedNil, ReplayNil
  <2> QED BY <2>1, <2>2
<1>2. ASSUME NEW s \in Seq(Outputs), NEW o \in Outputs, s \in T PROVE Append(s, o) \in T
  <2> DEFINE t == Append(s, o)
             e == [type |-> "created", out |-> o, height |-> h]
             D == C \cup ToSet(s)
             evs == Named("created", s, h)
  <2>1. t \in Seq(Outputs) /\ ToSet(t) = ToSet(s) \cup {o}
        /\ (IsInjective(t) => IsInjective(s) /\ o \notin ToSet(s))
    BY AppendFacts, AppendProperties
  <2>2. Named("created", t, h) = Append(evs, e)
    BY NamedFacts
  <2>3. evs \in Seq(Emitted) /\ e \in Emitted
    <3>1. evs \in Seq(AtHeight(h)) /\ AtHeight(h) \subseteq Emitted
      BY NamedFacts DEF AtHeight, Emitted
    <3>2. e \in Emitted
      BY DEF Emitted
    <3> HIDE DEF evs
    <3> QED BY <3>1, <3>2, SeqMonotonic
  <2> SUFFICES ASSUME IsInjective(t), ToSet(t) \cap C = {} PROVE P(t)
    BY <2>1
  <2> HIDE DEF t, e, evs
  <2>4. Replay(Unspent(C, X), evs) = Unspent(D, X) /\ o \notin D
    BY <1>2, <2>1 DEF evs
  <2> DEFINE u == Unspent(D, X)
  <2>5. Replay(Unspent(C, X), Named("created", t, h)) = Reduce(u, e)
    <3> DEFINE i == Unspent(C, X)
    <3> HIDE DEF i
    <3>1. Replay(i, Append(evs, e)) = Reduce(Replay(i, evs), e)
      BY <2>3, ReplayAppend
    <3> QED BY <2>2, <2>4, <3>1 DEF i
  <2>6. u \in State
    BY DEF Unspent, State
  <2>7. e.type = "created" /\ e.out = o
    BY DEF e
  <2>8. C \cup ToSet(t) = D \cup {o}
    BY <2>1
  <2>9. Reduce(u, e) = Unspent(D \cup {o}, X)
    <3>1. Reduce(u, e) \in State /\ \A p \in Outputs :
            Reduce(u, e)[p] = IF p # o THEN u[p] ELSE u[o] + 1
      <4> HIDE DEF u
      <4> QED BY <2>3, <2>6, <2>7, ReduceType
    <3>2. u[o] = 0 /\ o \notin X
      BY <2>4 DEF Unspent
    <3>3. \A p \in Outputs : Reduce(u, e)[p] = Unspent(D \cup {o}, X)[p]
      BY <3>1, <3>2 DEF Unspent
    <3>4. Unspent(D \cup {o}, X) \in State
      BY DEF Unspent, State
    <3> DEFINE v == Reduce(u, e)
               w == Unspent(D \cup {o}, X)
    <3> HIDE DEF v, w
    <3>5. v = w
      <4>1. v \in State /\ w \in State /\ \A p \in Outputs : v[p] = w[p]
        BY <3>1, <3>3, <3>4 DEF v, w
      <4> QED BY <4>1 DEF State
    <3> QED BY <3>5 DEF v, w
  <2> QED BY <2>5, <2>8, <2>9
<1> HIDE DEF T
<1>3. outs \in T
  BY <1>1, <1>2, F!SeqInduction
<1> QED BY <1>3 DEF T

(* The counts after spending outputs that were there.                      *)
LEMMA SpendAll ==
  ASSUME NEW C, NEW X \in SUBSET C, NEW h \in Int, NEW outs \in Seq(Outputs),
         IsInjective(outs), ToSet(outs) \subseteq C \ X
  PROVE  Replay(Unspent(C, X), Named("spent", outs, h)) = Unspent(C, X \cup ToSet(outs))
<1> DEFINE P(s) == Replay(Unspent(C, X), Named("spent", s, h)) = Unspent(C, X \cup ToSet(s))
           T == {s \in Seq(Outputs) : IsInjective(s) /\ ToSet(s) \subseteq C \ X => P(s)}
<1>1. <<>> \in T
  <2>1. <<>> \in Seq(Outputs) /\ ToSet(<<>>) = {}
    BY EmptySeq DEF ToSet
  <2>2. P(<<>>)
    <3>1. X \cup ToSet(<<>>) = X
      BY <2>1
    <3> QED BY <3>1, NamedNil, ReplayNil
  <2> QED BY <2>1, <2>2
<1>2. ASSUME NEW s \in Seq(Outputs), NEW o \in Outputs, s \in T PROVE Append(s, o) \in T
  <2> DEFINE t == Append(s, o)
             e == [type |-> "spent", out |-> o, height |-> h]
             D == X \cup ToSet(s)
             evs == Named("spent", s, h)
  <2>1. t \in Seq(Outputs) /\ ToSet(t) = ToSet(s) \cup {o}
        /\ (IsInjective(t) => IsInjective(s) /\ o \notin ToSet(s))
    BY AppendFacts, AppendProperties
  <2>2. Named("spent", t, h) = Append(evs, e)
    BY NamedFacts
  <2>3. evs \in Seq(Emitted) /\ e \in Emitted
    <3>1. evs \in Seq(AtHeight(h)) /\ AtHeight(h) \subseteq Emitted
      BY NamedFacts DEF AtHeight, Emitted
    <3>2. e \in Emitted
      BY DEF Emitted
    <3> HIDE DEF evs
    <3> QED BY <3>1, <3>2, SeqMonotonic
  <2> SUFFICES ASSUME IsInjective(t), ToSet(t) \subseteq C \ X PROVE P(t)
    BY <2>1
  <2> HIDE DEF t, e, evs
  <2>4. Replay(Unspent(C, X), evs) = Unspent(C, D) /\ o \notin D /\ o \in C
    BY <1>2, <2>1 DEF evs
  <2> DEFINE u == Unspent(C, D)
  <2>5. Replay(Unspent(C, X), Named("spent", t, h)) = Reduce(u, e)
    <3> DEFINE i == Unspent(C, X)
    <3> HIDE DEF i
    <3>1. Replay(i, Append(evs, e)) = Reduce(Replay(i, evs), e)
      BY <2>3, ReplayAppend
    <3> QED BY <2>2, <2>4, <3>1 DEF i
  <2>6. u \in State
    BY DEF Unspent, State
  <2>7. e.type = "spent" /\ e.out = o
    BY DEF e
  <2>8. X \cup ToSet(t) = D \cup {o}
    BY <2>1
  <2>9. Reduce(u, e) = Unspent(C, D \cup {o})
    <3>1. Reduce(u, e) \in State /\ \A p \in Outputs :
            Reduce(u, e)[p] = IF p # o THEN u[p] ELSE u[o] - 1
      <4> HIDE DEF u
      <4> QED BY <2>3, <2>6, <2>7, ReduceType
    <3>2. u[o] = 1
      BY <2>4 DEF Unspent
    <3>3. \A p \in Outputs : Reduce(u, e)[p] = Unspent(C, D \cup {o})[p]
      BY <3>1, <3>2 DEF Unspent
    <3>4. Unspent(C, D \cup {o}) \in State
      BY DEF Unspent, State
    <3> DEFINE v == Reduce(u, e)
               w == Unspent(C, D \cup {o})
    <3> HIDE DEF v, w
    <3>5. v = w
      <4>1. v \in State /\ w \in State /\ \A p \in Outputs : v[p] = w[p]
        BY <3>1, <3>3, <3>4 DEF v, w
      <4> QED BY <4>1 DEF State
    <3> QED BY <3>5 DEF v, w
  <2> QED BY <2>5, <2>8, <2>9
<1> HIDE DEF T
<1>3. outs \in T
  BY <1>1, <1>2, F!SeqInduction
<1> QED BY <1>3 DEF T

(* What the assumption on the chain says of the events of its blocks.      *)
LEMMA ValidBlock ==
  ASSUME NEW S, "vout" \in S, NEW b \in 1..Len(Blocks)
  PROVE  LET outs == Full(S, Blocks[b], "vout")
             ins  == Full(S, Blocks[b], "vin")
         IN  /\ outs \in Seq(Outputs) /\ IsInjective(outs)
             /\ ins \in Seq(Outputs) /\ IsInjective(ins)
             /\ ToSet(outs) \cap Created(S, b - 1) = {}
             /\ ToSet(ins) \cap Spent(S, b - 1) = {}
             /\ ToSet(ins) \subseteq Created(S, b - 1) \cup ToSet(outs)
<1> DEFINE made(d) == ToSet(Full(S, Blocks[d], "vout"))
           gone(d) == ToSet(Full(S, Blocks[d], "vin"))
           V(d) == Walk(Blocks[d], "vout")
           N(d) == Walk(Blocks[d], "vin")
<1>1. /\ Len(Blocks) \in Nat /\ b \in DOMAIN Blocks
      /\ \A d \in 1..b : d \in 1..Len(Blocks)
      /\ \A d \in 1..b : d = b \/ d \in 1..(b - 1)
      /\ \A d \in 1..(b - 1) : d \in 1..b
  BY BlocksFacts, BlocksAssumption, LenProperties
<1>2. /\ IsInjective(V(b)) /\ IsInjective(N(b))
      /\ \A d \in 1..(b - 1) : ToSet(V(b)) \cap ToSet(V(d)) = {}
      /\ \A d \in 1..(b - 1) : ToSet(N(b)) \cap ToSet(N(d)) = {}
      /\ ToSet(N(b)) \subseteq UNION {ToSet(V(d)) : d \in 1..b}
  BY <1>1, ChainAssumption
<1>3. \A d \in 1..b : V(d) \in Seq(Outputs) /\ N(d) \in Seq(Outputs)
  BY <1>1, BlocksFacts, WalkType
<1>4. /\ \A d : Full(S, Blocks[d], "vout") = Reverse(V(d))
      /\ \A d : Full(S, Blocks[d], "vin") = IF "vin" \in S THEN Reverse(N(d)) ELSE <<>>
  BY DEF Full, Bag
<1>5. <<>> \in Seq(Outputs) /\ ToSet(<<>>) = {} /\ IsInjective(<<>>)
  BY EmptySeq DEF ToSet, IsInjective
<1>6. b \in 1..b
  BY <1>1
<1> HIDE DEF V, N
<1>7. \A d \in 1..b : made(d) = ToSet(V(d)) /\ gone(d) = IF "vin" \in S THEN ToSet(N(d)) ELSE {}
  BY <1>3, <1>4, <1>5, ReverseFacts
<1>8. IsInjective(Reverse(V(b))) /\ IsInjective(Reverse(N(b)))
  BY <1>2, <1>3, <1>6, ReverseInjective
<1>9. /\ Full(S, Blocks[b], "vout") \in Seq(Outputs)
      /\ Full(S, Blocks[b], "vin") \in Seq(Outputs)
  BY BlocksFacts, FullType
<1>10. /\ IsInjective(Full(S, Blocks[b], "vout"))
       /\ IsInjective(Full(S, Blocks[b], "vin"))
  BY <1>4, <1>5, <1>8
<1>11. Created(S, b - 1) = UNION {made(d) : d \in 1..(b - 1)}
       /\ Spent(S, b - 1) = UNION {gone(d) : d \in 1..(b - 1)}
  BY DEF Created, Spent
<1> HIDE DEF made, gone
<1>12. \A d \in 1..(b - 1) : made(b) \cap made(d) = {} /\ gone(b) \cap gone(d) = {}
  BY <1>1, <1>2, <1>6, <1>7
<1>13. gone(b) \subseteq UNION {made(d) : d \in 1..b}
  <2>1. gone(b) \subseteq ToSet(N(b))
    BY <1>6, <1>7
  <2>2. \A o \in gone(b) : \E d \in 1..b : o \in ToSet(V(d))
    BY <1>2, <2>1
  <2>3. \A o \in gone(b) : \E d \in 1..b : o \in made(d)
    BY <1>7, <2>2
  <2> QED BY <2>3
<1>14. /\ made(b) \cap Created(S, b - 1) = {} /\ gone(b) \cap Spent(S, b - 1) = {}
       /\ gone(b) \subseteq Created(S, b - 1) \cup made(b)
  BY <1>1, <1>11, <1>12, <1>13
<1> QED BY <1>9, <1>10, <1>14 DEF made, gone

(* The events of a block, or of the first part of it, on the counts before *)
(* it: first it creates, then it spends.                                   *)
LEMMA BlockCounts ==
  ASSUME NEW C, NEW X \in SUBSET C, NEW h \in Int,
         NEW outs \in Seq(Outputs), IsInjective(outs), ToSet(outs) \cap C = {},
         NEW ins \in Seq(Outputs), IsInjective(ins), ToSet(ins) \cap X = {},
         ToSet(ins) \subseteq C \cup ToSet(outs)
  PROVE  Replay(Unspent(C, X), Named("created", outs, h) \o Named("spent", ins, h))
           = Unspent(C \cup ToSet(outs), X \cup ToSet(ins))
<1> DEFINE made == Named("created", outs, h)
           gone == Named("spent", ins, h)
           D == C \cup ToSet(outs)
           u == Unspent(C, X)
<1>1. AtHeight(h) \subseteq Emitted
  BY DEF AtHeight, Emitted
<1>2. made \in Seq(Emitted) /\ gone \in Seq(Emitted)
  BY <1>1, NamedFacts, SeqMonotonic
<1>3. Replay(u, made) = Unspent(D, X)
  BY CreateAll
<1>4. Replay(Unspent(D, X), gone) = Unspent(D, X \cup ToSet(ins))
  <2>1. X \in SUBSET D /\ ToSet(ins) \subseteq D \ X
    OBVIOUS
  <2> HIDE DEF D
  <2> QED BY <2>1, SpendAll
<1> HIDE DEF made, gone, u
<1>5. Replay(u, made \o gone) = Replay(Replay(u, made), gone)
  BY <1>2, ReplayConcat
<1> QED BY <1>3, <1>4, <1>5 DEF made, gone, u

LEMMA ChainCounts ==
  ASSUME NEW S, "vout" \in S, NEW n \in 0..Len(Blocks)
  PROVE  /\ Replay(InitialState, Chain(S, n)) = Unspent(Created(S, n), Spent(S, n))
         /\ Spent(S, n) \subseteq Created(S, n)
<1> DEFINE P(k) == /\ Replay(InitialState, Chain(S, k)) = Unspent(Created(S, k), Spent(S, k))
                   /\ Spent(S, k) \subseteq Created(S, k)
           T == {k \in Nat : k <= Len(Blocks) => P(k)}
<1>1. n \in Nat /\ Len(Blocks) \in Nat /\ n <= Len(Blocks)
  BY BlocksFacts
<1>2. 0 \in T
  <2>1. 1..0 = {}
    OBVIOUS
  <2>2. Created(S, 0) = {} /\ Spent(S, 0) = {}
    BY <2>1 DEF Created, Spent
  <2>3. Unspent({}, {}) = InitialState
    BY DEF Unspent, InitialState
  <2>4. 0 \in 0..Len(Blocks)
    BY <1>1
  <2>5. Chain(S, 0) = <<>>
    BY <2>4, ChainStep
  <2> QED BY <2>2, <2>3, <2>5, ReplayNil
<1>3. ASSUME NEW k \in Nat, k \in T PROVE k + 1 \in T
  <2> SUFFICES ASSUME k + 1 <= Len(Blocks) PROVE P(k + 1)
    OBVIOUS
  <2> DEFINE b == k + 1
             outs == Full(S, Blocks[b], "vout")
             ins == Full(S, Blocks[b], "vin")
             C == Created(S, k)
             X == Spent(S, k)
  <2>1. /\ b \in 1..Len(Blocks) /\ b - 1 = k /\ k \in 0..Len(Blocks) /\ k < Len(Blocks) /\ b \in Int
        /\ 1..b = 1..k \cup {b}
    BY <1>1
  <2>2. P(k)
    BY <1>1, <1>3
  <2>3. /\ Created(S, b) = C \cup ToSet(outs)
        /\ Spent(S, b) = X \cup ToSet(ins)
    BY <2>1 DEF Created, Spent
  <2>4. /\ outs \in Seq(Outputs) /\ IsInjective(outs)
        /\ ins \in Seq(Outputs) /\ IsInjective(ins)
        /\ ToSet(outs) \cap C = {} /\ ToSet(ins) \cap X = {}
        /\ ToSet(ins) \subseteq C \cup ToSet(outs)
    <3> HIDE DEF b
    <3> QED BY <2>1, ValidBlock
  <2>5. Chain(S, b) = Chain(S, k) \o BlockEvents(S, b)
    BY <2>1, ChainStep
  <2>6. Chain(S, k) \in Seq(Emitted) /\ BlockEvents(S, b) \in Seq(Emitted)
    <3>1. Chain(S, k) \in Seq(Event)
      BY <2>1, ChainIsEvents
    <3>2. BlockEvents(S, b) \in Seq(AtHeight(b)) /\ AtHeight(b) \subseteq Emitted
      BY <2>1, BlockEventsType DEF AtHeight, Emitted
    <3> QED BY <3>1, <3>2, EventFacts, SeqMonotonic
  <2> DEFINE c == Chain(S, k)
             e == BlockEvents(S, b)
  <2>7. Replay(InitialState, c \o e) = Replay(Replay(InitialState, c), e)
    <3> HIDE DEF c, e
    <3>1. c \in Seq(Emitted) /\ e \in Seq(Emitted)
      BY <2>6 DEF c, e
    <3> QED BY <3>1, ReplayConcat
  <2>8. Replay(Unspent(C, X), e) = Unspent(C \cup ToSet(outs), X \cup ToSet(ins))
    <3>1. X \in SUBSET C
      BY <2>2
    <3>2. e = Named("created", outs, b) \o Named("spent", ins, b)
      BY DEF BlockEvents
    <3>3. b \in Int
      BY <2>1
    <3> HIDE DEF C, X, outs, ins, b, e
    <3>4. Replay(Unspent(C, X), Named("created", outs, b) \o Named("spent", ins, b))
            = Unspent(C \cup ToSet(outs), X \cup ToSet(ins))
      BY <2>4, <3>1, <3>3, BlockCounts
    <3> QED BY <3>2, <3>4
  <2>9. X \cup ToSet(ins) \subseteq C \cup ToSet(outs)
    BY <2>2, <2>4
  <2> QED BY <2>2, <2>3, <2>5, <2>7, <2>8, <2>9
<1> HIDE DEF T
<1>4. n \in T
  BY <1>1, <1>2, <1>3, F!SetInduction
<1> QED BY <1>1, <1>4 DEF T

(* What a running block has created and spent so far is a part of it.      *)
LEMMA RunningBlock ==
  ASSUME IInv, job.kind = "block", Has("vout")
  PROVE  LET outs == Full(descriptor.sources, Txs, "vout")
             ins  == Full(descriptor.sources, Txs, "vin")
         IN  /\ job.locals.vout \in Seq(Outputs) /\ job.locals.vin \in Seq(Outputs)
             /\ IsInjective(outs) => IsInjective(job.locals.vout)
             /\ IsInjective(ins) => IsInjective(job.locals.vin)
             /\ ToSet(job.locals.vout) \subseteq ToSet(outs)
             /\ ToSet(job.locals.vin) \subseteq ToSet(ins)
             /\ job.locals.vin # <<>> => job.locals.vout = outs
<1> DEFINE outs == Full(descriptor.sources, Txs, "vout")
           ins  == Full(descriptor.sources, Txs, "vin")
           made == job.locals.vout
           gone == job.locals.vin
           bag  == job.bag
<1>1. /\ made \in Seq(Outputs) /\ gone \in Seq(Outputs) /\ job.phase \in 0..4
      /\ job.phase \in {1, 2} => bag \in Seq(Outputs)
  BY DEF IInv, JobInv, Job
<1>2. /\ job.phase < 1 => made = <<>>
      /\ job.phase = 1 => made \o bag = outs
      /\ job.phase > 1 => made = outs
  BY DEF IInv, LocalsInv, Walked, Nothing
<1>3. /\ job.phase < 2 => gone = <<>>
      /\ job.phase = 2 => gone \o bag = ins
      /\ job.phase > 2 => gone = ins
  BY DEF IInv, LocalsInv, Walked, Nothing
<1> HIDE DEF outs, ins, made, gone, bag
<1>4. ToSet(<<>>) = {} /\ IsInjective(<<>>)
  BY EmptySeq DEF ToSet, IsInjective
<1>5. \A s, t \in Seq(Outputs) :
        ToSet(s) \subseteq ToSet(s \o t) /\ (IsInjective(s \o t) => IsInjective(s))
  BY PrefixFacts
<1>6. ToSet(made) \subseteq ToSet(outs) /\ (IsInjective(outs) => IsInjective(made))
  <2>1. CASE job.phase < 1
    BY <1>2, <1>4, <2>1
  <2>2. CASE job.phase = 1
    <3>1. bag \in Seq(Outputs) /\ made \o bag = outs
      BY <1>1, <1>2, <2>2
    <3>2. ToSet(made) \subseteq ToSet(made \o bag) /\ (IsInjective(made \o bag) => IsInjective(made))
      BY <1>1, <1>5, <3>1, Zenon
    <3> QED BY <3>1, <3>2
  <2>3. CASE job.phase > 1
    BY <1>2, <2>3
  <2> QED BY <1>1, <2>1, <2>2, <2>3
<1>7. ToSet(gone) \subseteq ToSet(ins) /\ (IsInjective(ins) => IsInjective(gone))
  <2>1. CASE job.phase < 2
    BY <1>3, <1>4, <2>1
  <2>2. CASE job.phase = 2
    <3>1. bag \in Seq(Outputs) /\ gone \o bag = ins
      BY <1>1, <1>3, <2>2
    <3>2. ToSet(gone) \subseteq ToSet(gone \o bag) /\ (IsInjective(gone \o bag) => IsInjective(gone))
      BY <1>1, <1>5, <3>1, Zenon
    <3> QED BY <3>1, <3>2
  <2>3. CASE job.phase > 2
    BY <1>3, <2>3
  <2> QED BY <1>1, <2>1, <2>2, <2>3
<1>8. gone # <<>> => made = outs
  <2>1. gone # <<>> => ~(job.phase < 2)
    BY <1>3
  <2>2. ~(job.phase < 2) => job.phase > 1
    BY <1>1
  <2> QED BY <1>2, <2>1, <2>2
<1> QED BY <1>1, <1>6, <1>7, <1>8 DEF outs, ins, made, gone

(* No instance that follows both sees an output spent that is not there.   *)
LEMMA SeenCounts ==
  ASSUME IInv, Has("vout"), NEW a \in Actors, inst[a].live
  PROVE  \E C, X : Replay(InitialState, inst[a].seen) = Unspent(C, X)
<1> DEFINE S == descriptor.sources
<1>1. "vout" \in S /\ height \in 0..Len(Blocks)
  BY DEF Has, IInv, Typed
<1>2. \A n \in 0..Len(Blocks) :
        Replay(InitialState, Chain(S, n)) = Unspent(Created(S, n), Spent(S, n))
  BY <1>1, ChainCounts
<1>3. CASE a = "query"
  <2>1. PICK n \in 0..Len(Blocks) : inst["query"].seen = Chain(S, n)
    BY <1>3 DEF IInv, EventsInv
  <2> QED BY <1>2, <1>3, <2>1
<1>4. CASE a = "command" /\ job.kind = "tick"
  <2>1. inst["command"].seen = Chain(S, height)
    BY <1>4 DEF IInv, EventsInv
  <2> QED BY <1>1, <1>2, <1>4, <2>1
<1>5. CASE a = "command" /\ job.kind = "block"
  <2> DEFINE b == job.block
             k == b - 1
             c == Chain(S, k)
             C == Created(S, k)
             X == Spent(S, k)
             outs == Full(S, Blocks[b], "vout")
             ins == Full(S, Blocks[b], "vin")
             made == job.locals.vout
             gone == job.locals.vin
  <2>1. b \in 1..Len(Blocks) /\ k \in 0..Len(Blocks) /\ b \in Int
    BY <1>5, SoFarType, BlocksFacts DEF IInv
  <2>2. SoFar \in Seq(Event) /\ c \in Seq(Event)
    BY <1>5, <2>1, SoFarType, ChainIsEvents DEF IInv
  <2>3. inst["command"].seen = c \o SoFar
    BY <1>5 DEF IInv, EventsInv
  <2>4. SoFar = Named("created", made, b) \o Named("spent", gone, b)
    BY DEF SoFar
  <2>5. Replay(InitialState, c) = Unspent(C, X) /\ X \in SUBSET C
    BY <1>1, <2>1, ChainCounts
  <2>6. /\ IsInjective(outs) /\ IsInjective(ins)
        /\ ToSet(outs) \cap C = {} /\ ToSet(ins) \cap X = {}
        /\ ToSet(ins) \subseteq C \cup ToSet(outs)
    BY <1>1, <2>1, ValidBlock
  <2>7. /\ made \in Seq(Outputs) /\ gone \in Seq(Outputs)
        /\ IsInjective(made) /\ IsInjective(gone)
        /\ ToSet(made) \subseteq ToSet(outs) /\ ToSet(gone) \subseteq ToSet(ins)
        /\ gone # <<>> => made = outs
    <3>1. Txs = Blocks[b]
      BY <1>5 DEF Txs
    <3> QED BY <1>5, <2>6, <3>1, RunningBlock
  <2> HIDE DEF b, c, C, X, outs, ins, made, gone
  <2>8. ToSet(gone) \subseteq C \cup ToSet(made)
    <3>1. CASE gone = <<>>
      <4>1. ToSet(<<>>) = {}
        BY EmptySeq DEF ToSet
      <4> QED BY <3>1, <4>1
    <3>2. CASE gone # <<>>
      BY <2>6, <2>7, <3>2
    <3> QED BY <3>1, <3>2
  <2>9. ToSet(made) \cap C = {} /\ ToSet(gone) \cap X = {}
    BY <2>6, <2>7
  <2>10. Replay(Unspent(C, X), SoFar) = Unspent(C \cup ToSet(made), X \cup ToSet(gone))
    BY <2>1, <2>4, <2>5, <2>7, <2>8, <2>9, BlockCounts
  <2>11. Replay(InitialState, c \o SoFar) = Replay(Replay(InitialState, c), SoFar)
    <3> DEFINE s == SoFar
    <3>1. c \in Seq(Emitted) /\ s \in Seq(Emitted)
      BY <2>2, EventFacts
    <3> HIDE DEF s
    <3>2. Replay(InitialState, c \o s) = Replay(Replay(InitialState, c), s)
      BY <3>1, ReplayConcat
    <3> QED BY <3>2 DEF s
  <2> QED BY <1>5, <2>3, <2>5, <2>10, <2>11
<1>6. a = "command" => job.kind \in {"block", "tick"}
  BY DEF IInv, JobInv, Job, EventsInv
<1> QED BY <1>3, <1>4, <1>5, <1>6 DEF Actors

-----------------------------------------------------------------------------
(* The properties.                                                         *)

(* Every variable holds a value of its kind.                               *)
THEOREM TypeOKHolds == Spec => []TypeOK
<1>1. IInv => TypeOK
  BY IInvMeans
<1> QED BY <1>1, InductiveInvariant, PTL

(* The stored events are the chain's, whatever failed or was reorganised   *)
(* on the way.                                                             *)
THEOREM RowsAreChainHolds == Spec => []RowsAreChain
<1>1. IInv => RowsAreChain
  BY IInvMeans
<1> QED BY <1>1, InductiveInvariant, PTL

(* When the block handler is called the locals hold all of the block.      *)
THEOREM LocalsCompleteHolds == Spec => []LocalsComplete
<1>1. ASSUME IInv PROVE LocalsComplete
  <2> SUFFICES ASSUME job.kind = "block", job.phase = Len(Phases)
               PROVE  /\ Has("vout") => Reverse(job.locals.vout) = Walk(Blocks[job.block], "vout")
                      /\ Has("vin") => Reverse(job.locals.vin) = Walk(Blocks[job.block], "vin")
                      /\ Has("tx") => job.locals.tx = Walk(Blocks[job.block], "tx")
    BY DEF LocalsComplete
  <2> DEFINE txs == Blocks[job.block]
  <2>1. job.phase = 4 /\ Txs = txs
    BY PhasesFacts DEF Txs
  <2>2. job.phase > 1 /\ job.phase > 2 /\ job.phase > 3
    BY <2>1
  <2>3. /\ job.locals.vout = Full(descriptor.sources, Txs, "vout")
        /\ job.locals.vin = Full(descriptor.sources, Txs, "vin")
        /\ job.locals.tx = Full(descriptor.sources, Txs, "tx")
    <3>1. /\ Walked(1, "vout", job.locals.vout) /\ Walked(2, "vin", job.locals.vin)
          /\ Walked(3, "tx", job.locals.tx)
      BY <1>1 DEF IInv, LocalsInv
    <3> QED BY <2>2, <3>1 DEF Walked
  <2>4. txs \in Seq(Transaction)
    BY <1>1, SoFarType, BlocksFacts DEF IInv
  <2> HIDE DEF txs
  <2>5. /\ Has("vout") => job.locals.vout = Reverse(Walk(txs, "vout"))
        /\ Has("vin") => job.locals.vin = Reverse(Walk(txs, "vin"))
        /\ Has("tx") => job.locals.tx = Walk(txs, "tx")
    BY <2>1, <2>3 DEF Has, Full, Bag
  <2>6. Walk(txs, "vout") \in Seq(Outputs) /\ Walk(txs, "vin") \in Seq(Outputs)
    BY <2>4, WalkType
  <2>7. /\ Reverse(Reverse(Walk(txs, "vout"))) = Walk(txs, "vout")
        /\ Reverse(Reverse(Walk(txs, "vin"))) = Walk(txs, "vin")
    BY <2>6, ReverseFacts, Zenon
  <2> QED BY <2>5, <2>7 DEF txs
<1> QED BY <1>1, InductiveInvariant, PTL

(* Unless the descriptor's state is an object, which all instances share,  *)
(* every instance is the replay of the events it has seen.                 *)
THEOREM RestoredIsReplayHolds ==
  ASSUME \A d \in Descriptors : d.state # "object"
  PROVE  Spec => []RestoredIsReplay
<1>1. ASSUME IInv PROVE RestoredIsReplay
  <2>1. ~Shared
    BY <1>1 DEF IInv, Typed, Shared
  <2> QED BY <1>1, <2>1, IInvMeans
<1> QED BY <1>1, InductiveInvariant, PTL

(* Under the same condition, and of a valid chain, a model that follows    *)
(* both never sees an output created twice, or spent before it is created, *)
(* not even in the middle of a block that spends its own outputs.          *)
THEOREM NeverOverspentHolds ==
  ASSUME \A d \in Descriptors : d.state # "object"
  PROVE  Spec => []NeverOverspent
<1>1. ASSUME IInv PROVE NeverOverspent
  <2> SUFFICES ASSUME Has("vout"), NEW a \in Actors, inst[a].live, NEW o \in Outputs
               PROVE  StateOf(a)[o] \in {0, 1}
    BY DEF NeverOverspent
  <2>1. StateOf(a) = inst[a].state /\ inst[a].state = Replay(InitialState, inst[a].seen)
    BY <1>1 DEF IInv, Typed, Shared, StateOf, Replayed
  <2>2. PICK C, X : Replay(InitialState, inst[a].seen) = Unspent(C, X)
    BY <1>1, SeenCounts
  <2>3. Unspent(C, X)[o] \in {0, 1}
    BY DEF Unspent
  <2> QED BY <2>1, <2>2, <2>3
<1> QED BY <1>1, InductiveInvariant, PTL

-----------------------------------------------------------------------------
=============================================================================
