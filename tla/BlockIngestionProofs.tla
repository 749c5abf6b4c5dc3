------------------------ MODULE BlockIngestionProofs ------------------------
(***************************************************************************)
(* The safety properties of BlockIngestion, and that it implements         *)
(* ChainIndex, proved for every set of models and chains and every bound.  *)
(* Nothing is assumed of the node: it may report unlinked chains, and      *)
(* hashes may even collide.                                                *)
(***************************************************************************)
EXTENDS BlockIngestion, SequenceTheorems, WellFoundedInduction, FiniteSetTheorems, FunctionTheorems,
        TLAPS

-----------------------------------------------------------------------------
(* The stream S of model m for the blocks of chain c up to height top.     *)
StreamOK(S, m, c, top) ==
  /\ S \subseteq Row
  /\ \A r \in S : /\ r.block.height \in StartHeight..top
                  /\ r.block = c[r.block.height]
                  /\ r.block \in Emits[m]
  /\ \A h \in StartHeight..top : c[h] \in Emits[m] => \E r \in S : r.block = c[h]
  /\ \A r, s \in S : r.version < s.version <=> r.block.height < s.block.height
  /\ \E n \in Nat : {r.version : r \in S} = 1..n

(* Every block has a natural height.                                       *)
LEMMA BlockHeight ==
  /\ \A b \in Block : b.height \in Nat
  /\ \A c \in Chains : c \in Seq(Block) /\ \A i \in 1..Len(c) : c[i].height = i - 1
<1>1. \A c \in Chains : \A i \in 1..Len(c) : c[i] \in Block /\ c[i].height \in Nat
  BY ChainsAssumption DEF Block
<1>2. \A b \in Block : b.height \in Nat
  BY <1>1 DEF Block
<1>3. ASSUME NEW c \in Chains PROVE c \in Seq(Block)
  <2>1. c \in [1..Len(c) -> Block] /\ Len(c) \in Nat
    BY <1>1, ChainsAssumption
  <2> QED BY <2>1
<1> QED BY <1>2, <1>3, ChainsAssumption

(* The highest version of a stream without holes is its length.            *)
LEMMA LastVersionOfStream ==
  ASSUME NEW S, NEW n \in Nat, {r.version : r \in S} = 1..n
  PROVE  LastVersion(S) = n
<1>1. CASE S = {}
  BY <1>1 DEF LastVersion
<1>2. CASE S # {}
  <2> DEFINE V == {r.version : r \in S}
  <2>1. n \in V /\ \A r \in S : r.version <= n
    BY <1>2
  <2>2. \A v \in V : (\A r \in S : r.version <= v) => v = n
    <3> SUFFICES ASSUME NEW v \in V, \A r \in S : r.version <= v PROVE v = n
      OBVIOUS
    <3>1. n <= v
      BY <2>1
    <3> QED BY <3>1
  <2>3. LastVersion(S) = CHOOSE v \in V : \A r \in S : r.version <= v
    BY <1>2 DEF LastVersion
  <2> HIDE DEF V
  <2> QED BY <2>1, <2>2, <2>3
<1> QED BY <1>1, <1>2

(* processBlock extends the stream of a chain by the chain's next block.   *)
LEMMA ApplyExtendsStream ==
  ASSUME NEW m, NEW S, NEW c, NEW top \in Int, StreamOK(S, m, c, top),
         top + 1 >= StartHeight, c[top + 1] \in Block, c[top + 1].height = top + 1
  PROVE  StreamOK(Apply(m, S, c[top + 1]), m, c, top + 1)
<1> USE BoundsAssumption
<1> DEFINE b == c[top + 1]
<1>1. CASE b \notin Emits[m]
  BY <1>1 DEF StreamOK, Apply
<1>2. CASE b \in Emits[m]
  <2>1. PICK n \in Nat : {r.version : r \in S} = 1..n
    BY DEF StreamOK
  <2> DEFINE new == [version |-> n + 1, block |-> b]
             T   == S \cup {new}
  <2>2. Apply(m, S, b) = T
    BY <1>2, <2>1, LastVersionOfStream DEF Apply
  <2>3. T \subseteq Row
    BY DEF StreamOK, Row
  <2>4. \A r \in S : /\ r.version \in 1..n
                     /\ r.block.height \in StartHeight..top
    BY <2>1 DEF StreamOK
  <2>5. \A r \in T : /\ r.block.height \in StartHeight..(top + 1)
                     /\ r.block = c[r.block.height]
                     /\ r.block \in Emits[m]
    BY <1>2 DEF StreamOK
  <2>6. ASSUME NEW h \in StartHeight..(top + 1), c[h] \in Emits[m]
        PROVE  \E r \in T : r.block = c[h]
    <3>1. CASE h = top + 1
      <4>1. new \in T /\ new.block = c[h]
        BY <3>1
      <4> QED BY <4>1
    <3>2. CASE h # top + 1
      BY <3>2, <2>6 DEF StreamOK
    <3> QED BY <3>1, <3>2
  <2>7. ASSUME NEW r \in T, NEW s \in T
        PROVE  r.version < s.version <=> r.block.height < s.block.height
    BY <2>4 DEF StreamOK
  <2>8. {r.version : r \in T} = 1..(n + 1)
    <3>1. \A r \in S \cup {new} : r.version \in 1..(n + 1)
      BY <2>4
    <3>2. \A v \in 1..n : \E r \in S : r.version = v
      BY <2>1
    <3>3. new \in T /\ new.version = n + 1 /\ S \subseteq T
      OBVIOUS
    <3>4. \A v \in 1..(n + 1) : \E r \in T : r.version = v
      <4> HIDE DEF T, new
      <4> QED BY <3>2, <3>3
    <3> HIDE DEF new
    <3> QED BY <3>1, <3>4
  <2>9. \E k \in Nat : {r.version : r \in T} = 1..k
    BY <2>8
  <2> HIDE DEF T
  <2> QED BY <2>2, <2>3, <2>5, <2>6, <2>7, <2>9 DEF StreamOK
<1> QED BY <1>1, <1>2

(* A set of naturals closed downwards within 1..n is an initial interval.  *)
LEMMA InitialInterval ==
  ASSUME NEW n \in Nat, NEW V \in SUBSET (1..n),
         \A v \in V : \A w \in 1..v : w \in V
  PROVE  \E k \in Nat : V = 1..k
<1> DEFINE Missing == {w \in Nat : w >= 1 /\ w \notin V}
<1>1. n + 1 \in Missing /\ Missing \subseteq Nat
  OBVIOUS
<1>2. PICK w \in Missing : \A x \in Missing : w <= x
  <2> DEFINE R == OpToRel(<, Nat)
  <2>1. IsWellFoundedOn(R, Nat)
    BY NatLessThanWellFounded
  <2>2. \E w \in Missing : \A x \in Missing : ~(<<x, w>> \in R)
    <3> HIDE DEF R
    <3> QED BY <1>1, <2>1, WFMin
  <2>3. \A x, w \in Nat : x < w => <<x, w>> \in R
    BY DEF OpToRel
  <2>4. PICK w \in Missing : \A x \in Missing : ~(<<x, w>> \in R)
    BY <2>2
  <2>5. ASSUME NEW x \in Missing PROVE w <= x
    <3>1. ~(x < w)
      BY <1>1, <2>3, <2>4
    <3> QED BY <1>1, <3>1
  <2> QED BY <2>5
<1>3. \A x \in 1..(w - 1) : x \in V
  BY <1>2
<1>4. \A x \in V : x \in 1..(w - 1)
  <2> SUFFICES ASSUME NEW x \in V, x >= w PROVE FALSE
    BY <1>2
  <2>1. w \in 1..x
    BY <1>2
  <2> QED BY <2>1, <1>2
<1>5. w - 1 \in Nat
  BY <1>2
<1>6. V = 1..(w - 1)
  <2> HIDE DEF Missing
  <2> QED BY <1>3, <1>4
<1> QED BY <1>5, <1>6

(* A rollback leaves the stream of the chain up to the fork.               *)
LEMMA UpToCutsStream ==
  ASSUME NEW m, NEW S, NEW c, NEW top \in Int, StreamOK(S, m, c, top),
         \A x \in StartHeight..top : c[x].height = x,
         NEW h \in Int, h <= top
  PROVE  StreamOK(UpTo(S, h), m, c, h)
<1> USE BoundsAssumption
<1> DEFINE T == UpTo(S, h)
           V == {r.version : r \in T}
<1> SUFFICES StreamOK(T, m, c, h)
  OBVIOUS
<1>1. PICK n \in Nat : {r.version : r \in S} = 1..n
  BY DEF StreamOK
<1>2. T \subseteq S /\ \A r \in S : r \in T <=> r.block.height <= h
  BY DEF UpTo
<1>3. V \subseteq 1..n
  BY <1>1, <1>2
<1>4. ASSUME NEW v \in V, NEW w \in 1..v PROVE w \in V
  <2>1. PICK r \in T : r.version = v
    OBVIOUS
  <2>2. PICK s \in S : s.version = w
    <3>1. v \in 1..n
      BY <1>3
    <3>2. w \in 1..n
      BY <3>1
    <3> QED BY <1>1, <3>2
  <2>3. CASE w = v
    BY <2>3
  <2>4. CASE w # v
    <3>1. s.version < r.version
      BY <1>3, <2>1, <2>2, <2>4
    <3>2. s.block.height < r.block.height
      BY <1>2, <3>1 DEF StreamOK
    <3>3. s.block.height <= h
      BY <1>2, <3>2 DEF StreamOK
    <3> QED BY <1>2, <2>2, <3>3
  <2> QED BY <2>3, <2>4
<1>5. \E k \in Nat : V = 1..k
  <2> HIDE DEF V
  <2> QED BY <1>3, <1>4, InitialInterval
<1>6. ASSUME NEW x \in StartHeight..h, c[x] \in Emits[m]
      PROVE  \E r \in T : r.block = c[x]
  <2>1. PICK r \in S : r.block = c[x]
    BY <1>6 DEF StreamOK
  <2>2. r.block.height = x
    BY <2>1 DEF StreamOK
  <2> QED BY <1>2, <2>1, <2>2
<1>7. T \subseteq Row /\ \A r \in T : /\ r.block.height \in StartHeight..h
                                      /\ r.block = c[r.block.height]
                                      /\ r.block \in Emits[m]
  BY <1>2 DEF StreamOK
<1>8. \A r, s \in T : r.version < s.version <=> r.block.height < s.block.height
  BY <1>2 DEF StreamOK
<1> HIDE DEF T
<1> QED BY <1>5, <1>6, <1>7, <1>8 DEF StreamOK

(* A stream only depends on the chain's blocks up to its top.              *)
LEMMA StreamOfSameChain ==
  ASSUME NEW m, NEW S, NEW c, NEW d, NEW top \in Int, NEW t \in Int,
         StreamOK(S, m, c, top), StartHeight..t = StartHeight..top,
         \A h \in StartHeight..top : d[h] = c[h]
  PROVE  StreamOK(S, m, d, t)
<1> DEFINE I == StartHeight..top
<1>1. /\ S \subseteq Row
      /\ \A r \in S : /\ r.block.height \in I
                      /\ r.block = d[r.block.height]
                      /\ r.block \in Emits[m]
      /\ \A h \in I : d[h] \in Emits[m] => \E r \in S : r.block = d[h]
      /\ \A r, s \in S : r.version < s.version <=> r.block.height < s.block.height
      /\ \E n \in Nat : {r.version : r \in S} = 1..n
  BY DEF StreamOK
<1>2. I = StartHeight..t
  OBVIOUS
<1> HIDE DEF I
<1> QED BY <1>1, <1>2 DEF StreamOK

-----------------------------------------------------------------------------
(* The inductive invariant.                                                *)

NetworkOK(n) ==
  /\ IsNetwork(n)
  /\ n.lo >= StartHeight /\ (n.lo = StartHeight \/ n.lo <= n.height)
  /\ \A h \in StartHeight..n.height :
       /\ n.chain[h].height = h
       /\ h > StartHeight => n.chain[h].prev = n.chain[h - 1].hash

Busy == pc \in {"processing", "reorganising", "rollingBack"}

(* The stored side: a linked chain and the streams of exactly that chain.  *)
StoreInv ==
  /\ NetworkOK(network)
  /\ network.height >= StartHeight - 1 \/ (pc = "off" /\ network.height = -1)
  /\ \A m \in Models : StreamOK(rows[m], m, network.chain, network.height)

(* The queue holds consecutive blocks, the first of height Base + 1.       *)
Base == queue.last - Len(queue.blocks)

QueueInv ==
  /\ queue.inFlight <= Len(queue.blocks)
  /\ \A i \in 1..Len(queue.blocks) : queue.blocks[i].height = Base + i
  /\ queue.open => queue.last >= StartHeight - 1

(* At most one event is under way, and it tells the queue the stored       *)
(* height; a command only runs when none is.                               *)
EventInv ==
  /\ pc = "off" => bus = <<>> /\ ~queue.open
  /\ Busy => bus = <<>> /\ queue.open /\ queue.inFlight >= 1
  /\ queue.open /\ queue.inFlight = 0 => bus = <<>>
  /\ Len(bus) <= 1
  /\ queue.open /\ bus = <<>> => Base = network.height
  /\ bus # <<>> => IF bus[1].type = "BlocksAdded"
                   THEN bus[1].blocks = Batch /\ Base + queue.inFlight = network.height
                   ELSE bus[1].height = network.height

(* The handler's memory: the stored chain plus the batch, with the streams *)
(* of its processed part; or the stored chain; or a cut of it.             *)
ProcessingInv ==
  /\ networkModel.height = network.height + queue.inFlight
  /\ \A h \in StartHeight..network.height : networkModel.chain[h] = network.chain[h]
  /\ \A i \in 1..queue.inFlight : networkModel.chain[network.height + i] = queue.blocks[i]
  /\ cursor \in 1..(queue.inFlight + 1)
  /\ \A m \in Models :
       /\ rows[m] \subseteq models[m]
       /\ StreamOK(models[m], m, networkModel.chain, network.height + cursor - 1)

HandlerInv ==
  /\ NetworkOK(networkModel)
  /\ pc = "processing" => ProcessingInv
  /\ pc = "reorganising" => networkModel = network
  /\ pc = "rollingBack" =>
       /\ networkModel.height \in StartHeight..network.height
       /\ \A h \in StartHeight..networkModel.height : networkModel.chain[h] = network.chain[h]

IInv == TypeOK /\ StoreInv /\ QueueInv /\ EventInv /\ HandlerInv

-----------------------------------------------------------------------------
(* addBlocks keeps the chain linked, and puts the batch on top of it.      *)
LEMMA AddBlocksExtends ==
  ASSUME NEW n, NetworkOK(n), n.height >= StartHeight - 1,
         NEW batch \in Seq(Block), Len(batch) >= 1, Continues(n, batch)
  PROVE  LET a == AddBlocks(n, batch)
         IN  /\ NetworkOK(a)
             /\ a.height = n.height + Len(batch)
             /\ \A h \in StartHeight..n.height : a.chain[h] = n.chain[h]
             /\ \A i \in 1..Len(batch) : a.chain[n.height + i] = batch[i]
<1> USE BoundsAssumption
<1> DEFINE a == AddBlocks(n, batch)
           top == n.height + Len(batch)
<1> SUFFICES /\ NetworkOK(a)
             /\ a.height = n.height + Len(batch)
             /\ \A h \in StartHeight..n.height : a.chain[h] = n.chain[h]
             /\ \A i \in 1..Len(batch) : a.chain[n.height + i] = batch[i]
  OBVIOUS
<1>1. /\ n.height \in Int /\ n.lo \in Nat /\ Len(batch) \in Nat /\ top \in Int
      /\ n.chain \in [StartHeight..n.height -> Block]
      /\ batch \in [1..Len(batch) -> Block]
  BY DEF NetworkOK, IsNetwork
<1>2. /\ a = [height |-> a.height, lo |-> a.lo, chain |-> a.chain]
      /\ a.height = top
      /\ a.lo \in Nat /\ a.lo >= StartHeight /\ a.lo <= top
  <2> DEFINE oldest == top - MaxSize + 1
  <2>1. /\ a = [height |-> a.height, lo |-> a.lo, chain |-> a.chain]
        /\ a.height = top
        /\ a.lo = IF oldest > n.lo THEN oldest ELSE n.lo
    BY DEF AddBlocks
  <2>2. n.lo >= StartHeight /\ n.lo <= top
    BY <1>1 DEF NetworkOK
  <2>3. oldest \in Int /\ oldest <= top
    BY <1>1
  <2> HIDE DEF a, top, oldest
  <2> QED BY <1>1, <2>1, <2>2, <2>3
<1>3. a.chain = [h \in StartHeight..top |->
                   IF h <= n.height THEN n.chain[h] ELSE batch[h - n.height]]
  BY DEF AddBlocks
<1>4. ASSUME NEW h \in StartHeight..top
      PROVE  /\ h <= n.height => h \in StartHeight..n.height /\ a.chain[h] = n.chain[h]
             /\ h > n.height => h - n.height \in 1..Len(batch) /\ a.chain[h] = batch[h - n.height]
  BY <1>1, <1>3
<1>5. a.chain \in [StartHeight..top -> Block]
  <2>1. ASSUME NEW h \in StartHeight..top PROVE a.chain[h] \in Block
    <3>1. h <= n.height \/ h > n.height
      BY <1>1
    <3> HIDE DEF a, top
    <3> QED BY <1>1, <1>4, <3>1
  <2> QED BY <1>3, <2>1
<1>6. \A h \in StartHeight..n.height : h \in StartHeight..top /\ a.chain[h] = n.chain[h]
  BY <1>1, <1>4
<1>7. ASSUME NEW i \in 1..Len(batch)
      PROVE  n.height + i \in StartHeight..top /\ a.chain[n.height + i] = batch[i]
  <2>1. n.height + i \in StartHeight..top /\ n.height + i > n.height
    BY <1>1
  <2>2. (n.height + i) - n.height = i
    BY <1>1
  <2> HIDE DEF a, top
  <2> QED BY <1>4, <2>1, <2>2
<1>8. ASSUME NEW h \in StartHeight..top
      PROVE  a.chain[h].height = h /\ (h > StartHeight => a.chain[h].prev = a.chain[h - 1].hash)
  <2>1. CASE h <= n.height
    <3>1. h \in StartHeight..n.height /\ a.chain[h] = n.chain[h]
      BY <1>4, <2>1
    <3>2. h > StartHeight => h - 1 \in StartHeight..n.height
      BY <3>1, <1>1
    <3> HIDE DEF a, top
    <3> QED BY <1>6, <3>1, <3>2 DEF NetworkOK
  <2>2. CASE h > n.height
    <3> DEFINE i == h - n.height
    <3>1. i \in 1..Len(batch) /\ a.chain[h] = batch[i]
      BY <1>4, <2>2
    <3>2. batch[i].height = h
      <4>1. n.height + i = h
        BY <1>1
      <4> HIDE DEF i, a, top
      <4> QED BY <3>1, <4>1 DEF Continues
    <3>3. CASE i > 1
      <4>1. batch[i].prev = batch[i - 1].hash
        BY <3>1, <3>3 DEF Continues
      <4>2. i - 1 \in 1..Len(batch) /\ h - 1 = n.height + (i - 1)
        <5>1. i \in 1..Len(batch) /\ h \in Int
          BY <3>1, <1>1
        <5> HIDE DEF a, top
        <5> QED BY <3>3, <5>1, <1>1
      <4>3. a.chain[h - 1] = batch[i - 1]
        BY <4>2, <1>7
      <4> QED BY <3>1, <3>2, <4>1, <4>3
    <3>4. CASE i = 1
      <4>1. h - 1 = n.height
        BY <3>4, <1>1
      <4>2. h > StartHeight => HasBlock(n, n.height) /\ n.height \in StartHeight..n.height
        BY <4>1, <1>1 DEF HasBlock, NetworkOK
      <4>3. HasBlock(n, n.height) => batch[1].prev = n.chain[n.height].hash
        BY <3>1, <3>4 DEF Continues
      <4> QED BY <3>1, <3>2, <3>4, <4>1, <4>2, <4>3, <1>6
    <3> QED BY <3>1, <3>3, <3>4
  <2> QED BY <2>1, <2>2, <1>1
<1>9. NetworkOK(a)
  <2> HIDE DEF a, top
  <2> QED BY <1>1, <1>2, <1>5, <1>8 DEF NetworkOK, IsNetwork
<1> HIDE DEF a
<1> QED BY <1>2, <1>6, <1>7, <1>9

(* Cutting the chain at a height of its window keeps it a linked chain.    *)
LEMMA TruncateCuts ==
  ASSUME NEW n, NetworkOK(n), NEW h \in Int, HasBlock(n, h)
  PROVE  LET t == Truncate(n, h)
         IN  /\ NetworkOK(t)
             /\ t.height = h /\ h \in StartHeight..n.height
             /\ \A x \in StartHeight..h : t.chain[x] = n.chain[x]
<1> USE BoundsAssumption
<1> DEFINE t == Truncate(n, h)
<1>1. /\ n = [height |-> n.height, lo |-> n.lo, chain |-> n.chain]
      /\ n.height \in Int /\ n.lo \in Nat
      /\ n.chain \in [StartHeight..n.height -> Block]
      /\ h \in StartHeight..n.height /\ n.lo <= h /\ n.lo >= StartHeight
  BY DEF NetworkOK, IsNetwork, HasBlock
<1>2. t = [height |-> h, lo |-> n.lo, chain |-> [x \in StartHeight..h |-> n.chain[x]]]
  BY <1>1 DEF Truncate
<1>3. t.chain \in [StartHeight..h -> Block] /\ \A x \in StartHeight..h : t.chain[x] = n.chain[x]
  BY <1>1, <1>2
<1>4. ASSUME NEW x \in StartHeight..h
      PROVE  t.chain[x].height = x /\ (x > StartHeight => t.chain[x].prev = t.chain[x - 1].hash)
  <2>1. x \in StartHeight..n.height /\ (x > StartHeight => x - 1 \in StartHeight..h)
    BY <1>1
  <2> HIDE DEF t
  <2> QED BY <1>3, <2>1 DEF NetworkOK
<1>5. NetworkOK(t)
  <2>1. t.height = h /\ t.lo = n.lo /\ t = [height |-> t.height, lo |-> t.lo, chain |-> t.chain]
    BY <1>2
  <2> HIDE DEF t
  <2> QED BY <1>1, <1>3, <1>4, <2>1 DEF NetworkOK, IsNetwork
<1> QED BY <1>1, <1>2, <1>3, <1>5

-----------------------------------------------------------------------------
(* The invariant holds initially and every action preserves it.            *)
LEMMA InitIInv == Init => IInv
<1> USE BoundsAssumption
<1> SUFFICES ASSUME Init PROVE IInv
  OBVIOUS
<1>1. NetworkOK(network) /\ networkModel = network
  BY DEF Init, NewNetwork, NetworkOK, IsNetwork
<1>2. TypeOK
  BY <1>1 DEF Init, TypeOK, NetworkOK, ClosedQueue
<1>3. StoreInv
  <2>1. {r.version : r \in {}} = 1..0
    OBVIOUS
  <2>2. network.height = -1
    BY DEF Init, NewNetwork
  <2>3. \A m \in Models : StreamOK({}, m, network.chain, network.height)
    BY <2>1, <2>2 DEF StreamOK
  <2> QED BY <1>1, <2>2, <2>3 DEF Init, StoreInv
<1>4. QueueInv /\ EventInv
  BY DEF Init, ClosedQueue, QueueInv, EventInv, Busy
<1>5. HandlerInv
  BY <1>1 DEF Init, HandlerInv
<1> QED BY <1>2, <1>3, <1>4, <1>5 DEF IInv

LEMMA SpendCounts ==
  ASSUME spent \in [Faults -> Nat], NEW what \in Faults, NEW bound, Spend(what, bound)
  PROVE  spent' \in [Faults -> Nat]
BY DEF Spend

LEMMA NodeMovesIInv == IInv /\ NodeMoves => IInv'
<1> SUFFICES ASSUME IInv, NodeMoves PROVE IInv'
  OBVIOUS
<1>1. /\ UNCHANGED <<network, rows, bus, queue, pc, networkModel, models, cursor>>
      /\ node' \in Chains /\ spent' \in [Faults -> Nat]
  BY SpendCounts DEF IInv, TypeOK, NodeMoves, store, memory, Faults
<1>2. TypeOK'
  BY <1>1 DEF IInv, TypeOK
<1>3. StoreInv' /\ QueueInv' /\ EventInv' /\ HandlerInv'
  BY <1>1 DEF IInv, StoreInv, QueueInv, EventInv, HandlerInv, ProcessingInv, Busy, Batch, Base
<1> QED BY <1>2, <1>3 DEF IInv

LEMMA InitNetworkIInv == IInv /\ InitNetwork => IInv'
<1> USE BoundsAssumption
<1> SUFFICES ASSUME IInv, InitNetwork PROVE IInv'
  OBVIOUS
<1> DEFINE start == IF network.height < 0 THEN StartHeight - 1 ELSE network.height
<1>1. /\ pc = "off" /\ pc' = "idle" /\ bus = <<>> /\ ~queue.open
      /\ IsNetwork(network) /\ network.height \in Int
      /\ network' = [height |-> start, lo |-> network.lo, chain |-> network.chain]
      /\ networkModel' = network'
      /\ start \in Int /\ start >= StartHeight - 1
  BY DEF IInv, EventInv, StoreInv, NetworkOK, IsNetwork, InitNetwork
<1>2. start = network.height \/ (network.height < StartHeight /\ start = StartHeight - 1)
  BY <1>1 DEF IInv, StoreInv
<1>3. StartHeight..start = StartHeight..network.height
  BY <1>1, <1>2
<1>4. NetworkOK(network')
  BY <1>1, <1>2, <1>3 DEF IInv, StoreInv, NetworkOK, IsNetwork
<1>5. bus' = <<[type |-> "Initialized", height |-> start]>>
  BY <1>1 DEF InitNetwork
<1>6. TypeOK'
  BY <1>1, <1>4, <1>5 DEF IInv, TypeOK, InitNetwork, NetworkOK
<1>7. StoreInv'
  <2>1. \A m \in Models : StreamOK(rows'[m], m, network'.chain, network'.height)
    <3>1. rows' = rows /\ network'.chain = network.chain /\ network'.height = start
      BY <1>1 DEF InitNetwork
    <3> HIDE DEF start
    <3> QED BY <1>1, <1>3, <3>1, StreamOfSameChain DEF IInv, StoreInv
  <2> QED BY <1>1, <1>4, <2>1 DEF StoreInv
<1>8. QueueInv' /\ EventInv'
  BY <1>1, <1>5 DEF IInv, QueueInv, EventInv, InitNetwork, Busy, Base
<1>9. HandlerInv'
  BY <1>1, <1>4 DEF HandlerInv
<1> QED BY <1>6, <1>7, <1>8, <1>9 DEF IInv

LEMMA LoadIInv == IInv /\ Load => IInv'
<1> SUFFICES ASSUME IInv, Load PROVE IInv'
  OBVIOUS
<1> DEFINE next == queue.last + 1
           b == node[next + 1]
<1>1. /\ queue.open /\ queue.last \in Int /\ queue.inFlight \in Nat
      /\ queue.blocks \in Seq(Block) /\ Len(queue.blocks) \in Nat
      /\ next < Len(node) /\ node \in Chains
  BY DEF IInv, TypeOK, Load
<1>2. /\ queue' = [open |-> TRUE, last |-> next, blocks |-> Append(queue.blocks, b),
                    inFlight |-> queue.inFlight]
      /\ UNCHANGED <<node, network, rows, bus, pc, networkModel, models, cursor, spent>>
  BY <1>1 DEF IInv, TypeOK, Load, store, memory
<1>3. next \in Nat /\ b \in Block /\ b.height = next
  <2>1. next \in Nat
    BY <1>1, BoundsAssumption DEF IInv, QueueInv
  <2>2. next + 1 \in 1..Len(node) /\ node \in Seq(Block)
    BY <1>1, <2>1, BlockHeight
  <2> QED BY <1>1, <2>1, <2>2, BlockHeight
<1>4. /\ Append(queue.blocks, b) \in Seq(Block)
      /\ Len(Append(queue.blocks, b)) = Len(queue.blocks) + 1
      /\ \A i \in 1..Len(queue.blocks) : Append(queue.blocks, b)[i] = queue.blocks[i]
      /\ Append(queue.blocks, b)[Len(queue.blocks) + 1] = b
  BY <1>1, <1>3
<1>5. Batch' = Batch
  <2>1. queue.inFlight <= Len(queue.blocks)
    BY DEF IInv, QueueInv
  <2> QED BY <1>1, <1>2, <1>3, <2>1 DEF Batch
<1>6. TypeOK'
  BY <1>1, <1>2, <1>3, <1>4 DEF IInv, TypeOK
<1>7. StoreInv'
  BY <1>2 DEF IInv, StoreInv
<1>8. QueueInv' /\ EventInv'
  <2>1. Base' = Base
    <3>1. queue'.last = queue.last + 1 /\ queue'.blocks = Append(queue.blocks, b)
      BY <1>2
    <3>2. Len(queue'.blocks) = Len(queue.blocks) + 1
      BY <3>1, <1>4
    <3>3. queue.last \in Int /\ Len(queue.blocks) \in Nat
      BY <1>1
    <3> HIDE DEF next, b
    <3> QED BY <3>1, <3>2, <3>3 DEF Base
  <2>2. ASSUME NEW i \in 1..Len(queue'.blocks)
        PROVE  queue'.blocks[i].height = Base + i
    <3>1. CASE i \in 1..Len(queue.blocks)
      BY <3>1, <1>2, <1>4 DEF IInv, QueueInv
    <3>2. CASE i = Len(queue.blocks) + 1
      BY <3>2, <1>1, <1>2, <1>3, <1>4 DEF Base
    <3> QED BY <3>1, <3>2, <1>1, <1>2, <1>4
  <2>3. QueueInv'
    <3>1. queue'.inFlight <= Len(queue'.blocks) /\ queue'.last >= StartHeight - 1
      BY <1>1, <1>2, <1>4, BoundsAssumption DEF IInv, QueueInv
    <3> QED BY <2>1, <2>2, <3>1 DEF QueueInv
  <2>4. EventInv'
    BY <1>1, <1>2, <1>5, <2>1 DEF IInv, EventInv, Busy
  <2> QED BY <2>3, <2>4
<1>9. HandlerInv'
  BY <1>1, <1>2, <1>4 DEF IInv, HandlerInv, QueueInv, ProcessingInv
<1> QED BY <1>6, <1>7, <1>8, <1>9 DEF IInv

(* A prefix of the queue as the batch of a command.                        *)
LEMMA BatchOfQueue ==
  ASSUME TypeOK, NEW k \in Nat, k <= Len(queue.blocks)
  PROVE  LET batch == SubSeq(queue.blocks, 1, k)
         IN  /\ batch \in Seq(Block) /\ Len(batch) = k
             /\ \A i \in 1..k : i \in 1..Len(queue.blocks) /\ batch[i] = queue.blocks[i]
BY DEF TypeOK

LEMMA DispatchMarksBatch ==
  ASSUME TypeOK, NEW k \in 1..MaxBatch, Dispatch(k)
  PROVE  /\ k \in Nat /\ k >= 1 /\ k <= Len(queue.blocks)
         /\ pc = "idle" /\ queue.open /\ queue.inFlight = 0
         /\ queue' = [open |-> queue.open, last |-> queue.last, blocks |-> queue.blocks,
                      inFlight |-> k]
<1>1. queue = [open |-> queue.open, last |-> queue.last, blocks |-> queue.blocks,
               inFlight |-> queue.inFlight]
  BY DEF TypeOK
<1>2. k \in Nat /\ k >= 1
  BY BoundsAssumption
<1> QED BY <1>1, <1>2 DEF Dispatch

LEMMA AcceptBatchIInv == IInv /\ AcceptBatch => IInv'
<1> USE BoundsAssumption
<1> SUFFICES ASSUME IInv, AcceptBatch PROVE IInv'
  OBVIOUS
<1>1. PICK k \in 1..MaxBatch :
        /\ Dispatch(k)
        /\ Continues(network, SubSeq(queue.blocks, 1, k))
        /\ networkModel' = AddBlocks(network, SubSeq(queue.blocks, 1, k))
  BY DEF AcceptBatch
<1> DEFINE batch == SubSeq(queue.blocks, 1, k)
<1>2. /\ k \in Nat /\ k >= 1 /\ k <= Len(queue.blocks)
      /\ pc = "idle" /\ queue.open /\ queue.inFlight = 0
      /\ queue' = [open |-> queue.open, last |-> queue.last, blocks |-> queue.blocks,
                   inFlight |-> k]
      /\ UNCHANGED <<node, network, rows, bus, spent>>
      /\ models' = rows /\ cursor' = 1 /\ pc' = "processing"
  <2>1. TypeOK
    BY DEF IInv
  <2> QED BY <1>1, <2>1, DispatchMarksBatch DEF AcceptBatch, store
<1>3. /\ batch \in Seq(Block) /\ Len(batch) = k
      /\ \A i \in 1..k : i \in 1..Len(queue.blocks) /\ batch[i] = queue.blocks[i]
  BY <1>2, BatchOfQueue DEF IInv
<1>4. /\ NetworkOK(network) /\ network.height >= StartHeight - 1 /\ network.height \in Int
      /\ bus = <<>>
  BY <1>2 DEF IInv, StoreInv, EventInv, NetworkOK, IsNetwork
<1>5. /\ NetworkOK(networkModel')
      /\ networkModel'.height = network.height + k
      /\ \A h \in StartHeight..network.height : networkModel'.chain[h] = network.chain[h]
      /\ \A i \in 1..k : networkModel'.chain[network.height + i] = batch[i]
  <2> HIDE DEF batch
  <2>1. Continues(network, batch) /\ networkModel' = AddBlocks(network, batch)
    BY <1>1 DEF batch
  <2> QED BY <1>2, <1>3, <1>4, <2>1, AddBlocksExtends
<1>6. TypeOK'
  BY <1>2, <1>5 DEF IInv, TypeOK, NetworkOK
<1>7. StoreInv'
  BY <1>2 DEF IInv, StoreInv
<1>8. QueueInv' /\ EventInv'
  BY <1>2, <1>4 DEF IInv, QueueInv, EventInv, Busy, Base
<1>9. ProcessingInv'
  <2>1. ASSUME NEW m \in Models
        PROVE  StreamOK(rows[m], m, networkModel'.chain, network.height + 1 - 1)
    <3>1. StreamOK(rows[m], m, network.chain, network.height)
      BY DEF IInv, StoreInv
    <3>2. network.height + 1 - 1 = network.height
      BY <1>4
    <3> QED BY <1>4, <1>5, <3>1, <3>2, StreamOfSameChain
  <2>2. \A m \in Models : StreamOK(models'[m], m, networkModel'.chain, network'.height + cursor' - 1)
    BY <1>2, <2>1
  <2>3. \A i \in 1..k : networkModel'.chain[network.height + i] = queue.blocks[i]
    BY <1>3, <1>5
  <2> QED BY <1>2, <1>5, <2>2, <2>3 DEF ProcessingInv
<1>10. HandlerInv'
  BY <1>2, <1>5, <1>9 DEF HandlerInv
<1> QED BY <1>6, <1>7, <1>8, <1>10 DEF IInv

LEMMA RejectBatchIInv == IInv /\ RejectBatch => IInv'
<1> USE BoundsAssumption
<1> SUFFICES ASSUME IInv, RejectBatch PROVE IInv'
  OBVIOUS
<1>1. PICK k \in 1..MaxBatch : Dispatch(k)
  BY DEF RejectBatch
<1>2. /\ k \in Nat /\ k >= 1 /\ k <= Len(queue.blocks)
      /\ pc = "idle" /\ queue.open /\ queue.inFlight = 0
      /\ queue' = [open |-> queue.open, last |-> queue.last, blocks |-> queue.blocks,
                   inFlight |-> k]
      /\ UNCHANGED <<node, network, rows, bus, spent>>
      /\ networkModel' = network /\ cursor' = network.height /\ pc' = "reorganising"
      /\ models' = [m \in Models |-> {}]
  <2>1. TypeOK
    BY DEF IInv
  <2> QED BY <1>1, <2>1, DispatchMarksBatch DEF RejectBatch, store
<1>3. NetworkOK(network) /\ network.height \in Int /\ bus = <<>>
  BY <1>2 DEF IInv, StoreInv, EventInv, NetworkOK, IsNetwork
<1>4. TypeOK'
  BY <1>2, <1>3 DEF IInv, TypeOK, NetworkOK
<1>5. StoreInv'
  BY <1>2 DEF IInv, StoreInv
<1>6. QueueInv' /\ EventInv'
  BY <1>2, <1>3 DEF IInv, QueueInv, EventInv, Busy, Base
<1>7. HandlerInv'
  BY <1>2, <1>3 DEF HandlerInv
<1> QED BY <1>4, <1>5, <1>6, <1>7 DEF IInv

LEMMA ProcessBlockIInv == IInv /\ ProcessBlock => IInv'
<1> USE BoundsAssumption
<1> SUFFICES ASSUME IInv, ProcessBlock PROVE IInv'
  OBVIOUS
<1> DEFINE h == network.height + cursor
           b == networkModel.chain[h]
<1>1. /\ pc = "processing" /\ cursor <= queue.inFlight /\ cursor' = cursor + 1
      /\ UNCHANGED <<node, network, rows, bus, queue, pc, networkModel, spent>>
      /\ models' = [m \in Models |-> Apply(m, models[m], Batch[cursor])]
  BY DEF ProcessBlock, store
<1>2. ProcessingInv /\ NetworkOK(networkModel) /\ NetworkOK(network)
  BY <1>1 DEF IInv, HandlerInv, StoreInv
<1>3. /\ network.height \in Int /\ network.height >= StartHeight - 1
      /\ cursor \in 1..queue.inFlight /\ queue.inFlight \in Nat
      /\ queue.inFlight <= Len(queue.blocks)
  BY <1>1, <1>2 DEF IInv, TypeOK, QueueInv, StoreInv, NetworkOK, IsNetwork, ProcessingInv
<1>4. h \in StartHeight..networkModel.height
  BY <1>2, <1>3 DEF ProcessingInv
<1>5. b \in Block /\ b.height = h
  BY <1>2, <1>4 DEF NetworkOK, IsNetwork
<1>6. Batch[cursor] = b
  BY <1>2, <1>3, BatchOfQueue DEF IInv, Batch, ProcessingInv
<1>7. ASSUME NEW m \in Models
      PROVE  /\ StreamOK(models'[m], m, networkModel.chain, network.height + (cursor + 1) - 1)
             /\ rows[m] \subseteq models'[m]
  <2> DEFINE top == h - 1
  <2>1. models'[m] = Apply(m, models[m], b)
    BY <1>1, <1>6
  <2>2. top \in Int /\ top + 1 = h /\ top + 1 >= StartHeight
    BY <1>3, <1>4
  <2>3. StreamOK(models[m], m, networkModel.chain, top) /\ rows[m] \subseteq models[m]
    <3>1. /\ StreamOK(models[m], m, networkModel.chain, network.height + cursor - 1)
          /\ rows[m] \subseteq models[m]
      <4> HIDE DEF h, b, top
      <4> QED BY <1>2 DEF ProcessingInv
    <3>2. network.height + cursor - 1 = top
      BY <1>3
    <3> HIDE DEF top
    <3> QED BY <3>1, <3>2
  <2>4. network.height + (cursor + 1) - 1 = h
    BY <1>3
  <2>5. StreamOK(Apply(m, models[m], b), m, networkModel.chain, h)
    <3> HIDE DEF top, h
    <3>1. networkModel.chain[top + 1] = b
      BY <2>2
    <3> QED BY <1>5, <2>2, <2>3, <3>1, ApplyExtendsStream
  <2>6. models[m] \subseteq Apply(m, models[m], b)
    BY DEF Apply
  <2> QED BY <2>1, <2>3, <2>4, <2>5, <2>6
<1>8. ProcessingInv'
  BY <1>1, <1>2, <1>3, <1>7 DEF ProcessingInv
<1>9. models' \in [Models -> SUBSET Row]
  BY <1>1, <1>7 DEF StreamOK
<1>10. TypeOK'
  BY <1>1, <1>9 DEF IInv, TypeOK
<1>11. StoreInv' /\ QueueInv' /\ EventInv' /\ HandlerInv'
  BY <1>1, <1>8 DEF IInv, StoreInv, QueueInv, EventInv, HandlerInv, Busy, Batch, Base
<1> QED BY <1>10, <1>11 DEF IInv

LEMMA SaveIInv == IInv /\ Save => IInv'
<1> USE BoundsAssumption
<1> SUFFICES ASSUME IInv, Save PROVE IInv'
  OBVIOUS
<1>1. /\ pc = "processing" /\ cursor > queue.inFlight /\ pc' = "idle"
      /\ rows' = [m \in Models |-> rows[m] \cup models[m]]
      /\ network' = networkModel
      /\ bus' = Append(bus, [type |-> "BlocksAdded", blocks |-> Batch])
      /\ UNCHANGED <<node, queue, networkModel, models, cursor, spent>>
  BY DEF Save, memory
<1>2. /\ ProcessingInv /\ NetworkOK(networkModel) /\ NetworkOK(network)
      /\ bus = <<>> /\ queue.open /\ queue.inFlight >= 1 /\ Base = network.height
  BY <1>1 DEF IInv, HandlerInv, StoreInv, EventInv, Busy
<1>3. /\ network.height \in Int /\ network.height >= StartHeight - 1
      /\ queue.inFlight \in Nat /\ queue.inFlight <= Len(queue.blocks)
      /\ cursor = queue.inFlight + 1
      /\ networkModel.height = network.height + queue.inFlight
  BY <1>1, <1>2 DEF IInv, TypeOK, QueueInv, StoreInv, NetworkOK, IsNetwork, ProcessingInv
<1>4. ASSUME NEW m \in Models
      PROVE  rows'[m] = models[m] /\ StreamOK(rows'[m], m, network'.chain, network'.height)
  <2>1. /\ rows[m] \subseteq models[m]
        /\ StreamOK(models[m], m, networkModel.chain, network.height + cursor - 1)
    BY <1>2 DEF ProcessingInv
  <2>2. network.height + cursor - 1 = networkModel.height
    BY <1>3
  <2> QED BY <1>1, <2>1, <2>2
<1>5. StoreInv'
  BY <1>1, <1>2, <1>3, <1>4 DEF StoreInv
<1>6. /\ bus' = <<[type |-> "BlocksAdded", blocks |-> Batch]>>
      /\ Batch \in Seq(Block)
  BY <1>1, <1>2, <1>3, BatchOfQueue DEF IInv, Batch
<1>7. TypeOK'
  <2>1. rows' \in [Models -> SUBSET Row]
    BY <1>1, <1>4 DEF IInv, TypeOK
  <2>2. bus' \in Seq([type : {"Initialized", "Reorganized"}, height : Int]
                     \cup [type : {"BlocksAdded"}, blocks : Seq(Block)])
    BY <1>6
  <2>3. node \in Chains /\ models \in [Models -> SUBSET Row] /\ cursor \in Int /\ spent \in [Faults -> Nat]
        /\ queue \in [open : BOOLEAN, last : Int, blocks : Seq(Block), inFlight : Nat]
    BY DEF IInv, TypeOK
  <2> QED BY <1>1, <1>2, <2>1, <2>2, <2>3 DEF TypeOK, NetworkOK
<1>8. QueueInv'
  BY <1>1 DEF IInv, QueueInv, Base
<1>9. EventInv'
  <2>1. /\ Base' = Base /\ Batch' = Batch
        /\ Len(bus') = 1 /\ bus' # <<>>
        /\ bus'[1].type = "BlocksAdded" /\ bus'[1].blocks = Batch
    <3>1. Base' = Base /\ Batch' = Batch
      BY <1>1 DEF Base, Batch
    <3>2. /\ Len(bus') = 1 /\ bus' # <<>>
          /\ bus'[1].type = "BlocksAdded" /\ bus'[1].blocks = Batch
      BY <1>6
    <3> QED BY <3>1, <3>2
  <2> QED BY <1>1, <1>2, <1>3, <2>1 DEF EventInv, Busy
<1>10. HandlerInv'
  BY <1>1, <1>2 DEF HandlerInv
<1> QED BY <1>5, <1>7, <1>8, <1>9, <1>10 DEF IInv

LEMMA WalkBackIInv == IInv /\ WalkBack => IInv'
<1> USE BoundsAssumption
<1> SUFFICES ASSUME IInv, WalkBack PROVE IInv'
  OBVIOUS
<1>1. /\ pc = "reorganising" /\ HasBlock(networkModel, cursor) /\ cursor \in Int
      /\ UNCHANGED <<node, network, rows, bus, queue, models, spent>>
  BY DEF WalkBack, IInv, TypeOK, store
<1>2. \/ /\ networkModel' = Truncate(networkModel, cursor)
         /\ pc' = "rollingBack" /\ cursor' = cursor
      \/ /\ cursor' = cursor - 1 /\ pc' = pc /\ networkModel' = networkModel
  BY DEF WalkBack
<1>3. networkModel = network /\ NetworkOK(networkModel)
  BY <1>1 DEF IInv, HandlerInv
<1>4. /\ NetworkOK(networkModel') /\ cursor' \in Int /\ pc' \in {"reorganising", "rollingBack"}
      /\ HandlerInv'
  <2>1. CASE networkModel' = Truncate(networkModel, cursor) /\ pc' = "rollingBack" /\ cursor' = cursor
    BY <1>1, <1>3, <2>1, TruncateCuts DEF HandlerInv
  <2>2. CASE cursor' = cursor - 1 /\ pc' = pc /\ networkModel' = networkModel
    BY <1>1, <1>3, <2>2 DEF HandlerInv
  <2> QED BY <1>2, <2>1, <2>2
<1>5. TypeOK'
  BY <1>1, <1>4 DEF IInv, TypeOK, NetworkOK
<1>6. StoreInv' /\ QueueInv' /\ EventInv'
  BY <1>1, <1>4 DEF IInv, StoreInv, QueueInv, EventInv, Busy, Base, Batch
<1> QED BY <1>4, <1>5, <1>6 DEF IInv

LEMMA RollbackIInv == IInv /\ Rollback => IInv'
<1> USE BoundsAssumption
<1> SUFFICES ASSUME IInv, Rollback PROVE IInv'
  OBVIOUS
<1> DEFINE fork == networkModel.height
<1>1. /\ pc = "rollingBack" /\ pc' = "idle"
      /\ rows' = [m \in Models |-> UpTo(rows[m], fork)]
      /\ models' = rows' /\ network' = networkModel
      /\ bus' = Append(bus, [type |-> "Reorganized", height |-> fork])
      /\ UNCHANGED <<node, queue, networkModel, cursor, spent>>
  BY DEF Rollback
<1>2. /\ NetworkOK(networkModel) /\ NetworkOK(network)
      /\ fork \in StartHeight..network.height
      /\ \A h \in StartHeight..fork : networkModel.chain[h] = network.chain[h]
      /\ bus = <<>> /\ queue.open /\ queue.inFlight >= 1
  BY <1>1 DEF IInv, HandlerInv, StoreInv, EventInv, Busy
<1>3. network.height \in Int /\ fork \in Int /\ fork <= network.height
  BY <1>2 DEF NetworkOK, IsNetwork
<1>4. ASSUME NEW m \in Models
      PROVE  StreamOK(rows'[m], m, network'.chain, network'.height)
  <2> HIDE DEF fork
  <2>1. StreamOK(rows[m], m, network.chain, network.height)
    BY DEF IInv, StoreInv
  <2>2. \A x \in StartHeight..network.height : network.chain[x].height = x
    BY <1>2 DEF NetworkOK
  <2>3. StreamOK(UpTo(rows[m], fork), m, network.chain, fork)
    BY <1>3, <2>1, <2>2, UpToCutsStream
  <2>4. StreamOK(UpTo(rows[m], fork), m, networkModel.chain, fork)
    BY <1>2, <1>3, <2>3, StreamOfSameChain
  <2>5. network'.chain = networkModel.chain /\ network'.height = fork
    BY <1>1 DEF fork
  <2> QED BY <1>1, <2>4, <2>5
<1>5. StoreInv'
  BY <1>1, <1>2, <1>3, <1>4 DEF StoreInv
<1>6. bus' = <<[type |-> "Reorganized", height |-> fork]>>
  BY <1>1, <1>2
<1>7. TypeOK'
  <2>1. rows' \in [Models -> SUBSET Row]
    BY <1>1, <1>4 DEF StreamOK
  <2>2. bus' \in Seq([type : {"Initialized", "Reorganized"}, height : Int]
                     \cup [type : {"BlocksAdded"}, blocks : Seq(Block)])
    BY <1>3, <1>6
  <2>3. node \in Chains /\ cursor \in Int /\ spent \in [Faults -> Nat]
        /\ queue \in [open : BOOLEAN, last : Int, blocks : Seq(Block), inFlight : Nat]
    BY DEF IInv, TypeOK
  <2> QED BY <1>1, <1>2, <2>1, <2>2, <2>3 DEF TypeOK, NetworkOK
<1>8. QueueInv'
  BY <1>1 DEF IInv, QueueInv, Base
<1>9. EventInv'
  <2>1. /\ Len(bus') = 1 /\ bus' # <<>>
        /\ bus'[1].type = "Reorganized" /\ bus'[1].height = fork
    BY <1>6
  <2> QED BY <1>1, <1>2, <1>3, <2>1 DEF EventInv, Busy
<1>10. HandlerInv'
  BY <1>1, <1>2 DEF HandlerInv
<1> QED BY <1>5, <1>7, <1>8, <1>9, <1>10 DEF IInv

LEMMA RejectIInv ==
  ASSUME IInv, Busy, Reject, spent' \in [Faults -> Nat]
  PROVE  IInv'
<1> USE BoundsAssumption
<1>1. /\ pc' = "idle" /\ networkModel' = network /\ models' = rows
      /\ queue' = [open |-> queue.open, last |-> queue.last, blocks |-> queue.blocks,
                   inFlight |-> 0]
      /\ UNCHANGED <<node, network, rows, bus, cursor>>
  BY DEF Reject, IInv, TypeOK, store
<1>2. NetworkOK(network) /\ bus = <<>> /\ queue.open
  BY DEF IInv, StoreInv, EventInv
<1>3. TypeOK'
  BY <1>1 DEF IInv, TypeOK
<1>4. StoreInv'
  BY <1>1 DEF IInv, StoreInv, Busy
<1>5. QueueInv' /\ EventInv'
  BY <1>1, <1>2 DEF IInv, TypeOK, QueueInv, EventInv, Busy, Base
<1>6. HandlerInv'
  BY <1>1, <1>2 DEF HandlerInv
<1> QED BY <1>3, <1>4, <1>5, <1>6 DEF IInv

LEMMA FailuresIInv == IInv /\ (CommandFails \/ WalkBackFails) => IInv'
<1>1. CommandFails /\ IInv => Busy /\ Reject /\ spent' \in [Faults -> Nat]
  BY SpendCounts DEF CommandFails, Busy, IInv, TypeOK, Faults
<1>2. WalkBackFails /\ IInv => Busy /\ Reject /\ spent' \in [Faults -> Nat]
  BY DEF WalkBackFails, Busy, IInv, TypeOK
<1> QED BY <1>1, <1>2, RejectIInv

(* A sequence of at most one element.                                      *)
LEMMA AtMostOne ==
  ASSUME NEW T, NEW s \in Seq(T), Len(s) <= 1, s # <<>>
  PROVE  Len(s) = 1 /\ s[1] \in T /\ Head(s) = s[1] /\ Tail(s) = <<>>
<1>1. Len(s) \in Nat \ {0}
  BY EmptySeq
<1>2. Len(s) = 1
  <2>1. \A n \in Nat \ {0} : n <= 1 => n = 1
    OBVIOUS
  <2> QED BY <1>1, <2>1, Zenon
<1>3. Tail(s) = <<>>
  <2>1. Tail(s) \in Seq(T) /\ Len(Tail(s)) = 0
    BY <1>2, HeadTailProperties
  <2> QED BY <2>1, EmptySeq
<1> QED BY <1>2, <1>3

(* What is left of a sequence when its first k elements are taken off.     *)
LEMMA DropFirst ==
  ASSUME NEW T, NEW s \in Seq(T), NEW k \in Nat, k <= Len(s)
  PROVE  LET rest == SubSeq(s, k + 1, Len(s))
         IN  /\ rest \in Seq(T) /\ Len(rest) = Len(s) - k
             /\ \A i \in 1..Len(rest) : k + i \in 1..Len(s) /\ rest[i] = s[k + i]
<1> DEFINE rest == SubSeq(s, k + 1, Len(s))
<1>1. Len(s) \in Nat
  OBVIOUS
<1>2. rest \in Seq(T)
  BY <1>1
<1>3. Len(rest) = Len(s) - k
  BY <1>1
<1>4. ASSUME NEW i \in 1..(Len(s) - k)
      PROVE  k + i \in 1..Len(s) /\ rest[i] = s[k + i]
  <2>1. k + i \in 1..Len(s)
    BY <1>1
  <2>2. rest[i] = s[(k + 1) + i - 1]
    BY <1>1
  <2>3. (k + 1) + i - 1 = k + i
    OBVIOUS
  <2> QED BY <2>1, <2>2, <2>3
<1> QED BY <1>2, <1>3, <1>4

(* The only event under way is the head of the bus.                        *)
LEMMA HandleEmptiesBus ==
  ASSUME IInv, NEW type, Handle(type)
  PROVE  /\ bus # <<>> /\ bus[1].type = type /\ Head(bus) = bus[1] /\ bus' = <<>>
         /\ bus[1] \in [type : {"Initialized", "Reorganized"}, height : Int]
                        \cup [type : {"BlocksAdded"}, blocks : Seq(Block)]
         /\ pc = "idle"
<1>1. bus \in Seq([type : {"Initialized", "Reorganized"}, height : Int]
                  \cup [type : {"BlocksAdded"}, blocks : Seq(Block)])
  BY DEF IInv, TypeOK
<1>2. bus # <<>> /\ Head(bus).type = type /\ bus' = Tail(bus) /\ Len(bus) <= 1
  BY DEF IInv, EventInv, Handle
<1>3. /\ Head(bus) = bus[1] /\ Tail(bus) = <<>>
      /\ bus[1] \in [type : {"Initialized", "Reorganized"}, height : Int]
                     \cup [type : {"BlocksAdded"}, blocks : Seq(Block)]
  BY <1>1, <1>2, AtMostOne
<1>4. bus' = <<>>
  BY <1>2, <1>3
<1>5. pc = "idle"
  BY <1>2 DEF IInv, TypeOK, EventInv, Busy
<1> QED BY <1>1, <1>2, <1>3, <1>4, <1>5

(* What no event handler touches stays invariant.                          *)
LEMMA EventsKeepStore ==
  ASSUME IInv, pc = "idle", UNCHANGED <<network, rows, pc, networkModel, models, cursor>>
  PROVE  StoreInv' /\ HandlerInv'
BY DEF IInv, StoreInv, HandlerInv

LEMMA OnInitializedIInv == IInv /\ OnInitialized => IInv'
<1> USE BoundsAssumption
<1> SUFFICES ASSUME IInv, OnInitialized PROVE IInv'
  OBVIOUS
<1>1. /\ queue' = [open |-> TRUE, last |-> Head(bus).height, blocks |-> <<>>, inFlight |-> 0]
      /\ Handle("Initialized")
      /\ UNCHANGED <<node, network, rows, pc, networkModel, models, cursor, spent>>
  BY DEF OnInitialized, store, memory
<1>2. /\ bus # <<>> /\ bus[1].type = "Initialized" /\ Head(bus) = bus[1] /\ bus' = <<>>
      /\ pc = "idle"
  BY <1>1, HandleEmptiesBus
<1>3. bus[1].height = network.height /\ network.height \in Int /\ network.height >= StartHeight - 1
  BY <1>2 DEF IInv, EventInv, StoreInv, NetworkOK, IsNetwork
<1>4. queue' = [open |-> TRUE, last |-> network.height, blocks |-> <<>>, inFlight |-> 0]
  BY <1>1, <1>2, <1>3
<1>5. TypeOK'
  BY <1>1, <1>2, <1>3, <1>4 DEF IInv, TypeOK
<1>6. StoreInv' /\ HandlerInv'
  BY <1>1, <1>2, EventsKeepStore
<1>7. QueueInv' /\ EventInv'
  BY <1>1, <1>2, <1>3, <1>4 DEF QueueInv, EventInv, Base, Busy
<1> QED BY <1>5, <1>6, <1>7 DEF IInv

LEMMA OnReorganizedIInv == IInv /\ OnReorganized => IInv'
<1> USE BoundsAssumption
<1> SUFFICES ASSUME IInv, OnReorganized PROVE IInv'
  OBVIOUS
<1>1. /\ queue' = [queue EXCEPT !.last = Head(bus).height, !.blocks = <<>>, !.inFlight = 0]
      /\ Handle("Reorganized")
      /\ UNCHANGED <<node, network, rows, pc, networkModel, models, cursor, spent>>
  BY DEF OnReorganized, store, memory
<1>2. /\ bus # <<>> /\ bus[1].type = "Reorganized" /\ Head(bus) = bus[1] /\ bus' = <<>>
      /\ pc = "idle"
  BY <1>1, HandleEmptiesBus
<1>3. bus[1].height = network.height /\ network.height \in Int /\ network.height >= StartHeight - 1
  BY <1>2 DEF IInv, EventInv, StoreInv, NetworkOK, IsNetwork
<1>4. /\ queue' = [open |-> queue.open, last |-> network.height, blocks |-> <<>>, inFlight |-> 0]
      /\ queue.open \in BOOLEAN
  <2>1. queue = [open |-> queue.open, last |-> queue.last, blocks |-> queue.blocks,
                 inFlight |-> queue.inFlight] /\ queue.open \in BOOLEAN
    BY DEF IInv, TypeOK
  <2> QED BY <1>1, <1>2, <1>3, <2>1
<1>5. TypeOK'
  <2>1. queue' \in [open : BOOLEAN, last : Int, blocks : Seq(Block), inFlight : Nat]
    BY <1>3, <1>4
  <2>2. bus' \in Seq([type : {"Initialized", "Reorganized"}, height : Int]
                     \cup [type : {"BlocksAdded"}, blocks : Seq(Block)])
    BY <1>2
  <2> QED BY <1>1, <2>1, <2>2 DEF IInv, TypeOK
<1>6. StoreInv' /\ HandlerInv'
  BY <1>1, <1>2, EventsKeepStore
<1>7. QueueInv' /\ EventInv'
  BY <1>1, <1>2, <1>3, <1>4 DEF QueueInv, EventInv, Base, Busy
<1> QED BY <1>5, <1>6, <1>7 DEF IInv

LEMMA OnBlocksAddedIInv == IInv /\ OnBlocksAdded => IInv'
<1> USE BoundsAssumption
<1> SUFFICES ASSUME IInv, OnBlocksAdded PROVE IInv'
  OBVIOUS
<1> DEFINE k    == queue.inFlight
           rest == SubSeq(queue.blocks, k + 1, Len(queue.blocks))
<1>1. /\ queue' = [queue EXCEPT !.blocks = SubSeq(@, Len(Head(bus).blocks) + 1, Len(@)),
                                !.inFlight = 0]
      /\ Handle("BlocksAdded")
      /\ UNCHANGED <<node, network, rows, pc, networkModel, models, cursor, spent>>
  BY DEF OnBlocksAdded, store, memory
<1>2. /\ bus # <<>> /\ bus[1].type = "BlocksAdded" /\ Head(bus) = bus[1] /\ bus' = <<>>
      /\ pc = "idle"
  BY <1>1, HandleEmptiesBus
<1>3. /\ queue = [open |-> queue.open, last |-> queue.last, blocks |-> queue.blocks,
                  inFlight |-> k]
      /\ queue.open \in BOOLEAN /\ queue.last \in Int
      /\ queue.blocks \in Seq(Block) /\ k \in Nat /\ k <= Len(queue.blocks)
      /\ \A i \in 1..Len(queue.blocks) : queue.blocks[i].height = Base + i
      /\ network.height \in Int /\ network.height >= StartHeight - 1
  BY <1>2 DEF IInv, TypeOK, QueueInv, StoreInv, NetworkOK, IsNetwork
<1>4. bus[1].blocks = Batch /\ Base + k = network.height
  BY <1>2 DEF IInv, EventInv
<1>5. Len(Batch) = k
  BY <1>3, BatchOfQueue DEF IInv, Batch
<1>6. queue' = [open |-> queue.open, last |-> queue.last, blocks |-> rest, inFlight |-> 0]
  <2>1. Len(Head(bus).blocks) = k
    BY <1>2, <1>4, <1>5
  <2> QED BY <1>1, <1>3, <2>1
<1>7. /\ rest \in Seq(Block) /\ Len(rest) = Len(queue.blocks) - k
      /\ \A i \in 1..Len(rest) : k + i \in 1..Len(queue.blocks) /\ rest[i] = queue.blocks[k + i]
  <2> HIDE DEF k
  <2> QED BY <1>3, DropFirst
<1>8. Base \in Int /\ Base' = Base + k
  <2> HIDE DEF rest, k
  <2>1. Len(queue.blocks) \in Nat /\ queue'.last = queue.last /\ queue'.blocks = rest
    BY <1>3, <1>6
  <2> QED BY <1>3, <1>7, <2>1 DEF Base
<1>9. TypeOK'
  <2> HIDE DEF rest
  <2>1. queue' \in [open : BOOLEAN, last : Int, blocks : Seq(Block), inFlight : Nat]
    BY <1>3, <1>6, <1>7
  <2>2. bus' \in Seq([type : {"Initialized", "Reorganized"}, height : Int]
                     \cup [type : {"BlocksAdded"}, blocks : Seq(Block)])
    BY <1>2
  <2> HIDE DEF k
  <2> QED BY <1>1, <2>1, <2>2 DEF IInv, TypeOK
<1>10. StoreInv' /\ HandlerInv'
  BY <1>1, <1>2, EventsKeepStore
<1>11. QueueInv'
  <2> HIDE DEF rest, k
  <2>1. ASSUME NEW i \in 1..Len(rest) PROVE rest[i].height = Base' + i
    <3>1. rest[i].height = Base + (k + i)
      BY <1>3, <1>7
    <3> QED BY <1>3, <1>8, <3>1
  <2>2. queue'.blocks = rest /\ queue'.inFlight = 0 /\ queue'.open = queue.open /\ queue'.last = queue.last
    BY <1>6
  <2>3. queue.open => queue.last >= StartHeight - 1
    BY DEF IInv, QueueInv
  <2>4. 0 <= Len(rest)
    BY <1>7
  <2> QED BY <2>1, <2>2, <2>3, <2>4 DEF QueueInv
<1>12. EventInv'
  <2> HIDE DEF rest, k
  <2>1. Base' = network'.height
    BY <1>1, <1>4, <1>8
  <2>2. pc' = "idle" /\ bus' = <<>> /\ Len(bus') = 0
    BY <1>1, <1>2
  <2> QED BY <2>1, <2>2 DEF EventInv, Busy
<1> QED BY <1>9, <1>10, <1>11, <1>12 DEF IInv

LEMMA CrashIInv == IInv /\ Crash => IInv'
<1> USE BoundsAssumption
<1> SUFFICES ASSUME IInv, Crash PROVE IInv'
  OBVIOUS
<1>1. /\ pc' = "off" /\ queue' = ClosedQueue /\ bus' = <<>>
      /\ networkModel' = network /\ models' = rows
      /\ UNCHANGED <<node, network, rows, cursor>>
      /\ spent' \in [Faults -> Nat]
  BY SpendCounts DEF Crash, store, IInv, TypeOK, Faults
<1>2. NetworkOK(network)
  BY DEF IInv, StoreInv
<1>3. TypeOK'
  BY <1>1 DEF IInv, TypeOK, ClosedQueue
<1>4. StoreInv'
  <2>1. pc # "off"
    BY DEF Crash
  <2> QED BY <1>1, <2>1 DEF IInv, StoreInv
<1>5. QueueInv' /\ EventInv'
  BY <1>1 DEF QueueInv, EventInv, Busy, ClosedQueue, Base
<1>6. HandlerInv'
  BY <1>1, <1>2 DEF HandlerInv
<1> QED BY <1>3, <1>4, <1>5, <1>6 DEF IInv

LEMMA StutterIInv == IInv /\ UNCHANGED vars => IInv'
<1> SUFFICES ASSUME IInv, UNCHANGED vars PROVE IInv'
  OBVIOUS
<1>1. UNCHANGED <<node, network, rows, bus, queue, pc, networkModel, models, cursor, spent>>
  BY DEF vars, store, memory
<1> QED BY <1>1 DEF IInv, TypeOK, StoreInv, QueueInv, EventInv, HandlerInv,
                    ProcessingInv, Busy, Batch, Base

(* IInv holds in every reachable state, whatever the node does and however *)
(* often commands fail and the process crashes.                            *)
THEOREM InductiveInvariant == Spec => []IInv
<1>1. Init => IInv
  BY InitIInv
<1>2. IInv /\ [Next]_vars => IInv'
  BY NodeMovesIInv, InitNetworkIInv, LoadIInv, AcceptBatchIInv, RejectBatchIInv,
     ProcessBlockIInv, SaveIInv, WalkBackIInv, RollbackIInv, FailuresIInv,
     OnInitializedIInv, OnBlocksAddedIInv, OnReorganizedIInv, CrashIInv, StutterIInv
     DEF Next, Handler, Events
<1> QED BY <1>1, <1>2, PTL DEF Spec

-----------------------------------------------------------------------------
(* What the inductive invariant says of each property.                     *)

(* Every variable of the pipeline always holds a value of its kind.        *)
THEOREM TypeCorrect == Spec => []TypeOK
<1>1. IInv => TypeOK
  BY DEF IInv
<1> QED BY <1>1, InductiveInvariant, PTL

(* After any history of batches, retries, reorganisations and crashes each *)
(* user model has stored exactly one event for every indexed block it      *)
(* reacts to, and none for another block.                                  *)
THEOREM ExactlyOnceHolds == Spec => []ExactlyOnce
<1>1. ASSUME IInv PROVE ExactlyOnce
  <2> USE BoundsAssumption
  <2> SUFFICES ASSUME NEW m \in Models
               PROVE  /\ {r.block : r \in rows[m]} = IndexedBlocks \cap Emits[m]
                      /\ \A r, s \in rows[m] : r.block = s.block => r = s
    BY DEF ExactlyOnce
  <2> DEFINE S == rows[m]
             c == network.chain
             I == StartHeight..network.height
  <2>1. StreamOK(S, m, c, network.height) /\ DOMAIN c = I
    BY <1>1 DEF IInv, StoreInv, NetworkOK, IsNetwork
  <2>2. \A r \in S : /\ r = [version |-> r.version, block |-> r.block]
                     /\ r.version \in Nat /\ r.block.height \in Nat
                     /\ r.block.height \in I /\ r.block = c[r.block.height]
                     /\ r.block \in Emits[m]
    BY <2>1, BlockHeight DEF StreamOK, Row
  <2>3. \A h \in I : c[h] \in Emits[m] => \E r \in S : r.block = c[h]
    BY <2>1 DEF StreamOK
  <2>4. \A r, s \in S : r.version < s.version <=> r.block.height < s.block.height
    BY <2>1 DEF StreamOK
  <2>5. \A r, s \in S : r.block = s.block => r = s
    <3> SUFFICES ASSUME NEW r \in S, NEW s \in S, r.block = s.block PROVE r = s
      OBVIOUS
    <3>1. ~(r.version < s.version) /\ ~(s.version < r.version)
      BY <2>2, <2>4
    <3>2. r.version = s.version
      BY <2>2, <3>1
    <3> HIDE DEF S
    <3> QED BY <2>2, <3>2
  <2>6. {r.block : r \in S} = IndexedBlocks \cap Emits[m]
    <3> HIDE DEF S, c, I
    <3>1. IndexedBlocks = {c[h] : h \in I}
      BY <2>1 DEF IndexedBlocks, c
    <3> QED BY <2>2, <2>3, <3>1
  <2> QED BY <2>5, <2>6
<1> QED BY <1>1, InductiveInvariant, PTL

(* Replaying a model's rows by version always visits the chain upwards,    *)
(* without a missing version.                                              *)
THEOREM ReplayOrderHolds == Spec => []ReplayOrder
<1>1. ASSUME IInv PROVE ReplayOrder
  <2> SUFFICES ASSUME NEW m \in Models, NEW r \in rows[m]
               PROVE  /\ \A s \in rows[m] : r.version < s.version => r.block.height < s.block.height
                      /\ \A v \in 1..r.version : \E s \in rows[m] : s.version = v
    BY DEF ReplayOrder
  <2>1. StreamOK(rows[m], m, network.chain, network.height)
    BY <1>1 DEF IInv, StoreInv
  <2>2. PICK n \in Nat : {s.version : s \in rows[m]} = 1..n
    BY <2>1 DEF StreamOK
  <2>3. ASSUME NEW v \in 1..r.version PROVE \E s \in rows[m] : s.version = v
    <3>1. r.version \in 1..n
      BY <2>2
    <3>2. v \in 1..n
      BY <3>1
    <3> QED BY <2>2, <3>2
  <2> QED BY <2>1, <2>3 DEF StreamOK
<1> QED BY <1>1, InductiveInvariant, PTL

(* The stored chain is always one hash-linked chain without a missing      *)
(* height.                                                                 *)
THEOREM ChainLinkedHolds == Spec => []ChainLinked
<1>1. IInv => ChainLinked
  BY DEF IInv, StoreInv, NetworkOK, ChainLinked
<1> QED BY <1>1, InductiveInvariant, PTL

(* The queue never skips or repeats a height, and once every event has     *)
(* been handled it goes on right after the stored height.                  *)
THEOREM QueueContiguousHolds == Spec => []QueueContiguous
<1>1. IInv => QueueContiguous
  BY DEF IInv, QueueInv, EventInv, Base, QueueContiguous
<1> QED BY <1>1, InductiveInvariant, PTL

(* A confirmation always names exactly the batch that is in flight.        *)
THEOREM ConfirmMatchesBatchHolds == Spec => []ConfirmMatchesBatch
<1>1. ASSUME IInv PROVE ConfirmMatchesBatch
  <2>1. Len(bus) \in Nat /\ Len(bus) <= 1 /\ (Len(bus) = 1 => bus # <<>>)
    <3>1. Len(bus) <= 1
      BY <1>1 DEF IInv, EventInv
    <3>2. bus \in Seq([type : {"Initialized", "Reorganized"}, height : Int]
                      \cup [type : {"BlocksAdded"}, blocks : Seq(Block)])
      BY <1>1 DEF IInv, TypeOK
    <3>3. Len(bus) \in Nat /\ (bus = <<>> => Len(bus) = 0)
      BY <3>2
    <3> QED BY <3>1, <3>3
  <2>2. \A i \in 1..Len(bus) : i = 1 /\ bus # <<>>
    BY <2>1
  <2> QED BY <1>1, <2>2 DEF IInv, EventInv, ConfirmMatchesBatch
<1> QED BY <1>1, InductiveInvariant, PTL

-----------------------------------------------------------------------------
(* Who unlocks the queue.                                                  *)

(* On a bus with one event it is that event, on an empty one nobody.       *)
LEMMA NothingPending ==
  ASSUME bus = <<>>
  PROVE  AnswerPending <=> Busy
<1>1. 1..Len(bus) = {}
  OBVIOUS
<1> QED BY <1>1 DEF AnswerPending, Busy

LEMMA EventPending ==
  ASSUME NEW e, bus' = Append(<<>>, e), pc' = "idle"
  PROVE  AnswerPending' <=> e.type \in {"BlocksAdded", "Reorganized"}
<1>1. Len(bus') = 1 /\ bus'[1] = e
  OBVIOUS
<1>2. \A i : i \in 1..Len(bus') <=> i = 1
  BY <1>1
<1> QED BY <1>1, <1>2 DEF AnswerPending

(* A command is answered with an event, or locks nothing any more.         *)
LEMMA CommandOwned ==
  ASSUME IInv, InFlightOwned,
         \/ AcceptBatch \/ RejectBatch \/ ProcessBlock \/ WalkBack
         \/ Save \/ Rollback \/ CommandFails \/ WalkBackFails
  PROVE  InFlightOwned'
<1>1. Busy => bus = <<>> /\ queue.inFlight >= 1
  BY DEF IInv, EventInv
<1>2. queue \in [open : BOOLEAN, last : Int, blocks : Seq(Block), inFlight : Nat]
  BY DEF IInv, TypeOK
<1>3. CASE AcceptBatch \/ RejectBatch
  <2>1. PICK k \in 1..MaxBatch : Dispatch(k)
    BY <1>3 DEF AcceptBatch, RejectBatch
  <2>2. queue'.inFlight = k /\ k > 0
    BY <1>2, <2>1 DEF Dispatch
  <2>3. pc' \in {"processing", "reorganising"}
    BY <1>3 DEF AcceptBatch, RejectBatch
  <2> QED BY <2>2, <2>3 DEF InFlightOwned, AnswerPending
<1>4. CASE ProcessBlock \/ WalkBack
  <2>1. queue' = queue /\ Busy
    BY <1>4 DEF ProcessBlock, WalkBack, Busy
  <2>2. pc' \in {"processing", "reorganising", "rollingBack"}
    BY <1>4 DEF ProcessBlock, WalkBack
  <2>3. queue'.inFlight > 0
    BY <1>1, <1>2, <2>1
  <2> QED BY <2>2, <2>3 DEF InFlightOwned, AnswerPending
<1>5. CASE Save \/ Rollback
  <2>1. queue' = queue /\ Busy /\ pc' = "idle"
    BY <1>5 DEF Save, Rollback, Busy
  <2>2. PICK e : bus' = Append(bus, e) /\ e.type \in {"BlocksAdded", "Reorganized"}
    BY <1>5 DEF Save, Rollback
  <2>3. queue'.inFlight > 0 /\ bus' = Append(<<>>, e)
    BY <1>1, <1>2, <2>1, <2>2
  <2> QED BY <2>1, <2>2, <2>3, EventPending DEF InFlightOwned
<1>6. CASE CommandFails \/ WalkBackFails
  <2>1. Busy /\ Reject
    BY <1>6 DEF CommandFails, WalkBackFails, Busy
  <2>2. bus' = <<>> /\ pc' = "idle" /\ queue'.inFlight = 0
    BY <1>1, <1>2, <2>1 DEF Reject
  <2>3. ~AnswerPending'
    BY <2>2 DEF AnswerPending
  <2> QED BY <2>2, <2>3 DEF InFlightOwned
<1> QED BY <1>3, <1>4, <1>5, <1>6

(* Every event that is handled unlocks the queue; it was the only one.     *)
LEMMA EventsOwned ==
  ASSUME IInv, OnInitialized \/ OnBlocksAdded \/ OnReorganized
  PROVE  InFlightOwned'
<1>1. PICK type : Handle(type)
  BY DEF OnInitialized, OnBlocksAdded, OnReorganized
<1>2. bus' = <<>> /\ pc = "idle"
  BY <1>1, HandleEmptiesBus
<1>3. pc' = pc /\ queue'.inFlight = 0
  <2>1. queue \in [open : BOOLEAN, last : Int, blocks : Seq(Block), inFlight : Nat]
    BY DEF IInv, TypeOK
  <2>2. \/ \E a : queue' = [open |-> TRUE, last |-> a, blocks |-> <<>>, inFlight |-> 0]
        \/ \E a : queue' = [queue EXCEPT !.blocks = a, !.inFlight = 0]
        \/ \E a : queue' = [queue EXCEPT !.last = a, !.blocks = <<>>, !.inFlight = 0]
    BY DEF OnInitialized, OnBlocksAdded, OnReorganized
  <2>3. pc' = pc
    BY DEF OnInitialized, OnBlocksAdded, OnReorganized
  <2>4. CASE \E a : queue' = [open |-> TRUE, last |-> a, blocks |-> <<>>, inFlight |-> 0]
    BY <2>3, <2>4
  <2>5. CASE \E a : queue' = [queue EXCEPT !.blocks = a, !.inFlight = 0]
    BY <2>1, <2>3, <2>5
  <2>6. CASE \E a : queue' = [queue EXCEPT !.last = a, !.blocks = <<>>, !.inFlight = 0]
    BY <2>1, <2>3, <2>6
  <2> QED BY <2>2, <2>4, <2>5, <2>6
<1>4. ~AnswerPending'
  BY <1>2, <1>3 DEF AnswerPending
<1> QED BY <1>3, <1>4 DEF InFlightOwned

(* Starts, crashes, the loader and the node.                               *)
LEMMA ProcessOwned ==
  ASSUME IInv, InFlightOwned, InitNetwork \/ Crash \/ Load \/ NodeMoves \/ UNCHANGED vars
  PROVE  InFlightOwned'
<1>1. CASE InitNetwork
  <2>1. pc = "off" /\ pc' = "idle" /\ queue' = queue /\ bus = <<>>
    BY <1>1 DEF InitNetwork, IInv, EventInv
  <2>2. ~(queue'.inFlight > 0)
    <3>1. ~Busy
      BY <2>1 DEF Busy
    <3> QED BY <2>1, <3>1, NothingPending DEF InFlightOwned
  <2>3. PICK e : bus' = Append(<<>>, e) /\ e.type = "Initialized"
    BY <1>1, <2>1 DEF InitNetwork
  <2> QED BY <2>1, <2>2, <2>3, EventPending DEF InFlightOwned
<1>2. CASE Crash
  <2>1. bus' = <<>> /\ pc' = "off" /\ queue'.inFlight = 0
    BY <1>2 DEF Crash, ClosedQueue
  <2>2. ~AnswerPending'
    BY <2>1 DEF AnswerPending
  <2> QED BY <2>1, <2>2 DEF InFlightOwned
<1>3. CASE Load \/ NodeMoves \/ UNCHANGED vars
  <2>1. bus' = bus /\ pc' = pc /\ queue'.inFlight = queue.inFlight
    BY <1>3 DEF Load, NodeMoves, vars, memory, store, IInv, TypeOK
  <2> QED BY <2>1 DEF InFlightOwned, AnswerPending
<1> QED BY <1>1, <1>2, <1>3

(* confirmProcessedBatch and reorganizeBlocks: the queue is locked as long *)
(* as a command runs or its event is under way, and no longer: whatever    *)
(* fails or crashes, no lock is left that nobody is going to take away.    *)
THEOREM InFlightOwnedHolds == Spec => []InFlightOwned
<1>1. Init => InFlightOwned
  <2> SUFFICES ASSUME Init PROVE InFlightOwned
    OBVIOUS
  <2>1. bus = <<>> /\ ~Busy /\ ~(queue.inFlight > 0)
    BY DEF Init, ClosedQueue, Busy
  <2> QED BY <2>1, NothingPending DEF InFlightOwned
<1>2. IInv /\ InFlightOwned /\ [Next]_vars => InFlightOwned'
  BY CommandOwned, EventsOwned, ProcessOwned DEF Next, Handler, Events
<1> QED BY <1>1, <1>2, InductiveInvariant, PTL DEF Spec

-----------------------------------------------------------------------------
(* BlockIngestion implements ChainIndex: its initial states are initial    *)
(* states there, Save extends the chain, Rollback rewinds it, and no other *)
(* step of the pipeline can be seen in the database.                       *)

(* The heights up to h that model m reacts to.                             *)
HeightsUpTo(m, c, top, h) == {x \in StartHeight..top : c[x] \in Emits[m] /\ x <= h}

(* The block at height h of the chain c has height h.                      *)
ByHeight(c, top) == \A h \in StartHeight..top : c[h].height = h

(* The rows of one model up to version v are as many as the heights up to  *)
(* the one of v that the model reacts to.                                  *)
LEMMA VersionCounts ==
  ASSUME NEW m, NEW S, NEW c, NEW top \in Int, StreamOK(S, m, c, top),
         ByHeight(c, top), NEW r \in S
  PROVE  r.version = Cardinality(HeightsUpTo(m, c, top, r.block.height))
<1> DEFINE v == r.version
           H == {x \in StartHeight..top : c[x] \in Emits[m] /\ x <= r.block.height}
<1>1. \A s \in S : /\ s.version \in Nat
                   /\ s.block.height \in StartHeight..top /\ s.block.height \in Int
                   /\ s.block = c[s.block.height] /\ s.block \in Emits[m]
  BY BoundsAssumption DEF StreamOK, Row
<1>2. \A s, t \in S : s.version < t.version <=> s.block.height < t.block.height
  BY DEF StreamOK
<1>3. \A s, t \in S : s.version = t.version <=> s.block.height = t.block.height
  BY <1>1, <1>2
<1>4. PICK n \in Nat : {s.version : s \in S} = 1..n
  BY DEF StreamOK
<1>5. v \in Nat /\ \A w \in 1..v : \E s \in S : s.version = w
  <2>1. v \in 1..n
    BY <1>4
  <2>2. ASSUME NEW w \in 1..v PROVE \E s \in S : s.version = w
    <3>1. w \in 1..n
      BY <2>1
    <3> QED BY <1>4, <3>1
  <2> QED BY <2>1, <2>2
<1> DEFINE RowAt(w) == CHOOSE s \in S : s.version = w
           f == [w \in 1..v |-> RowAt(w).block.height]
<1>6. \A w \in 1..v : RowAt(w) \in S /\ RowAt(w).version = w /\ f[w] = RowAt(w).block.height
  BY <1>5
<1>7. f \in [1..v -> H]
  <2>1. ASSUME NEW w \in 1..v PROVE f[w] \in H
    <3>0. RowAt(w) \in S /\ RowAt(w).version = w /\ ~(r.version < w)
      BY <1>5, <1>6
    <3>1. RowAt(w) \in S /\ ~(r.version < RowAt(w).version)
      BY <3>0, Zenon
    <3>2. ~(r.block.height < RowAt(w).block.height)
      BY <1>2, <3>1
    <3> HIDE DEF RowAt
    <3>3. RowAt(w).block.height \in H
      BY <1>1, <3>1, <3>2
    <3> QED BY <1>6, <3>3
  <2> HIDE DEF H, RowAt
  <2> QED BY <2>1
<1>8. ASSUME NEW x \in H PROVE \E w \in 1..v : f[w] = x
  <2>1. PICK s \in S : s.block = c[x]
    BY DEF StreamOK
  <2>2. s.block.height = x
    BY <2>1 DEF ByHeight
  <2>3. s.version \in 1..v
    <3>1. s.version \in 1..n
      BY <1>4
    <3>2. ~(r.version < s.version)
      BY <1>1, <1>2, <2>2
    <3> QED BY <1>1, <3>1, <3>2
  <2>4. RowAt(s.version) \in S /\ RowAt(s.version).version = s.version
        /\ f[s.version] = RowAt(s.version).block.height
    BY <1>6, <2>3
  <2> HIDE DEF RowAt, f
  <2>5. f[s.version] = x
    BY <1>3, <2>2, <2>4
  <2> QED BY <2>3, <2>5
<1>9. ASSUME NEW w \in 1..v, NEW u \in 1..v, f[w] = f[u] PROVE w = u
  <2> HIDE DEF RowAt, f
  <2> QED BY <1>3, <1>6, <1>9
<1>10. ExistsBijection(1..v, H)
  <2> HIDE DEF f, H, v
  <2>1. f \in Bijection(1..v, H)
    BY <1>7, <1>8, <1>9 DEF Bijection, Injection, Surjection, IsInjective
  <2> QED BY <2>1 DEF ExistsBijection
<1>11. IsFiniteSet(1..v) /\ Cardinality(1..v) = v
  <2>1. \A k \in Nat : IsFiniteSet(1..k) /\ Cardinality(1..k) = k
    BY FS_Interval
  <2> QED BY <1>5, <2>1
<1> HIDE DEF H, v
<1>12. Cardinality(H) = v
  BY <1>10, <1>11, FS_Bijection
<1> QED BY <1>12 DEF H, v, HeightsUpTo

(* The stored stream of a chain is the one ChainIndex names.               *)
LEMMA StreamIsStream ==
  ASSUME NEW m, NEW S, NEW top \in Int, NEW c \in [StartHeight..top -> Block],
         StreamOK(S, m, c, top), ByHeight(c, top)
  PROVE  S = Index!Stream(m, c)
<1> DEFINE heights == {h \in DOMAIN c : c[h] \in Emits[m]}
           Entry(h) == [version |-> Cardinality({x \in heights : x <= h}), block |-> c[h]]
<1>1. Index!Stream(m, c) = {Entry(h) : h \in heights}
  <2>1. \A T : Index!Cardinality(T) = Cardinality(T)
    BY DEF Index!Cardinality, Cardinality
  <2> QED BY <2>1 DEF Index!Stream
<1>2. ASSUME NEW r \in S PROVE r.block.height \in heights /\ r = Entry(r.block.height)
  <2>1. /\ r \in Row /\ r.block.height \in StartHeight..top
        /\ r.block = c[r.block.height] /\ r.block \in Emits[m]
    BY DEF StreamOK
  <2>2. r = [version |-> r.version, block |-> r.block]
    BY <2>1 DEF Row
  <2>3. {x \in heights : x <= r.block.height}
          = HeightsUpTo(m, c, top, r.block.height)
    BY DEF HeightsUpTo
  <2>4. r.version = Cardinality({x \in heights : x <= r.block.height})
    <3>1. r.version = Cardinality(HeightsUpTo(m, c, top, r.block.height))
      BY VersionCounts
    <3> QED BY <2>3, <3>1
  <2> HIDE DEF heights
  <2>5. r = Entry(r.block.height)
    BY <2>1, <2>2, <2>4
  <2> QED BY <2>1, <2>5 DEF heights
<1>3. ASSUME NEW h \in heights PROVE Entry(h) \in S
  <2>1. PICK r \in S : r.block = c[h]
    BY DEF StreamOK
  <2>2. r.block.height = h
    BY <2>1 DEF ByHeight
  <2> HIDE DEF heights, Entry
  <2> QED BY <1>2, <2>2
<1> HIDE DEF heights, Entry
<1> QED BY <1>1, <1>2, <1>3

-----------------------------------------------------------------------------
(* The stored chain and the streams, as ChainIndex sees them.              *)
IndexView ==
  /\ DOMAIN network.chain = StartHeight..network.height
  /\ Index!Linked(network.chain)
  /\ rows = [m \in Models |-> Index!Stream(m, network.chain)]

LEMMA StoreIsIndex == IInv => IndexView
<1> SUFFICES ASSUME IInv PROVE IndexView
  OBVIOUS
<1>1. /\ NetworkOK(network) /\ network.height \in Int
      /\ network.chain \in [StartHeight..network.height -> Block]
      /\ \A h \in StartHeight..network.height :
           /\ network.chain[h].height = h
           /\ h > StartHeight => network.chain[h].prev = network.chain[h - 1].hash
  BY DEF IInv, StoreInv, NetworkOK, IsNetwork
<1>2. Index!Linked(network.chain)
  <2> DEFINE c == network.chain
             top == network.height
  <2>1. StartHeight \in Int /\ DOMAIN c = StartHeight..top /\ top \in Int
    BY <1>1, BoundsAssumption
  <2>2. \A h \in StartHeight..top : c[h].height = h /\ (h > StartHeight => c[h].prev = c[h - 1].hash)
    BY <1>1
  <2> HIDE DEF c, top
  <2>3. ASSUME NEW h \in DOMAIN c
        PROVE  c[h].height = h /\ (h - 1 \in DOMAIN c => c[h].prev = c[h - 1].hash)
    <3>1. h - 1 \in DOMAIN c => h > StartHeight
      BY <2>1
    <3> QED BY <2>1, <2>2, <3>1
  <2> QED BY <2>3 DEF Index!Linked, c
<1>3. ASSUME NEW m \in Models PROVE rows[m] = Index!Stream(m, network.chain)
  <2>1. StreamOK(rows[m], m, network.chain, network.height)
    BY DEF IInv, StoreInv
  <2>2. ByHeight(network.chain, network.height)
    BY <1>1 DEF ByHeight
  <2> QED BY <1>1, <2>1, <2>2, StreamIsStream
<1>4. rows \in [Models -> SUBSET Row]
  BY DEF IInv, TypeOK
<1>5. rows = [m \in Models |-> rows[m]]
  BY <1>4
<1> QED BY <1>1, <1>2, <1>3, <1>5 DEF IndexView

(* InitNetwork only tells the queue from where to go on, and the other     *)
(* steps leave the database alone.                                         *)
LEMMA OtherStepsInvisible ==
  ASSUME IInv, [Next]_vars, ~Save, ~Rollback
  PROVE  UNCHANGED <<network.chain, rows>>
<1>1. CASE InitNetwork
  <2>1. network = [height |-> network.height, lo |-> network.lo, chain |-> network.chain]
    BY DEF IInv, StoreInv, NetworkOK, IsNetwork
  <2> QED BY <1>1, <2>1 DEF InitNetwork
<1>2. CASE ~InitNetwork
  <2>1. UNCHANGED <<network, rows>>
    BY <1>2 DEF Next, Handler, Events, vars, store, NodeMoves, Load, AcceptBatch,
         RejectBatch, ProcessBlock, WalkBack, WalkBackFails, CommandFails, Reject,
         OnInitialized, OnBlocksAdded, OnReorganized, Crash
  <2> QED BY <2>1
<1> QED BY <1>1, <1>2

(* The saved batch is put on top of the indexed chain.                     *)
LEMMA SaveExtends ==
  ASSUME IInv, IndexView, IndexView', Save
  PROVE  Index!Extend
<1> USE BoundsAssumption
<1> DEFINE old == network.height
           new == networkModel.height
           n   == new - StartHeight + 1
<1>1. ProcessingInv /\ queue.inFlight \in Nat \ {0} /\ old \in Int /\ old >= StartHeight - 1
  <2>1. pc = "processing" /\ Busy
    BY DEF Save, Busy
  <2>2. queue.inFlight \in Nat /\ queue.inFlight >= 1
    BY <2>1 DEF IInv, TypeOK, EventInv
  <2> QED BY <2>1, <2>2 DEF IInv, HandlerInv, StoreInv, NetworkOK, IsNetwork
<1>2. /\ new \in Int /\ new > old /\ n \in Nat
      /\ \A h \in StartHeight..old : networkModel.chain[h] = network.chain[h]
  BY <1>1 DEF ProcessingInv
<1>3. network' = networkModel
  BY DEF Save
<1>4. /\ DOMAIN network.chain = StartHeight..old
      /\ DOMAIN (network.chain)' = StartHeight..new
      /\ Index!Linked(network.chain)'
  BY <1>3 DEF IndexView
<1>5. /\ Cardinality(StartHeight..new) = n
      /\ Cardinality(StartHeight..old) = old - StartHeight + 1
  <2>1. \A k \in Int : k >= StartHeight - 1 => Cardinality(StartHeight..k) = k - StartHeight + 1
    BY FS_Interval
  <2> QED BY <1>1, <1>2, <2>1
<1>6. \A T : Index!Cardinality(T) = Cardinality(T)
  BY DEF Index!Cardinality, Cardinality
<1>7. Index!Cardinality(DOMAIN (network.chain)') = n
  BY <1>4, <1>5, <1>6
<1>8. n > Index!Cardinality(DOMAIN network.chain) /\ StartHeight..new = StartHeight..(StartHeight + n - 1)
  BY <1>1, <1>2, <1>4, <1>5, <1>6
<1> HIDE DEF old, new, n
<1>9. \A h \in DOMAIN network.chain : (network.chain)'[h] = network.chain[h]
  BY <1>2, <1>3, <1>4
<1> QED BY <1>4, <1>7, <1>8, <1>9 DEF Index!Extend

(* The rollback cuts the indexed chain at the height the walk back found.  *)
LEMMA RollbackRewinds ==
  ASSUME IInv, Rollback
  PROVE  Index!Rewind
<1> DEFINE h == networkModel.height
<1>1. /\ h \in StartHeight..network.height
      /\ \A x \in StartHeight..h : networkModel.chain[x] = network.chain[x]
      /\ networkModel.chain \in [StartHeight..h -> Block]
      /\ DOMAIN network.chain = StartHeight..network.height
  BY DEF Rollback, IInv, StoreInv, HandlerInv, NetworkOK, IsNetwork
<1>2. networkModel.chain = [x \in StartHeight..h |-> network.chain[x]]
  BY <1>1
<1>3. network' = networkModel
  BY DEF Rollback
<1> HIDE DEF h
<1> QED BY <1>1, <1>2, <1>3 DEF Index!Rewind

(* Every behaviour of the pipeline is, in its database, one of ChainIndex. *)
THEOREM ImplementsChainIndexHolds == Spec => ImplementsChainIndex
<1>1. Init => Index!Init
  BY DEF Init, NewNetwork, Index!Init
<1>2. IInv /\ IndexView /\ IndexView' /\ [Next]_vars
        => [Index!Next]_<<network.chain, rows>>
  <2> SUFFICES ASSUME IInv, IndexView, IndexView', [Next]_vars
               PROVE  [Index!Next]_<<network.chain, rows>>
    OBVIOUS
  <2>1. rows' = [m \in Models |-> Index!Stream(m, (network.chain)')]
    BY DEF IndexView
  <2> QED BY <2>1, OtherStepsInvisible, SaveExtends, RollbackRewinds DEF Index!Next
<1> QED BY <1>1, <1>2, StoreIsIndex, InductiveInvariant, PTL
        DEF Spec, ImplementsChainIndex, Index!Spec
=============================================================================
