------------------------- MODULE MempoolCycleProofs -------------------------
(***************************************************************************)
(* The safety properties of MempoolCycle, proved for every set of          *)
(* transactions, every load and every number of blocks and faults.         *)
(***************************************************************************)
EXTENDS MempoolCycle, FiniteSetTheorems, FunctionTheorems, WellFoundedInduction, TLAPS

-----------------------------------------------------------------------------
(* The invariant.                                                          *)

Typed ==
  /\ TypeOK
  /\ startHeight \in StartHeights
  /\ bus = <<>> \/ \E e : bus = <<e>>

Idle(command) == command.phase = "idle"

Turns == {<<"Refreshed">>, <<"SyncProcessed">>, <<"Synchronized">>}

(* Nobody works for the loader; or one does, and only one.                 *)
Quiet == ~loader.locked /\ Idle(refresh) /\ Idle(sync) /\ bus \in {<<>>, <<"Initialized">>}

Owned ==
  /\ loader.locked
  /\ \/ bus \in Turns /\ Idle(refresh) /\ Idle(sync)
     \/ bus = <<>> /\ ~Idle(refresh) /\ Idle(sync)
     \/ bus = <<>> /\ Idle(refresh) /\ ~Idle(sync)
     \/ bus = <<>> /\ Idle(refresh) /\ Idle(sync) /\ pc = "dying"

LockInv ==
  /\ Quiet \/ (Owned /\ loader.started)
  /\ bus = <<"Initialized">> => ~loader.started
  /\ pc = "off" => /\ Quiet /\ bus = <<>> /\ ~loader.started
                    /\ Idle(block) /\ network = "off"

(* What a sync has loaded, and what it means that it has loaded nothing.   *)
SyncInv ==
  /\ ~Idle(sync) => sync.loaded \subseteq mempool.known
  /\ sync.phase = "restored" => sync.loaded = mempool.loaded
  /\ sync.phase \in {"loaded", "ticked"} /\ sync.loaded = mempool.loaded => Missing = {}
  /\ bus = <<"Synchronized">> => Missing = {}

Versioned(S) ==
  /\ IsFiniteSet(S) /\ \A r \in S : r.version \in Nat
  /\ \E m \in Nat : \A r \in S : r.version <= m

(* A sync knows every transaction the model has reported, and more if a    *)
(* rollback comes between; the blocks of a batch are new.                  *)
RowsInv ==
  /\ Versioned(rows)
  /\ ReportedOnce
  /\ ~Idle(sync) => /\ Versioned(sync.base)
                    /\ \A r \in rows : r.what \in Txids => r \in sync.base
  /\ sync.phase = "ticked" =>
       sync.new = Emit(sync.base, mempool.loaded \ Reported(sync.base), mempool.height)
  /\ ~Idle(block) => block.base \subseteq rows /\ spent["blocks"] > 0
  /\ \A r \in rows : r.what \in Txids \/ r.what[1] <= spent["blocks"]
  /\ ~Idle(block) => \A r \in rows : r.what \in Txids \/ r.what[1] < spent["blocks"]

Distinct(S) == \A r, s \in S : r.version = s.version => r = s

(* What stands above it in height stands above it in number.               *)
Rising(S) == \A r, s \in S : r.version < s.version => r.height <= s.height

Gapless(S) == \A r \in S : \A v \in 1..r.version : \E s \in S : s.version = v

(* Commands that do not overlap work on all of the stored events.  A       *)
(* rollback cuts off the last ones, if no event is below an earlier one.   *)
VersionsInv ==
  exclusive =>
    /\ Distinct(rows)
    /\ ~Idle(sync) => Idle(block) /\ sync.base = rows
    /\ ~Idle(block) => block.base = rows
    /\ ~apart => /\ Gapless(rows) /\ Rising(rows)
                 /\ \A r \in rows : r.height <= height

IInv == Typed /\ LockInv /\ SyncInv /\ RowsInv /\ VersionsInv

-----------------------------------------------------------------------------
(* What the user model emits.                                              *)

(* The largest of some numbers, of which there is a first bound.           *)
LEMMA LargestExists ==
  ASSUME NEW V \in SUBSET Nat, V # {}, NEW m \in Nat, \A v \in V : v <= m
  PROVE  Max(V) \in V /\ \A v \in V : v <= Max(V)
<1> DEFINE Bounds == {b \in Nat : \A v \in V : v <= b}
           R == OpToRel(<, Nat)
<1>1. Bounds \subseteq Nat /\ Bounds # {}
  OBVIOUS
<1>2. IsWellFoundedOn(R, Nat)
  BY NatLessThanWellFounded
<1>3. \E b \in Bounds : \A x \in Bounds : ~(<<x, b>> \in R)
  <2> HIDE DEF R, Bounds
  <2> QED BY <1>1, <1>2, WFMin
<1>4. \A x, y \in Nat : x < y => <<x, y>> \in R
  BY DEF OpToRel
<1>5. PICK b \in Bounds : \A x \in Bounds : ~(<<x, b>> \in R)
  BY <1>3
<1>6. ASSUME NEW x \in Bounds PROVE b <= x
  <2>1. ~(x < b)
    <3> HIDE DEF R
    <3> QED BY <1>1, <1>4, <1>5
  <2> QED BY <1>1, <2>1
<1>7. b \in V
  <2> SUFFICES ASSUME b \notin V PROVE FALSE
    OBVIOUS
  <2>1. \A v \in V : v <= b - 1 /\ v \in Nat
    OBVIOUS
  <2>2. b - 1 \in Bounds
    <3>1. PICK v \in V : TRUE
      OBVIOUS
    <3> QED BY <2>1, <3>1
  <2>3. b <= b - 1
    BY <1>6, <2>2
  <2> QED BY <2>3
<1> QED BY <1>7 DEF Max

LEMMA LastVersionIsLast ==
  ASSUME NEW S, Versioned(S)
  PROVE  /\ LastVersion(S) \in Nat
         /\ LastVersion(S) \in {r.version : r \in S} \cup {0}
         /\ \A r \in S : r.version <= LastVersion(S)
<1> DEFINE V == {r.version : r \in S} \cup {0}
<1>1. PICK m \in Nat : \A r \in S : r.version <= m
  BY DEF Versioned
<1>2. V \in SUBSET Nat /\ V # {} /\ \A v \in V : v <= m
  BY <1>1 DEF Versioned
<1>3. Max(V) \in V /\ \A v \in V : v <= Max(V)
  <2> HIDE DEF V
  <2> QED BY <1>2, LargestExists
<1> QED BY <1>2, <1>3 DEF LastVersion

(* E goes on after the last of S with n versions.                          *)
Numbers(S, E, n) ==
  /\ \A r \in E : r.version > LastVersion(S) /\ r.version <= LastVersion(S) + n
  /\ Distinct(E)
  /\ \A v \in (LastVersion(S) + 1)..(LastVersion(S) + n) : \E r \in E : r.version = v

(* A finite set has an enumeration, which meets all of it.                 *)
LEMMA EnumerationExists ==
  ASSUME NEW W, IsFiniteSet(W)
  PROVE  /\ Cardinality(W) \in Nat
         /\ SetToSeq(W) \in Bijection(1..Cardinality(W), W)
<1> DEFINE n == Cardinality(W)
<1>1. n \in Nat /\ ExistsBijection(1..n, W)
  BY FS_CardinalityType
<1>2. \E f \in [1..n -> W] : IsInjective(f)
  BY <1>1 DEF ExistsBijection, Bijection, Injection
<1>3. SetToSeq(W) \in Injection(1..n, W)
  BY <1>2 DEF SetToSeq, Injection
<1>4. IsFiniteSet(1..n) /\ Cardinality(1..n) = n
  BY <1>1, FS_Interval
<1>5. SetToSeq(W) \in Surjection(1..n, W)
  BY <1>1, <1>3, <1>4, FS_Injection
<1> QED BY <1>1, <1>3, <1>5 DEF Bijection

(* The rows of n events numbered from a last version on: the i-th reports  *)
(* W[i] at height H[i].                                                    *)
Numbered(last, n, W, H) ==
  {[version |-> last + i, what |-> W[i], height |-> H[i]] : i \in 1..n}

LEMMA NumberedRows ==
  ASSUME NEW last \in Nat, NEW n \in Nat, NEW W, NEW H,
         \A i, j \in 1..n : W[i] = W[j] => i = j
  PROVE  /\ \A r \in Numbered(last, n, W, H) :
              /\ r.version \in Nat \ {0} /\ r.version > last /\ r.version <= last + n
              /\ \E i \in 1..n : r = [version |-> last + i, what |-> W[i], height |-> H[i]]
         /\ \A r, s \in Numbered(last, n, W, H) : r.what = s.what => r = s
         /\ Distinct(Numbered(last, n, W, H))
         /\ \A v \in (last + 1)..(last + n) :
              \E r \in Numbered(last, n, W, H) : r.version = v
         /\ Versioned(Numbered(last, n, W, H))
<1> DEFINE row(i) == [version |-> last + i, what |-> W[i], height |-> H[i]]
           N == Numbered(last, n, W, H)
           g == [i \in 1..n |-> row(i)]
<1>1. N = {row(i) : i \in 1..n}
  BY DEF Numbered
<1> HIDE DEF N
<1>2. \A r \in N : /\ r.version \in Nat \ {0} /\ r.version > last /\ r.version <= last + n
                   /\ \E i \in 1..n : r = row(i)
  BY <1>1
<1>3. \A r, s \in N : r.what = s.what => r = s
  BY <1>1
<1>4. Distinct(N)
  BY <1>1 DEF Distinct
<1>5. ASSUME NEW v \in (last + 1)..(last + n) PROVE \E r \in N : r.version = v
  <2>1. v - last \in 1..n /\ row(v - last).version = v
    OBVIOUS
  <2> QED BY <1>1, <2>1
<1>6. IsFiniteSet(N)
  <2>1. g \in Surjection(1..n, N)
    BY <1>1 DEF Surjection
  <2>2. IsFiniteSet(1..n)
    BY FS_Interval
  <2> HIDE DEF g
  <2> QED BY <2>1, <2>2, FS_Surjection
<1>7. Versioned(N)
  <2>1. last + n \in Nat /\ \A r \in N : r.version <= last + n /\ r.version \in Nat
    BY <1>2
  <2> QED BY <1>6, <2>1 DEF Versioned
<1> QED BY <1>2, <1>3, <1>4, <1>5, <1>7 DEF N

(* What a tick emits.                                                      *)
LEMMA Emitted ==
  ASSUME NEW S, Versioned(S), NEW W, IsFiniteSet(W), NEW h \in Int
  PROVE  /\ \A r \in Emit(S, W, h) : /\ r \in [version : Nat \ {0}, what : W, height : Int]
                                      /\ r.height = h
         /\ \A r, s \in Emit(S, W, h) : r.what = s.what => r = s
         /\ Versioned(Emit(S, W, h))
         /\ \E n \in Nat : Numbers(S, Emit(S, W, h), n)
<1> DEFINE n == Cardinality(W)
           f == SetToSeq(W)
           H == [i \in 1..n |-> h]
           last == LastVersion(S)
           E == Emit(S, W, h)
<1>1. last \in Nat
  BY LastVersionIsLast
<1>2. /\ n \in Nat /\ \A i \in 1..n : f[i] \in W /\ H[i] = h
      /\ \A i, j \in 1..n : f[i] = f[j] => i = j
  <2>1. n \in Nat /\ f \in Bijection(1..n, W)
    BY EnumerationExists
  <2>2. f \in [1..n -> W] /\ \A i, j \in 1..n : f[i] = f[j] => i = j
    BY <2>1 DEF Bijection, Injection, IsInjective
  <2> HIDE DEF n, f
  <2> QED BY <2>1, <2>2
<1>3. E = Numbered(last, n, f, H)
  BY DEF Emit, Numbered
<1> HIDE DEF n, f, H, last, E
<1>4. /\ \A r \in E :
           /\ r.version \in Nat \ {0} /\ r.version > last /\ r.version <= last + n
           /\ \E i \in 1..n : r = [version |-> last + i, what |-> f[i], height |-> H[i]]
      /\ \A r, s \in E : r.what = s.what => r = s
      /\ Distinct(E) /\ Versioned(E)
      /\ \A v \in (last + 1)..(last + n) : \E r \in E : r.version = v
  BY <1>1, <1>2, <1>3, NumberedRows
<1>5. ASSUME NEW r \in E
      PROVE  r \in [version : Nat \ {0}, what : W, height : Int] /\ r.height = h
  <2>1. PICK i \in 1..n : r = [version |-> last + i, what |-> f[i], height |-> H[i]]
    BY <1>4
  <2> QED BY <1>1, <1>2, <2>1
<1>6. Numbers(S, E, n)
  BY <1>4 DEF Numbers, last
<1> QED BY <1>2, <1>4, <1>5, <1>6 DEF E

(* What a batch of blocks emits.                                           *)
LEMMA Batched ==
  ASSUME Versioned(block.base), NEW k \in Nat, height \in Int, NEW b, b = spent["blocks"]
  PROVE  /\ \A r \in Batch(k) :
              \E i \in 1..k : /\ r.what = <<b, i>> /\ r.height = height + i
                              /\ r.version = LastVersion(block.base) + i
                              /\ r \in [version : Nat \ {0}, what : {<<b, i>>}, height : Int]
         /\ \A r, s \in Batch(k) : r.what = s.what => r = s
         /\ Versioned(Batch(k)) /\ Rising(Batch(k))
         /\ Numbers(block.base, Batch(k), k)
<1> DEFINE W == [i \in 1..k |-> <<b, i>>]
           H == [i \in 1..k |-> height + i]
           last == LastVersion(block.base)
           E == Batch(k)
<1>1. last \in Nat
  BY LastVersionIsLast
<1>2. E = Numbered(last, k, W, H)
  BY DEF Batch, Numbered
<1>3. /\ \A i, j \in 1..k : W[i] = W[j] => i = j
      /\ \A i \in 1..k : W[i] = <<b, i>> /\ H[i] = height + i
  OBVIOUS
<1> HIDE DEF W, H, last, E
<1>4. /\ \A r \in E :
           /\ r.version \in Nat \ {0} /\ r.version > last /\ r.version <= last + k
           /\ \E i \in 1..k : r = [version |-> last + i, what |-> W[i], height |-> H[i]]
      /\ \A r, s \in E : r.what = s.what => r = s
      /\ Distinct(E) /\ Versioned(E)
      /\ \A v \in (last + 1)..(last + k) : \E r \in E : r.version = v
  BY <1>1, <1>2, <1>3, NumberedRows
<1>5. ASSUME NEW r \in E
      PROVE  \E i \in 1..k : /\ r.what = <<b, i>> /\ r.height = height + i
                             /\ r.version = last + i
                             /\ r \in [version : Nat \ {0}, what : {<<b, i>>}, height : Int]
  <2>1. PICK i \in 1..k : r = [version |-> last + i, what |-> W[i], height |-> H[i]]
    BY <1>4
  <2>2. W[i] = <<b, i>> /\ H[i] = height + i
    BY <1>3
  <2>3. last + i \in Nat \ {0} /\ height + i \in Int
    BY <1>1
  <2> QED BY <2>1, <2>2, <2>3
<1>6. Rising(E)
  BY <1>1, <1>5 DEF Rising
<1>7. Numbers(block.base, E, k)
  BY <1>4 DEF Numbers, last
<1> QED BY <1>4, <1>5, <1>6, <1>7 DEF E, last

(* The stored events and n more that go on counting after the last.        *)
LEMMA RowsContinue ==
  ASSUME NEW S, Versioned(S), NEW E, Versioned(E), NEW n \in Nat, Numbers(S, E, n)
  PROVE  /\ Versioned(S \cup E)
         /\ Distinct(S) => Distinct(S \cup E)
         /\ Gapless(S) => Gapless(S \cup E)
<1> DEFINE last == LastVersion(S)
<1>1. /\ last \in Nat /\ last \in {r.version : r \in S} \cup {0}
      /\ \A r \in S : r.version <= last
  BY LastVersionIsLast
<1>2. /\ \A r \in E : r.version > last /\ r.version <= last + n
      /\ Distinct(E)
      /\ \A v \in (last + 1)..(last + n) : \E r \in E : r.version = v
  BY DEF Numbers
<1>3. (\A r \in S : r.version \in Nat) /\ (\A r \in E : r.version \in Nat)
  BY DEF Versioned
<1> HIDE DEF last
<1>4. Versioned(S \cup E)
  <2>1. IsFiniteSet(S \cup E)
    BY FS_Union DEF Versioned
  <2>2. last + n \in Nat /\ \A r \in S \cup E : r.version <= last + n
    BY <1>1, <1>2, <1>3
  <2> QED BY <1>3, <2>1, <2>2 DEF Versioned
<1>5. ASSUME Distinct(S) PROVE Distinct(S \cup E)
  BY <1>1, <1>2, <1>3, <1>5 DEF Distinct
<1>6. ASSUME Gapless(S) PROVE Gapless(S \cup E)
  <2> SUFFICES ASSUME NEW r \in S \cup E, NEW v \in 1..r.version
               PROVE  \E s \in S \cup E : s.version = v
    BY DEF Gapless
  <2>1. r.version \in Nat /\ r.version <= last + n /\ v \in Nat
    BY <1>1, <1>2, <1>3
  <2>2. CASE v > last
    BY <1>1, <1>2, <2>1, <2>2
  <2>3. CASE v <= last
    <3>1. PICK s \in S : s.version = last
      BY <1>1, <2>1, <2>3
    <3>2. v \in 1..s.version
      BY <1>1, <2>1, <2>3, <3>1
    <3> QED BY <1>6, <3>2 DEF Gapless
  <2> QED BY <1>1, <2>1, <2>2, <2>3
<1> QED BY <1>4, <1>5, <1>6

(* Versions without a hole or a repetition are the first numbers.          *)
LEMMA GaplessIsInterval ==
  ASSUME NEW S, Versioned(S), \A r \in S : r.version # 0, Distinct(S), Gapless(S)
  PROVE  {r.version : r \in S} = 1..Cardinality(S)
<1> DEFINE last == LastVersion(S)
           V == {r.version : r \in S}
           g == [r \in S |-> r.version]
<1>1. /\ last \in Nat /\ last \in V \cup {0}
      /\ \A r \in S : r.version <= last /\ r.version \in Nat \ {0}
  BY LastVersionIsLast DEF Versioned
<1>2. V \subseteq 1..last
  <2> HIDE DEF last
  <2> QED BY <1>1
<1>3. ASSUME NEW v \in 1..last PROVE v \in V
  <2>1. PICK r \in S : r.version = last
    <3> HIDE DEF last
    <3> QED BY <1>1
  <2> QED BY <2>1 DEF Gapless
<1>4. V = 1..last
  <2> HIDE DEF V, last
  <2> QED BY <1>2, <1>3
<1>5. g \in Bijection(S, V)
  BY DEF Bijection, Injection, Surjection, IsInjective, Distinct
<1>6. Cardinality(S) = Cardinality(V)
  <2>1. IsFiniteSet(S)
    BY DEF Versioned
  <2>2. ExistsBijection(S, V)
    BY <1>5 DEF ExistsBijection
  <2> HIDE DEF V
  <2> QED BY <2>1, <2>2, FS_Bijection
<1>7. Cardinality(1..last) = last
  <2> HIDE DEF last
  <2> QED BY <1>1, FS_Interval
<1> QED BY <1>4, <1>6, <1>7

-----------------------------------------------------------------------------
(* Facts about steps.                                                      *)

LEMMA HandleTakes ==
  ASSUME Typed, NEW e, Handle(e)
  PROVE  bus = <<e>> /\ bus' = <<>>
<1>1. PICK x : bus = <<x>>
  BY DEF Typed, Handle
<1>2. Head(bus) = x /\ Tail(bus) = <<>>
  BY <1>1
<1> QED BY <1>1, <1>2 DEF Handle

LEMMA SpendsNoBlock ==
  ASSUME TypeOK, NEW what \in Faults \ {"blocks"}, NEW bound, Spend(what, bound)
  PROVE  spent' \in [Faults -> Nat] /\ spent'["blocks"] = spent["blocks"]
BY DEF TypeOK, Spend, Faults

(* What a command restored, or a rollback leaves, of versioned rows.       *)
LEMMA SubsetIsVersioned ==
  ASSUME NEW R, Versioned(R), NEW S \in SUBSET R
  PROVE  Versioned(S)
<1>1. IsFiniteSet(S)
  BY FS_Subset DEF Versioned
<1>2. PICK m \in Nat : \A r \in R : r.version <= m
  BY DEF Versioned
<1>3. \A r \in S : r.version \in Nat /\ r.version <= m
  BY <1>2 DEF Versioned
<1> QED BY <1>1, <1>3 DEF Versioned

(* Steps that touch neither the model's rows nor a command on them.        *)
LEMMA RowsUntouched ==
  ASSUME RowsInv, VersionsInv, UNCHANGED <<exclusive, rows, height, apart, sync, block>>,
         ~Idle(sync) => mempool' = mempool,
         spent'["blocks"] = spent["blocks"]
  PROVE  RowsInv' /\ VersionsInv'
<1>1. RowsInv'
  <2>1. sync'.phase = "ticked" =>
          sync'.new = Emit(sync'.base, mempool'.loaded \ Reported(sync'.base), mempool'.height)
    BY DEF RowsInv, Idle
  <2> QED BY <2>1 DEF RowsInv, Idle, ReportedOnce
<1>2. VersionsInv'
  BY DEF VersionsInv, Idle
<1> QED BY <1>1, <1>2

(* Steps that leave alone all that the invariant is about.                 *)
LEMMA OthersUntouched ==
  ASSUME IInv, UNCHANGED <<config, stored, bus, loader, commands>>,
         pool' \in SUBSET Txids, network' \in {"off", "waiting", "busy", "up"},
         UNCHANGED pc \/ (pc # "off" /\ pc' = "dying"),
         pc = "off" => network' = network,
         spent' \in [Faults -> Nat], spent'["blocks"] = spent["blocks"]
  PROVE  IInv'
<1>1. UNCHANGED <<startHeight, exclusive, mempool, rows, height, apart, bus, loader, refresh,
                  sync, block>>
  BY DEF config, stored, commands
<1>2. Typed'
  BY <1>1 DEF IInv, Typed, TypeOK
<1>3. LockInv'
  BY <1>1 DEF IInv, Typed, TypeOK, LockInv, Quiet, Owned, Idle
<1>4. SyncInv'
  BY <1>1 DEF IInv, SyncInv, Missing, Idle
<1>5. RowsInv' /\ VersionsInv'
  BY <1>1, RowsUntouched DEF IInv
<1> QED BY <1>2, <1>3, <1>4, <1>5 DEF IInv

-----------------------------------------------------------------------------
LEMMA InitEstablishes == Init => IInv
<1> SUFFICES ASSUME Init PROVE IInv
  OBVIOUS
<1>1. Typed
  <2>1. spent \in [Faults -> Nat] /\ spent["blocks"] <= MaxBlocks
    BY MempoolAssumption DEF Init, Faults
  <2>2. /\ refresh \in [phase : Phases, txids : SUBSET Txids]
        /\ sync \in Command /\ block \in Command
        /\ mempool \in [known : SUBSET Txids, loaded : SUBSET Txids, height : Int]
        /\ mempool.loaded \subseteq mempool.known
    BY DEF Init, NoRefresh, NoCommand, NoMempool, Command, Phases
  <2>3. rows \subseteq Row /\ apart \in BOOLEAN /\ bus = <<>>
    BY DEF Init
  <2>4. height \in Int
    <3>1. height = -1
      BY DEF Init
    <3> QED BY <3>1
  <2>5. /\ startHeight \in (IF pc = "off" THEN StartHeights ELSE {Undefined, 0})
        /\ startHeight \in StartHeights /\ exclusive \in BOOLEAN /\ pool \subseteq Txids
        /\ pc \in {"off", "up", "dying"} /\ loader \in [started : BOOLEAN, locked : BOOLEAN]
        /\ network \in {"off", "waiting", "busy", "up"}
    BY DEF Init
  <2>6. bus \in Seq({"Initialized", "Refreshed", "SyncProcessed", "Synchronized"})
    BY <2>3
  <2>7. TypeOK
    BY <2>1, <2>2, <2>3, <2>4, <2>5, <2>6 DEF TypeOK
  <2> QED BY <2>3, <2>5, <2>7 DEF Typed
<1>2. LockInv
  BY DEF Init, LockInv, Quiet, Idle, NoRefresh, NoCommand
<1>3. SyncInv
  BY DEF Init, SyncInv, Idle, NoCommand
<1>4. RowsInv
  BY FS_EmptySet DEF Init, RowsInv, Versioned, ReportedOnce, Idle, NoCommand
<1>5. VersionsInv
  BY DEF Init, VersionsInv, Distinct, Gapless, Rising, Idle, NoCommand
<1> QED BY <1>1, <1>2, <1>3, <1>4, <1>5 DEF IInv

(* Changes of the node, and InitNetwork.                                   *)
LEMMA OthersKeep ==
  ASSUME IInv, \/ NodeChanges \/ StartInitNetwork \/ InitNetwork \/ InitNetworkFails
               \/ UNCHANGED vars
  PROVE  IInv'
<1>1. CASE NodeChanges
  <2>1. spent' \in [Faults -> Nat] /\ spent'["blocks"] = spent["blocks"]
    BY <1>1, SpendsNoBlock DEF NodeChanges, IInv, Typed, Faults
  <2>2. UNCHANGED <<config, stored, bus, pc, loader, network, commands>> /\ pool' \in SUBSET Txids
    BY <1>1 DEF NodeChanges, process
  <2>3. network \in {"off", "waiting", "busy", "up"}
    BY DEF IInv, Typed, TypeOK
  <2> QED BY <2>1, <2>2, <2>3, OthersUntouched
<1>2. CASE StartInitNetwork \/ InitNetwork \/ UNCHANGED vars
  <2>1. /\ UNCHANGED <<config, pool, stored, bus, pc, loader, commands, spent>>
        /\ network' \in {network, "busy", "up"}
        /\ pc = "off" => network' = network
    BY <1>2 DEF StartInitNetwork, InitNetwork, MayRun, vars, process, IInv, LockInv
  <2>2. /\ network \in {"off", "waiting", "busy", "up"} /\ pool \in SUBSET Txids
        /\ spent \in [Faults -> Nat]
    BY DEF IInv, Typed, TypeOK
  <2> QED BY <2>1, <2>2, OthersUntouched
<1>3. CASE InitNetworkFails
  <2>1. spent' \in [Faults -> Nat] /\ spent'["blocks"] = spent["blocks"]
    BY <1>3, SpendsNoBlock DEF InitNetworkFails, IInv, Typed, Faults
  <2>2. /\ UNCHANGED <<config, pool, stored, bus, loader, commands>>
        /\ network' = "off" /\ pc' = "dying" /\ pc # "off"
    BY <1>3 DEF InitNetworkFails, IInv, LockInv
  <2>3. pool \in SUBSET Txids
    BY DEF IInv, Typed, TypeOK
  <2> QED BY <2>1, <2>2, <2>3, OthersUntouched
<1> QED BY <1>1, <1>2, <1>3

-----------------------------------------------------------------------------
(* The steps around the loader.                                            *)

LEMMA InitMempoolKeeps == ASSUME IInv, InitMempool PROVE IInv'
<1>1. /\ pc = "off" /\ pc' = "up" /\ startHeight \in {Undefined, 0}
      /\ bus' = Append(bus, "Initialized")
      /\ \E tip \in Tips : mempool' \in {[m EXCEPT !.height = tip] : m \in {mempool, NoMempool}}
      /\ UNCHANGED <<startHeight, exclusive, pool, rows, height, apart, loader, network,
                     refresh, sync, block, spent>>
  BY DEF InitMempool, config, commands
<1>2. bus = <<>> /\ Quiet /\ ~loader.started
  BY <1>1 DEF IInv, LockInv
<1>3. bus' = <<"Initialized">>
  BY <1>1, <1>2
<1>4. Typed'
  <2>1. /\ mempool' \in [known : SUBSET Txids, loaded : SUBSET Txids, height : Int]
        /\ mempool'.loaded \subseteq mempool'.known
    <3>1. PICK tip \in Tips, m \in {mempool, NoMempool} : mempool' = [m EXCEPT !.height = tip]
      BY <1>1
    <3>2. /\ m \in [known : SUBSET Txids, loaded : SUBSET Txids, height : Int]
          /\ m.loaded \subseteq m.known
      BY DEF IInv, Typed, TypeOK, NoMempool
    <3>3. tip \in Int
      BY MempoolAssumption
    <3> QED BY <3>1, <3>2, <3>3
  <2> QED BY <1>1, <1>3, <2>1 DEF IInv, Typed, TypeOK
<1>5. LockInv'
  BY <1>1, <1>2, <1>3 DEF LockInv, Quiet, Idle
<1>6. SyncInv'
  BY <1>1, <1>2, <1>3 DEF SyncInv, Quiet, Idle
<1>7. RowsInv' /\ VersionsInv'
  BY <1>1, <1>2, RowsUntouched DEF IInv, Quiet
<1> QED BY <1>4, <1>5, <1>6, <1>7 DEF IInv

LEMMA OnInitializedKeeps == ASSUME IInv, OnInitialized PROVE IInv'
<1>1. /\ loader' = [loader EXCEPT !.started = TRUE] /\ network' = "waiting"
      /\ UNCHANGED <<startHeight, exclusive, pool, mempool, rows, height, apart, pc, refresh,
                     sync, block, spent>>
  BY DEF OnInitialized, config, stored, commands
<1>2. bus = <<"Initialized">> /\ bus' = <<>>
  BY HandleTakes DEF OnInitialized, IInv
<1>3. Quiet /\ pc # "off"
  BY <1>2 DEF IInv, LockInv
<1>4. Typed'
  <2>1. loader' \in [started : BOOLEAN, locked : BOOLEAN]
    BY <1>1 DEF IInv, Typed, TypeOK
  <2>2. /\ bus' = <<>>
        /\ bus' \in Seq({"Initialized", "Refreshed", "SyncProcessed", "Synchronized"})
    BY <1>2
  <2> QED BY <1>1, <2>1, <2>2 DEF IInv, Typed, TypeOK
<1>5. LockInv'
  <2>1. loader'.locked = loader.locked
    BY <1>1 DEF IInv, Typed, TypeOK
  <2> QED BY <1>1, <1>2, <1>3, <2>1 DEF LockInv, Quiet, Idle
<1>6. SyncInv'
  BY <1>1, <1>2 DEF IInv, SyncInv, Missing, Idle
<1>7. RowsInv' /\ VersionsInv'
  BY <1>1, RowsUntouched DEF IInv
<1> QED BY <1>4, <1>5, <1>6, <1>7 DEF IInv

LEMMA SnapshotKeeps == ASSUME IInv, Snapshot PROVE IInv'
<1>1. /\ loader.started /\ ~loader.locked /\ pc # "off"
      /\ loader' = [loader EXCEPT !.locked = TRUE]
      /\ refresh' = [phase |-> "restored", txids |-> pool]
      /\ UNCHANGED <<startHeight, exclusive, pool, mempool, rows, height, apart, bus, pc,
                     network, sync, block, spent>>
  BY DEF Snapshot, MayRun, config, stored
<1>2. Quiet /\ bus = <<>>
  BY <1>1 DEF IInv, LockInv, Owned, Quiet
<1>3. Typed'
  BY <1>1 DEF IInv, Typed, TypeOK, Phases
<1>4. LockInv'
  <2>1. loader'.locked /\ loader'.started
    BY <1>1 DEF IInv, Typed, TypeOK
  <2> QED BY <1>1, <1>2, <2>1 DEF LockInv, Quiet, Owned, Idle
<1>5. SyncInv'
  BY <1>1 DEF IInv, SyncInv, Missing, Idle
<1>6. RowsInv' /\ VersionsInv'
  BY <1>1, RowsUntouched DEF IInv
<1> QED BY <1>3, <1>4, <1>5, <1>6 DEF IInv

LEMMA RefreshKeeps == ASSUME IInv, Refresh PROVE IInv'
<1>1. /\ refresh.phase = "restored" /\ refresh' = NoRefresh
      /\ \E tip \in Tips :
           mempool' = [known |-> refresh.txids, loaded |-> mempool.loaded \cap refresh.txids,
                       height |-> tip]
      /\ bus' = Append(bus, "Refreshed")
      /\ UNCHANGED <<startHeight, exclusive, pool, rows, height, apart, pc, loader, network,
                     sync, block, spent>>
  BY DEF Refresh, config
<1>2. Owned /\ loader.started /\ bus = <<>> /\ Idle(sync) /\ pc # "off"
  BY <1>1 DEF IInv, LockInv, Owned, Quiet, Idle
<1>3. bus' = <<"Refreshed">>
  BY <1>1, <1>2
<1>4. Typed'
  <2>1. /\ mempool' \in [known : SUBSET Txids, loaded : SUBSET Txids, height : Int]
        /\ mempool'.loaded \subseteq mempool'.known
    BY <1>1, MempoolAssumption DEF IInv, Typed, TypeOK
  <2>2. refresh' \in [phase : Phases, txids : SUBSET Txids]
    BY <1>1 DEF NoRefresh, Phases
  <2> QED BY <1>1, <1>3, <2>1, <2>2 DEF IInv, Typed, TypeOK
<1>5. LockInv'
  BY <1>1, <1>2, <1>3 DEF LockInv, Owned, Turns, Idle, NoRefresh
<1>6. SyncInv'
  BY <1>1, <1>2, <1>3 DEF SyncInv, Idle
<1>7. RowsInv' /\ VersionsInv'
  BY <1>1, <1>2, RowsUntouched DEF IInv
<1> QED BY <1>4, <1>5, <1>6, <1>7 DEF IInv

LEMMA RefreshFailsKeeps == ASSUME IInv, RefreshFails PROVE IInv'
<1>1. /\ refresh.phase = "restored" /\ refresh' = NoRefresh
      /\ loader' = [loader EXCEPT !.locked = FALSE]
      /\ UNCHANGED <<startHeight, exclusive, pool, mempool, rows, height, apart, bus, pc,
                     network, sync, block>>
  BY DEF RefreshFails, config, stored
<1>2. Owned /\ loader.started /\ bus = <<>> /\ Idle(sync) /\ pc # "off"
  BY <1>1 DEF IInv, LockInv, Owned, Quiet, Idle
<1>3. spent' \in [Faults -> Nat] /\ spent'["blocks"] = spent["blocks"]
  BY SpendsNoBlock DEF RefreshFails, IInv, Typed, Faults
<1>4. Typed'
  BY <1>1, <1>3 DEF IInv, Typed, TypeOK, NoRefresh, Phases
<1>5. LockInv'
  <2>1. ~loader'.locked
    BY <1>1 DEF IInv, Typed, TypeOK
  <2> QED BY <1>1, <1>2, <2>1 DEF LockInv, Quiet, Idle, NoRefresh
<1>6. SyncInv'
  BY <1>1 DEF IInv, SyncInv, Missing, Idle
<1>7. RowsInv' /\ VersionsInv'
  BY <1>1, <1>3, RowsUntouched DEF IInv
<1> QED BY <1>4, <1>5, <1>6, <1>7 DEF IInv

LEMMA OnSynchronizedKeeps == ASSUME IInv, OnSynchronized PROVE IInv'
<1>1. /\ loader' = [loader EXCEPT !.locked = FALSE]
      /\ UNCHANGED <<startHeight, exclusive, pool, mempool, rows, height, apart, pc, network,
                     refresh, sync, block, spent>>
  BY DEF OnSynchronized, config, stored, commands
<1>2. bus = <<"Synchronized">> /\ bus' = <<>>
  BY HandleTakes DEF OnSynchronized, IInv
<1>3. Idle(refresh) /\ Idle(sync) /\ pc # "off"
  BY <1>2 DEF IInv, LockInv, Owned, Quiet
<1>4. Typed'
  <2>1. loader' \in [started : BOOLEAN, locked : BOOLEAN]
    BY <1>1 DEF IInv, Typed, TypeOK
  <2>2. /\ bus' = <<>>
        /\ bus' \in Seq({"Initialized", "Refreshed", "SyncProcessed", "Synchronized"})
    BY <1>2
  <2> QED BY <1>1, <2>1, <2>2 DEF IInv, Typed, TypeOK
<1>5. LockInv'
  <2>1. ~loader'.locked
    BY <1>1 DEF IInv, Typed, TypeOK
  <2> QED BY <1>1, <1>2, <1>3, <2>1 DEF LockInv, Quiet, Idle
<1>6. SyncInv'
  BY <1>1, <1>2 DEF IInv, SyncInv, Missing, Idle
<1>7. RowsInv' /\ VersionsInv'
  BY <1>1, RowsUntouched DEF IInv
<1> QED BY <1>4, <1>5, <1>6, <1>7 DEF IInv

LEMMA CrashKeeps == ASSUME IInv, Crash PROVE IInv'
<1>1. /\ pc' = "off" /\ bus' = <<>> /\ loader' = [started |-> FALSE, locked |-> FALSE]
      /\ network' = "off" /\ refresh' = NoRefresh /\ sync' = NoCommand /\ block' = NoCommand
      /\ UNCHANGED <<startHeight, exclusive, pool, mempool, rows, height, apart>>
  BY DEF Crash, config, stored
<1>2. spent' \in [Faults -> Nat] /\ spent'["blocks"] = spent["blocks"]
  <2>1. CASE UNCHANGED spent
    BY <2>1 DEF IInv, Typed, TypeOK
  <2>2. CASE Spend("crashes", MaxCrashes)
    BY <2>2, SpendsNoBlock DEF IInv, Typed, Faults
  <2> QED BY <2>1, <2>2 DEF Crash
<1>3. Typed'
  BY <1>1, <1>2 DEF IInv, Typed, TypeOK, NoRefresh, NoCommand, Command, Phases
<1>4. LockInv'
  BY <1>1 DEF LockInv, Quiet, Idle, NoRefresh, NoCommand
<1>5. SyncInv'
  BY <1>1 DEF SyncInv, Idle, NoCommand
<1>6. RowsInv'
  BY <1>1, <1>2 DEF IInv, RowsInv, ReportedOnce, Idle, NoCommand
<1>7. VersionsInv'
  BY <1>1 DEF IInv, VersionsInv, Idle, NoCommand
<1> QED BY <1>3, <1>4, <1>5, <1>6, <1>7 DEF IInv

-----------------------------------------------------------------------------
(* The commands on the user model.                                         *)

(* A running command on the model is of a running process, and a sync is   *)
(* all there is for the loader.                                            *)
LEMMA SyncIsAlone ==
  ASSUME IInv, ~Idle(sync)
  PROVE  Owned /\ loader.started /\ bus = <<>> /\ Idle(refresh) /\ pc # "off"
BY DEF IInv, LockInv, Owned, Quiet

LEMMA BlockIsAlive ==
  ASSUME IInv, ~Idle(block)
  PROVE  pc # "off"
BY DEF IInv, LockInv

LEMMA StartSyncKeeps == ASSUME IInv, StartSync PROVE IInv'
<1>1. /\ sync.phase = "idle"
      /\ sync' = [NoCommand EXCEPT !.phase = "restored", !.loaded = mempool.loaded,
                                   !.base = RestoreModel]
      /\ exclusive => block.phase = "idle"
      /\ UNCHANGED <<startHeight, exclusive, pool, mempool, rows, height, apart, pc, loader,
                     network, refresh, block, spent>>
  BY DEF StartSync, MayRun, config, stored
<1>2. PICK e \in {"Refreshed", "SyncProcessed"} : bus = <<e>> /\ bus' = <<>>
  BY HandleTakes DEF StartSync, IInv
<1>3. Owned /\ loader.started /\ Idle(refresh) /\ pc # "off"
  BY <1>2 DEF IInv, LockInv, Owned, Quiet
<1>4. /\ sync'.phase = "restored" /\ sync'.loaded = mempool.loaded
      /\ sync'.base = rows /\ sync'.new = {}
      /\ sync' \in Command
  BY <1>1 DEF NoCommand, RestoreModel, Command, Phases, IInv, Typed, TypeOK
<1>5. Typed'
  BY <1>1, <1>2, <1>4 DEF IInv, Typed, TypeOK
<1>6. LockInv'
  BY <1>1, <1>2, <1>3, <1>4 DEF LockInv, Owned, Idle
<1>7. SyncInv'
  BY <1>1, <1>2, <1>4 DEF IInv, Typed, TypeOK, SyncInv, Idle
<1>8. RowsInv'
  BY <1>1, <1>4 DEF IInv, RowsInv, ReportedOnce, Idle
<1>9. VersionsInv'
  BY <1>1, <1>4 DEF IInv, VersionsInv, Idle
<1> QED BY <1>5, <1>6, <1>7, <1>8, <1>9 DEF IInv

LEMMA LoadTransactionsKeeps == ASSUME IInv, LoadTransactions PROVE IInv'
<1>1. PICK new \in SUBSET Missing :
        /\ sync.phase = "restored"
        /\ Missing # {} => new # {}
        /\ sync' = [sync EXCEPT !.phase = "loaded", !.loaded = @ \cup new]
        /\ UNCHANGED <<startHeight, exclusive, pool, mempool, rows, height, apart, bus, pc,
                       loader, network, refresh, block, spent>>
  BY DEF LoadTransactions, config, stored
<1>2. Owned /\ loader.started /\ bus = <<>> /\ Idle(refresh) /\ pc # "off"
  BY <1>1, SyncIsAlone DEF Idle
<1>3. sync \in Command /\ Missing \subseteq mempool.known /\ mempool.known \subseteq Txids
  BY DEF IInv, Typed, TypeOK, Missing
<1>4. /\ sync'.phase = "loaded" /\ sync'.loaded = sync.loaded \cup new
      /\ sync'.base = sync.base /\ sync'.new = sync.new
      /\ sync' \in Command
  BY <1>1, <1>3 DEF Command, Phases
<1>5. Typed'
  BY <1>1, <1>4 DEF IInv, Typed, TypeOK
<1>6. LockInv'
  BY <1>1, <1>2, <1>4 DEF LockInv, Owned, Idle
<1>7. SyncInv'
  <2>1. sync.loaded = mempool.loaded /\ sync.loaded \subseteq mempool.known
    BY <1>1 DEF IInv, SyncInv, Idle
  <2>2. sync'.loaded = mempool.loaded => Missing = {}
    BY <1>1, <1>4, <2>1 DEF Missing
  <2> QED BY <1>1, <1>2, <1>3, <1>4, <2>1, <2>2 DEF SyncInv, Missing, Idle
<1>8. RowsInv'
  BY <1>1, <1>4 DEF IInv, RowsInv, ReportedOnce, Idle
<1>9. VersionsInv'
  BY <1>1, <1>4 DEF IInv, VersionsInv, Idle
<1> QED BY <1>5, <1>6, <1>7, <1>8, <1>9 DEF IInv

(* What a tick is about is finite, and new to the model it has restored.   *)
LEMMA TickedIsFinite ==
  ASSUME IInv
  PROVE  IsFiniteSet(mempool.loaded \ Reported(sync.base))
<1>1. mempool.loaded \ Reported(sync.base) \in SUBSET Txids
  BY DEF IInv, Typed, TypeOK
<1> QED BY <1>1, MempoolAssumption, FS_Subset

LEMMA TickKeeps == ASSUME IInv, Tick PROVE IInv'
<1> DEFINE ticked == mempool.loaded \ Reported(sync.base)
           emitted == Emit(sync.base, ticked, mempool.height)
<1>1. /\ sync.phase = "loaded"
      /\ sync' = [sync EXCEPT !.phase = "ticked", !.new = emitted]
      /\ UNCHANGED <<startHeight, exclusive, pool, mempool, rows, height, apart, bus, pc,
                     loader, network, refresh, block, spent>>
  BY DEF Tick, config, stored
<1>2. Owned /\ loader.started /\ bus = <<>> /\ Idle(refresh) /\ pc # "off"
  BY <1>1, SyncIsAlone DEF Idle
<1>3. emitted \in SUBSET Row
  <2>1. Versioned(sync.base)
    BY <1>1 DEF IInv, RowsInv, Idle
  <2>2. IsFiniteSet(ticked)
    BY TickedIsFinite
  <2>3. ticked \subseteq Txids /\ mempool.height \in Int
    BY DEF IInv, Typed, TypeOK
  <2>4. \A r \in emitted : r \in [version : Nat \ {0}, what : ticked, height : Int]
    <3> HIDE DEF ticked
    <3> QED BY <2>1, <2>2, <2>3, Emitted
  <2> HIDE DEF ticked, emitted
  <2> QED BY <2>3, <2>4 DEF Row
<1>4. /\ sync'.phase = "ticked" /\ sync'.loaded = sync.loaded
      /\ sync'.base = sync.base /\ sync'.new = emitted
      /\ sync' \in Command
  <2>1. sync \in Command
    BY DEF IInv, Typed, TypeOK
  <2> HIDE DEF emitted
  <2> QED BY <1>1, <1>3, <2>1 DEF Command, Phases
<1>5. Typed'
  <2> HIDE DEF emitted
  <2> QED BY <1>1, <1>4 DEF IInv, Typed, TypeOK
<1>6. LockInv'
  BY <1>1, <1>2, <1>4 DEF LockInv, Owned, Idle
<1>7. SyncInv'
  BY <1>1, <1>4 DEF IInv, SyncInv, Missing, Idle
<1>8. RowsInv'
  <2>1. sync'.new = Emit(sync'.base, mempool'.loaded \ Reported(sync'.base), mempool'.height)
    BY <1>1, <1>4
  <2> QED BY <1>1, <1>4, <2>1 DEF IInv, RowsInv, ReportedOnce, Idle
<1>9. VersionsInv'
  BY <1>1, <1>4 DEF IInv, VersionsInv, Idle
<1> QED BY <1>5, <1>6, <1>7, <1>8, <1>9 DEF IInv

(* A tick reports nothing that is stored: its sync has restored all the    *)
(* stored reports of transactions, even of those that a rollback deleted.  *)
LEMMA TickedIsNew ==
  ASSUME IInv, sync.phase = "ticked"
  PROVE  /\ sync.new \in SUBSET Row /\ Versioned(sync.new)
         /\ \A r \in sync.new : r.what \in Txids /\ r.height = mempool.height
         /\ \A r, s \in rows \cup sync.new : r.what = s.what => r = s
         /\ \E n \in Nat : Numbers(sync.base, sync.new, n)
<1> DEFINE W == mempool.loaded \ Reported(sync.base)
           E == Emit(sync.base, W, mempool.height)
<1>1. /\ Versioned(sync.base) /\ sync.new = E
      /\ \A r \in rows : r.what \in Txids => r \in sync.base
  BY DEF IInv, RowsInv, Idle
<1>2. W \in SUBSET Txids /\ mempool.height \in Int
  BY DEF IInv, Typed, TypeOK
<1>3. \A r \in rows : r.what \notin W
  BY <1>1, <1>2 DEF Reported
<1>4. /\ \A r \in E : r \in [version : Nat \ {0}, what : W, height : Int] /\ r.height = mempool.height
      /\ \A r, s \in E : r.what = s.what => r = s
      /\ Versioned(E) /\ \E n \in Nat : Numbers(sync.base, E, n)
  <2>1. IsFiniteSet(W)
    BY TickedIsFinite
  <2> HIDE DEF W
  <2> QED BY <1>1, <1>2, <2>1, Emitted
<1> HIDE DEF W, E
<1>5. \A r \in E : r \in Row /\ r.what \in W /\ r.what \in Txids
  BY <1>2, <1>4 DEF Row
<1>6. \A r, s \in rows \cup E : r.what = s.what => r = s
  BY <1>3, <1>4, <1>5 DEF IInv, RowsInv, ReportedOnce
<1> QED BY <1>1, <1>4, <1>5, <1>6

LEMMA SaveSyncKeeps == ASSUME IInv, SaveSync PROVE IInv'
<1>1. /\ sync.phase = "ticked" /\ sync' = NoCommand
      /\ mempool' = [mempool EXCEPT !.loaded = sync.loaded]
      /\ rows' = rows \cup sync.new
      /\ apart' = (apart \/ \E r \in sync.new : r.height # height)
      /\ bus' = Append(bus, SyncEvent(sync.loaded))
      /\ UNCHANGED <<startHeight, exclusive, pool, height, pc, loader, network, refresh, block,
                     spent>>
  BY DEF SaveSync, config
<1>2. Owned /\ loader.started /\ bus = <<>> /\ Idle(refresh) /\ pc # "off"
  BY <1>1, SyncIsAlone DEF Idle
<1>3. PICK e \in {"SyncProcessed", "Synchronized"} :
        bus' = <<e>> /\ (e = "Synchronized" => sync.loaded = mempool.loaded)
  BY <1>1, <1>2 DEF SyncEvent
<1>4. /\ sync.new \in SUBSET Row /\ Versioned(sync.new)
      /\ \A r \in sync.new : r.what \in Txids
      /\ \A r, s \in rows' : r.what = s.what => r = s
      /\ \E n \in Nat : Numbers(sync.base, sync.new, n)
  BY <1>1, TickedIsNew
<1>5. Versioned(rows')
  <2>1. IsFiniteSet(rows') /\ rows' \in SUBSET Row
    BY <1>1, <1>4, FS_Union DEF IInv, Typed, TypeOK, RowsInv, Versioned
  <2>2. PICK m \in Nat : \A r \in rows : r.version <= m
    BY DEF IInv, RowsInv, Versioned
  <2>3. PICK n \in Nat : \A r \in sync.new : r.version <= n
    BY <1>4 DEF Versioned
  <2>4. \A r \in rows' : r.version \in Nat
    BY <2>1 DEF Row
  <2>5. m + n \in Nat /\ \A r \in rows' : r.version <= m + n
    BY <1>1, <2>2, <2>3, <2>4
  <2> QED BY <2>1, <2>4, <2>5 DEF Versioned
<1>6. /\ mempool'.known = mempool.known /\ mempool'.loaded = sync.loaded
      /\ mempool' \in [known : SUBSET Txids, loaded : SUBSET Txids, height : Int]
      /\ mempool'.loaded \subseteq mempool'.known
  <2>1. sync.loaded \subseteq mempool.known
    BY <1>1 DEF IInv, SyncInv, Idle
  <2>2. mempool \in [known : SUBSET Txids, loaded : SUBSET Txids, height : Int]
    BY DEF IInv, Typed, TypeOK
  <2> QED BY <1>1, <2>1, <2>2
<1>7. Typed'
  <2>1. sync' \in Command
    BY <1>1 DEF NoCommand, Command, Phases
  <2>2. bus' \in Seq({"Initialized", "Refreshed", "SyncProcessed", "Synchronized"})
    BY <1>3
  <2>3. \E x : bus' = <<x>>
    BY <1>3
  <2>4. rows' \in SUBSET Row /\ apart' \in BOOLEAN
    BY <1>1, <1>4 DEF IInv, Typed, TypeOK
  <2> QED BY <1>1, <1>6, <2>1, <2>2, <2>3, <2>4 DEF IInv, Typed, TypeOK
<1>8. LockInv'
  BY <1>1, <1>2, <1>3 DEF LockInv, Owned, Turns, Idle, NoCommand
<1>9. SyncInv'
  <2>1. sync.loaded = mempool.loaded => Missing = {}
    BY <1>1 DEF IInv, SyncInv
  <2>2. bus' = <<"Synchronized">> => mempool'.known \ mempool'.loaded = {}
    BY <1>3, <1>6, <2>1 DEF Missing
  <2> QED BY <1>1, <2>2 DEF SyncInv, Missing, Idle, NoCommand
<1>10. RowsInv'
  <2>1. \A r \in rows' : r.what \in Txids \/ r.what[1] <= spent["blocks"]
    BY <1>1, <1>4 DEF IInv, RowsInv
  <2>2. ~Idle(block) => /\ block.base \subseteq rows' /\ spent["blocks"] > 0
                        /\ \A r \in rows' : r.what \in Txids \/ r.what[1] < spent["blocks"]
    BY <1>1, <1>4 DEF IInv, RowsInv
  <2>3. ReportedOnce'
    BY <1>4 DEF ReportedOnce
  <2> QED BY <1>1, <1>5, <2>1, <2>2, <2>3 DEF RowsInv, Idle, NoCommand
<1>11. VersionsInv'
  <2> SUFFICES ASSUME exclusive
               PROVE  /\ Distinct(rows') /\ Idle(block)
                      /\ ~apart' => /\ Gapless(rows') /\ Rising(rows')
                                    /\ \A r \in rows' : r.height <= height
    BY <1>1 DEF VersionsInv, Idle, NoCommand
  <2>1. Idle(block) /\ sync.base = rows /\ Distinct(rows)
    BY <1>1 DEF IInv, VersionsInv, Idle
  <2>2. Versioned(rows)
    BY DEF IInv, RowsInv
  <2>3. PICK n \in Nat : Numbers(rows, sync.new, n)
    BY <1>4, <2>1
  <2>4. Distinct(rows') /\ (Gapless(rows) => Gapless(rows'))
    BY <1>1, <1>4, <2>1, <2>2, <2>3, RowsContinue
  <2>5. ASSUME ~apart'
        PROVE  Gapless(rows') /\ Rising(rows') /\ \A r \in rows' : r.height <= height
    <3>1. Gapless(rows) /\ Rising(rows) /\ \A r \in rows : r.height <= height
      BY <1>1, <2>5 DEF IInv, VersionsInv
    <3>2. (\A r \in sync.new : r.height = height) /\ height \in Int
      BY <1>1, <2>5 DEF IInv, Typed, TypeOK
    <3>3. \A r \in rows, s \in sync.new : r.version < s.version
      <4>1. \A r \in rows : r.version <= LastVersion(rows) /\ r.version \in Nat
        BY <2>2, LastVersionIsLast DEF Versioned
      <4>2. LastVersion(rows) \in Nat
        BY <2>2, LastVersionIsLast
      <4>3. \A s \in sync.new : s.version > LastVersion(rows) /\ s.version \in Nat
        BY <1>4, <2>3 DEF Numbers, Versioned
      <4> QED BY <4>1, <4>2, <4>3
    <3>4. \A r \in rows' : r.height <= height /\ r.version \in Nat
      BY <1>1, <1>5, <3>1, <3>2 DEF Versioned
    <3>5. ASSUME NEW r \in rows', NEW s \in rows', r.version < s.version
          PROVE  r.height <= s.height
      <4>1. CASE s \in sync.new
        BY <3>2, <3>4, <4>1
      <4>2. CASE s \in rows
        <5>1. r \in rows
          BY <1>1, <3>3, <3>4, <3>5, <4>2
        <5> QED BY <3>1, <3>5, <4>2, <5>1 DEF Rising
      <4> QED BY <1>1, <4>1, <4>2
    <3> QED BY <2>4, <3>1, <3>4, <3>5 DEF Rising
  <2> QED BY <2>1, <2>4, <2>5
<1> QED BY <1>7, <1>8, <1>9, <1>10, <1>11 DEF IInv

LEMMA SyncFailsKeeps == ASSUME IInv, SyncFails PROVE IInv'
<1>1. /\ ~Idle(sync) /\ sync' = NoCommand /\ pc' = "dying"
      /\ UNCHANGED <<startHeight, exclusive, pool, mempool, rows, height, apart, bus, loader,
                     network, refresh, block>>
  BY DEF SyncFails, config, stored, Idle
<1>2. Owned /\ loader.started /\ bus = <<>> /\ Idle(refresh) /\ pc # "off"
  BY <1>1, SyncIsAlone
<1>3. spent' \in [Faults -> Nat] /\ spent'["blocks"] = spent["blocks"]
  BY SpendsNoBlock DEF SyncFails, IInv, Typed, Faults
<1>4. sync' \in Command /\ Idle(sync')
  BY <1>1 DEF NoCommand, Command, Phases, Idle
<1>5. Typed'
  BY <1>1, <1>2, <1>3, <1>4 DEF IInv, Typed, TypeOK
<1>6. LockInv'
  BY <1>1, <1>2, <1>4 DEF LockInv, Owned, Idle
<1>7. SyncInv'
  BY <1>1, <1>2, <1>4 DEF SyncInv, Idle
<1>8. RowsInv'
  BY <1>1, <1>3, <1>4 DEF IInv, RowsInv, ReportedOnce, Idle
<1>9. VersionsInv'
  BY <1>1, <1>4 DEF IInv, VersionsInv, Idle
<1> QED BY <1>5, <1>6, <1>7, <1>8, <1>9 DEF IInv

LEMMA StartBlockKeeps == ASSUME IInv, StartBlock PROVE IInv'
<1>1. /\ pc # "off" /\ block.phase = "idle"
      /\ exclusive => sync.phase = "idle"
      /\ spent["blocks"] < MaxBlocks /\ spent' = [spent EXCEPT !["blocks"] = @ + 1]
      /\ block' = [NoCommand EXCEPT !.phase = "restored", !.base = RestoreModel]
      /\ UNCHANGED <<startHeight, exclusive, pool, mempool, rows, height, apart, bus, pc,
                     loader, network, refresh, sync>>
  BY DEF StartBlock, MayRun, Spend, config, stored
<1>2. /\ block'.phase = "restored" /\ block'.base = rows /\ block' \in Command
  BY <1>1 DEF NoCommand, RestoreModel, Command, Phases, IInv, Typed, TypeOK
<1>3. /\ spent' \in [Faults -> Nat] /\ spent["blocks"] \in Nat
      /\ spent'["blocks"] = spent["blocks"] + 1 /\ spent'["blocks"] <= MaxBlocks
  <2>1. spent \in [Faults -> Nat]
    BY DEF IInv, Typed, TypeOK
  <2> QED BY <1>1, <2>1, MempoolAssumption DEF Faults
<1>4. Typed'
  BY <1>1, <1>2, <1>3 DEF IInv, Typed, TypeOK
<1>5. LockInv'
  BY <1>1 DEF IInv, LockInv, Quiet, Owned, Idle
<1>6. SyncInv'
  BY <1>1 DEF IInv, SyncInv, Missing, Idle
<1>7. RowsInv'
  <2>1. ASSUME NEW r \in rows
        PROVE  r.what \in Txids \/ r.what[1] < spent["blocks"] + 1
    <3>1. r.what \in Txids \/ (r.what[1] \in Nat /\ r.what[1] <= spent["blocks"])
      BY DEF IInv, Typed, TypeOK, Row, RowsInv
    <3> QED BY <1>3, <3>1
  <2>2. sync.phase = "ticked" =>
          sync.new = Emit(sync.base, mempool.loaded \ Reported(sync.base), mempool.height)
    BY DEF IInv, RowsInv
  <2>3. spent'["blocks"] > 0
    BY <1>3
  <2>4. /\ \A r \in rows' : r.what \in Txids \/ r.what[1] <= spent'["blocks"]
        /\ \A r \in rows' : r.what \in Txids \/ r.what[1] < spent'["blocks"]
    <3>1. \A r \in rows : r.what \in Txids \/ r.what[1] \in Nat
      BY DEF IInv, Typed, TypeOK, Row
    <3> QED BY <1>1, <1>3, <2>1, <3>1
  <2> QED BY <1>1, <1>2, <2>2, <2>3, <2>4 DEF IInv, RowsInv, ReportedOnce, Idle
<1>8. VersionsInv'
  BY <1>1, <1>2 DEF IInv, VersionsInv, Idle
<1> QED BY <1>4, <1>5, <1>6, <1>7, <1>8 DEF IInv

(* A batch of blocks reports nothing that is stored.                       *)
LEMMA BatchIsNew ==
  ASSUME IInv, ~Idle(block), NEW k \in 1..MaxBatch
  PROVE  /\ Batch(k) \in SUBSET Row /\ Versioned(Batch(k)) /\ Rising(Batch(k))
         /\ \A r \in Batch(k) : /\ r.what \notin Txids /\ r.what[1] = spent["blocks"]
                                /\ r.height > height /\ r.height <= height + k
         /\ \A r, s \in rows \cup Batch(k) : r.what = s.what => r = s
         /\ Numbers(block.base, Batch(k), k)
<1> DEFINE b == spent["blocks"]
           E == Batch(k)
<1>1. b \in 1..MaxBlocks /\ height \in Int /\ k \in Nat
  <2>1. spent["blocks"] \in Nat /\ spent["blocks"] <= MaxBlocks /\ height \in Int
    BY DEF IInv, Typed, TypeOK, Faults
  <2> QED BY <2>1, MempoolAssumption DEF IInv, RowsInv
<1>2. Versioned(block.base)
  BY SubsetIsVersioned DEF IInv, RowsInv
<1>3. /\ \A r \in E :
           \E i \in 1..k : /\ r.what = <<b, i>> /\ r.height = height + i
                           /\ r \in [version : Nat \ {0}, what : {<<b, i>>}, height : Int]
      /\ \A r, s \in E : r.what = s.what => r = s
      /\ Versioned(E) /\ Rising(E) /\ Numbers(block.base, E, k)
  BY <1>1, <1>2, Batched
<1> HIDE DEF E
<1>4. ASSUME NEW r \in E
      PROVE  /\ r \in Row /\ r.what \notin Txids /\ r.what[1] = b
             /\ r.height > height /\ r.height <= height + k
  <2>1. PICK i \in 1..k : /\ r.what = <<b, i>> /\ r.height = height + i
                          /\ r \in [version : Nat \ {0}, what : {<<b, i>>}, height : Int]
    BY <1>3
  <2>2. i \in 1..MaxBatch /\ i \in Nat
    BY <1>1, MempoolAssumption
  <2>3. <<b, i>> \in (1..MaxBlocks) \X (1..MaxBatch) /\ <<b, i>> \in Nat \X Nat
    BY <1>1, <2>2, MempoolAssumption
  <2>4. r.what \notin Txids /\ r.what[1] = b
    BY <2>1, <2>3, MempoolAssumption
  <2>5. r \in Row
    BY <2>1, <2>3 DEF Row
  <2> QED BY <1>1, <2>1, <2>4, <2>5
<1>5. ASSUME NEW r \in rows, NEW s \in E PROVE r.what # s.what
  <2>1. r.what \in Txids \/ r.what[1] < b
    BY DEF IInv, RowsInv
  <2>2. s.what \notin Txids /\ s.what[1] = b
    BY <1>4
  <2> QED BY <1>1, <2>1, <2>2
<1>6. \A r, s \in rows \cup E : r.what = s.what => r = s
  BY <1>3, <1>5 DEF IInv, RowsInv, ReportedOnce
<1> QED BY <1>3, <1>4, <1>6 DEF E

LEMMA SaveBlockKeeps == ASSUME IInv, SaveBlock PROVE IInv'
<1>1. /\ block.phase = "restored" /\ block' = NoCommand
      /\ UNCHANGED <<startHeight, exclusive, pool, mempool, apart, bus, pc, loader, network,
                     refresh, sync, spent>>
  BY DEF SaveBlock, config
<1>2. PICK k \in 1..MaxBatch : rows' = rows \cup Batch(k) /\ height' = height + k
  BY DEF SaveBlock
<1> DEFINE E == Batch(k)
<1>3. /\ E \in SUBSET Row /\ Versioned(E) /\ Rising(E)
      /\ \A r \in E : /\ r.what \notin Txids /\ r.what[1] = spent["blocks"]
                      /\ r.height > height /\ r.height <= height + k
      /\ \A r, s \in rows \cup E : r.what = s.what => r = s
      /\ Numbers(block.base, E, k)
  BY <1>1, BatchIsNew DEF Idle
<1>4. k \in Nat /\ height \in Int /\ rows \in SUBSET Row /\ Versioned(rows)
  BY MempoolAssumption DEF IInv, Typed, TypeOK, RowsInv
<1> HIDE DEF E
<1>5. rows' = rows \cup E
  BY <1>2 DEF E
<1>6. Typed'
  <2>1. rows' \subseteq Row /\ height' \in Int
    BY <1>2, <1>3, <1>4, <1>5
  <2>2. block' \in Command
    BY <1>1 DEF NoCommand, Command, Phases
  <2> QED BY <1>1, <2>1, <2>2 DEF IInv, Typed, TypeOK
<1>7. Idle(block')
  BY <1>1 DEF NoCommand, Idle
<1>8. LockInv'
  BY <1>1, <1>7 DEF IInv, LockInv, Quiet, Owned, Idle
<1>9. SyncInv'
  BY <1>1 DEF IInv, SyncInv, Missing, Idle
<1>10. RowsInv'
  <2>1. Versioned(rows')
    <3>1. IsFiniteSet(rows')
      BY <1>3, <1>4, <1>5, FS_Union DEF Versioned
    <3>2. PICK m \in Nat : \A r \in rows : r.version <= m
      BY <1>4 DEF Versioned
    <3>3. PICK n \in Nat : \A r \in E : r.version <= n
      BY <1>3 DEF Versioned
    <3>4. \A r \in rows' : r.version \in Nat
      BY <1>3, <1>4, <1>5 DEF Row
    <3>5. m + n \in Nat /\ \A r \in rows' : r.version <= m + n
      BY <1>5, <3>2, <3>3, <3>4
    <3> QED BY <3>1, <3>4, <3>5 DEF Versioned
  <2>2. sync.phase = "ticked" =>
          sync.new = Emit(sync.base, mempool.loaded \ Reported(sync.base), mempool.height)
    BY DEF IInv, RowsInv
  <2>3. ~Idle(sync) => /\ Versioned(sync.base)
                       /\ \A r \in rows' : r.what \in Txids => r \in sync.base
    BY <1>3, <1>5 DEF IInv, RowsInv
  <2>4. \A r \in rows' : r.what \in Txids \/ r.what[1] <= spent["blocks"]
    <3>1. spent["blocks"] \in Nat
      BY DEF IInv, Typed, TypeOK, Faults
    <3> QED BY <1>3, <1>5, <3>1 DEF IInv, RowsInv
  <2>5. ReportedOnce'
    BY <1>3, <1>5 DEF ReportedOnce
  <2> QED BY <1>1, <1>7, <2>1, <2>2, <2>3, <2>4, <2>5 DEF RowsInv, Idle
<1>11. VersionsInv'
  <2> SUFFICES ASSUME exclusive
               PROVE  /\ Distinct(rows') /\ Idle(sync)
                      /\ ~apart => /\ Gapless(rows') /\ Rising(rows')
                                   /\ \A r \in rows' : r.height <= height'
    BY <1>1, <1>7 DEF VersionsInv, Idle
  <2>1. Idle(sync) /\ block.base = rows /\ Distinct(rows)
    BY <1>1 DEF IInv, VersionsInv, Idle
  <2>2. Distinct(rows') /\ (Gapless(rows) => Gapless(rows'))
    BY <1>3, <1>4, <1>5, <2>1, RowsContinue
  <2>3. ASSUME ~apart
        PROVE  Gapless(rows') /\ Rising(rows') /\ \A r \in rows' : r.height <= height'
    <3>1. Gapless(rows) /\ Rising(rows) /\ \A r \in rows : r.height <= height
      BY <2>3 DEF IInv, VersionsInv
    <3>2. \A r \in rows, s \in E : r.version < s.version /\ r.height < s.height
      <4>1. \A r \in rows : r.version <= LastVersion(rows) /\ r.version \in Nat
                             /\ r.height \in Int
        BY <1>4, LastVersionIsLast DEF Versioned, Row
      <4>2. LastVersion(rows) \in Nat
        BY <1>4, LastVersionIsLast
      <4>3. \A s \in E : s.version > LastVersion(rows) /\ s.version \in Nat
        BY <1>3, <2>1 DEF Numbers, Versioned
      <4>4. \A s \in E : s.height > height /\ s.height \in Int
        BY <1>3 DEF Row
      <4> QED BY <1>4, <3>1, <4>1, <4>2, <4>3, <4>4
    <3>3. \A r \in rows' : /\ r.height <= height' /\ r.version \in Nat /\ r.height \in Int
      BY <1>2, <1>3, <1>4, <1>5, <3>1 DEF Row
    <3>4. Rising(rows')
      BY <1>3, <1>5, <3>1, <3>2, <3>3 DEF Rising
    <3> QED BY <2>2, <3>1, <3>3, <3>4
  <2> QED BY <2>1, <2>2, <2>3
<1> QED BY <1>6, <1>8, <1>9, <1>10, <1>11 DEF IInv

LEMMA ReorganiseBlocksKeeps == ASSUME IInv, ReorganiseBlocks PROVE IInv'
<1>1. /\ block.phase = "restored" /\ block' = NoCommand
      /\ UNCHANGED <<startHeight, exclusive, pool, mempool, apart, bus, pc, loader, network,
                     refresh, sync, spent>>
  BY DEF ReorganiseBlocks, config
<1>2. PICK h \in 0..height : rows' = {r \in rows : r.height <= h} /\ height' = h
  BY DEF ReorganiseBlocks
<1>3. /\ rows' \in SUBSET rows /\ rows \in SUBSET Row /\ height' \in Int
      /\ Versioned(rows) /\ Versioned(rows')
  BY <1>2, SubsetIsVersioned DEF IInv, Typed, TypeOK, RowsInv
<1>4. Idle(block') /\ block' \in Command
  BY <1>1 DEF NoCommand, Command, Phases, Idle
<1>5. Typed'
  BY <1>1, <1>3, <1>4 DEF IInv, Typed, TypeOK
<1>6. LockInv'
  BY <1>1, <1>4 DEF IInv, LockInv, Quiet, Owned, Idle
<1>7. SyncInv'
  BY <1>1 DEF IInv, SyncInv, Missing, Idle
<1>8. RowsInv'
  <2>1. sync.phase = "ticked" =>
          sync.new = Emit(sync.base, mempool.loaded \ Reported(sync.base), mempool.height)
    BY DEF IInv, RowsInv
  <2> QED BY <1>1, <1>3, <1>4, <2>1 DEF IInv, RowsInv, ReportedOnce, Idle
<1>9. VersionsInv'
  <2> SUFFICES ASSUME exclusive
               PROVE  /\ Distinct(rows') /\ Idle(sync)
                      /\ ~apart => /\ Gapless(rows') /\ Rising(rows')
                                   /\ \A r \in rows' : r.height <= height'
    BY <1>1, <1>4 DEF VersionsInv, Idle
  <2>1. Idle(sync) /\ Distinct(rows)
    BY <1>1 DEF IInv, VersionsInv, Idle
  <2>2. Distinct(rows')
    BY <1>3, <2>1 DEF Distinct
  <2>3. ASSUME ~apart
        PROVE  Gapless(rows') /\ Rising(rows') /\ \A r \in rows' : r.height <= height'
    <3>1. Gapless(rows) /\ Rising(rows)
      BY <2>3 DEF IInv, VersionsInv
    <3>2. Rising(rows')
      BY <1>3, <3>1 DEF Rising
    <3>3. ASSUME NEW r \in rows', NEW v \in 1..r.version
          PROVE  \E s \in rows' : s.version = v
      <4>1. PICK s \in rows : s.version = v
        BY <1>3, <3>1 DEF Gapless
      <4>2. CASE v = r.version
        BY <4>2
      <4>3. CASE v # r.version
        <5>1. r.version \in Nat /\ r.height \in Int /\ s.height \in Int /\ h \in Int
          BY <1>3 DEF Row
        <5>2. s.version < r.version
          BY <4>1, <4>3, <5>1
        <5>3. s.height <= r.height /\ r.height <= h
          BY <1>2, <1>3, <3>1, <4>1, <5>2 DEF Rising
        <5>4. s.height <= h
          BY <5>1, <5>3
        <5> QED BY <1>2, <4>1, <5>4
      <4> QED BY <4>2, <4>3
    <3> QED BY <1>2, <3>2, <3>3 DEF Gapless
  <2> QED BY <2>1, <2>2, <2>3
<1> QED BY <1>5, <1>6, <1>7, <1>8, <1>9 DEF IInv

LEMMA BlockFailsKeeps == ASSUME IInv, BlockFails PROVE IInv'
<1>1. /\ block' = NoCommand
      /\ UNCHANGED <<startHeight, exclusive, pool, mempool, rows, height, apart, bus, pc,
                     loader, network, refresh, sync>>
  BY DEF BlockFails, config, stored
<1>2. spent' \in [Faults -> Nat] /\ spent'["blocks"] = spent["blocks"]
  BY SpendsNoBlock DEF BlockFails, IInv, Typed, Faults
<1>3. Idle(block') /\ block' \in Command
  BY <1>1 DEF NoCommand, Command, Phases, Idle
<1>4. Typed'
  BY <1>1, <1>2, <1>3 DEF IInv, Typed, TypeOK
<1>5. LockInv'
  BY <1>1, <1>3 DEF IInv, LockInv, Quiet, Owned, Idle
<1>6. SyncInv'
  BY <1>1 DEF IInv, SyncInv, Missing, Idle
<1>7. RowsInv'
  <2>1. sync.phase = "ticked" =>
          sync.new = Emit(sync.base, mempool.loaded \ Reported(sync.base), mempool.height)
    BY DEF IInv, RowsInv
  <2> QED BY <1>1, <1>2, <1>3, <2>1 DEF IInv, RowsInv, ReportedOnce, Idle
<1>8. VersionsInv'
  BY <1>1, <1>3 DEF IInv, VersionsInv, Idle
<1> QED BY <1>4, <1>5, <1>6, <1>7, <1>8 DEF IInv

-----------------------------------------------------------------------------
LEMMA StepsKeep == IInv /\ [Next]_vars => IInv'
<1> SUFFICES ASSUME IInv, [Next]_vars PROVE IInv'
  OBVIOUS
<1>1. CASE \/ NodeChanges \/ StartInitNetwork \/ InitNetwork \/ InitNetworkFails
           \/ UNCHANGED vars
  BY <1>1, OthersKeep
<1>2. CASE Crash
  BY <1>2, CrashKeeps
<1>3. CASE InitMempool
  BY <1>3, InitMempoolKeeps
<1>4. CASE OnInitialized
  BY <1>4, OnInitializedKeeps
<1>5. CASE Snapshot
  BY <1>5, SnapshotKeeps
<1>6. CASE Refresh
  BY <1>6, RefreshKeeps
<1>7. CASE RefreshFails
  BY <1>7, RefreshFailsKeeps
<1>8. CASE StartSync
  BY <1>8, StartSyncKeeps
<1>9. CASE LoadTransactions
  BY <1>9, LoadTransactionsKeeps
<1>10. CASE Tick
  BY <1>10, TickKeeps
<1>11. CASE SaveSync
  BY <1>11, SaveSyncKeeps
<1>12. CASE SyncFails
  BY <1>12, SyncFailsKeeps
<1>13. CASE OnSynchronized
  BY <1>13, OnSynchronizedKeeps
<1>14. CASE StartBlock
  BY <1>14, StartBlockKeeps
<1>15. CASE SaveBlock
  BY <1>15, SaveBlockKeeps
<1>16. CASE ReorganiseBlocks
  BY <1>16, ReorganiseBlocksKeeps
<1>17. CASE BlockFails
  BY <1>17, BlockFailsKeeps
<1> QED BY <1>1, <1>2, <1>3, <1>4, <1>5, <1>6, <1>7, <1>8, <1>9, <1>10, <1>11, <1>12,
           <1>13, <1>14, <1>15, <1>16, <1>17 DEF Next

LEMMA Invariant == Spec => []IInv
BY InitEstablishes, StepsKeep, PTL DEF Spec

-----------------------------------------------------------------------------
(* Every variable keeps its kind, and a process with a start height that   *)
(* InitMempool refuses never runs.                                         *)
THEOREM TypeCorrect == Spec => []TypeOK
<1>1. IInv => TypeOK
  BY DEF IInv, Typed
<1> QED BY <1>1, Invariant, PTL

(* While MempoolLoaderService is locked exactly one refresh, sync or event *)
(* works for it, and none while it is not: no sync of a snapshot overlaps  *)
(* a refresh or another sync, whatever fails and whenever it crashes.      *)
THEOREM LockHasOwnerHolds == Spec => []LockHasOwner
<1>1. ASSUME IInv PROVE LockHasOwner
  <2> DEFINE turns == {i \in DOMAIN bus : bus[i] # "Initialized"}
  <2>1. bus \in {<<>>, <<"Initialized">>} => Cardinality(turns) = 0
    <3>1. bus \in {<<>>, <<"Initialized">>} => turns = {}
      OBVIOUS
    <3> QED BY <3>1, FS_EmptySet
  <2>2. bus \in Turns => Cardinality(turns) = 1
    <3>1. bus \in Turns => turns = {1}
      BY DEF Turns
    <3> QED BY <3>1, FS_Singleton
  <2> HIDE DEF turns
  <2>3. UnderWay = Cardinality(turns) + (IF Idle(refresh) THEN 0 ELSE 1)
                                      + (IF Idle(sync) THEN 0 ELSE 1)
    BY DEF UnderWay, turns, Idle
  <2>4. CASE Quiet
    BY <2>1, <2>3, <2>4 DEF LockHasOwner, Quiet
  <2>5. CASE Owned
    BY <2>1, <2>2, <2>3, <2>5 DEF LockHasOwner, Owned
  <2> QED BY <1>1, <2>4, <2>5 DEF IInv, LockInv
<1>2. IInv => LockHasOwner
  BY <1>1
<1> QED BY <1>2, Invariant, PTL

(* When SyncMempool says Synchronized, every transaction of the snapshot   *)
(* has been loaded.                                                        *)
THEOREM SynchronizedCompleteHolds == Spec => []SynchronizedComplete
<1>1. ASSUME IInv, Contains(bus, "Synchronized") PROVE Missing = {}
  <2>1. bus = <<"Synchronized">>
    BY <1>1 DEF IInv, Typed, Contains
  <2> QED BY <1>1, <2>1 DEF IInv, SyncInv
<1>2. IInv => SynchronizedComplete
  BY <1>1 DEF SynchronizedComplete
<1> QED BY <1>2, Invariant, PTL

(* If SyncMempool and AddBlocksBatch do not overlap, they never give two   *)
(* events of the user model they share the same version, whatever the      *)
(* rollbacks of AddBlocksBatch delete; and as long as every tick has       *)
(* stored at the Network's height those rollbacks cut off the last ones,   *)
(* so that the versions have no hole.                                      *)
THEOREM VersionsStrictHolds == Spec => []VersionsStrict
<1>1. ASSUME IInv PROVE VersionsStrict
  <2> SUFFICES ASSUME exclusive
               PROVE  /\ Distinct(rows)
                      /\ ~apart => {r.version : r \in rows} = 1..Cardinality(rows)
    BY DEF VersionsStrict, Distinct
  <2>1. Distinct(rows) /\ (~apart => Gapless(rows))
    BY <1>1 DEF IInv, VersionsInv
  <2>2. Versioned(rows) /\ \A r \in rows : r.version # 0
    BY <1>1 DEF IInv, RowsInv, Typed, TypeOK, Row
  <2> QED BY <2>1, <2>2, GaplessIsInterval
<1>2. IInv => VersionsStrict
  BY <1>1
<1> QED BY <1>2, Invariant, PTL

(* The model reports no transaction and no block twice, even if commands   *)
(* overlap, over all failures, restarts and rollbacks.                     *)
THEOREM ReportedOnceHolds == Spec => []ReportedOnce
<1>1. IInv => ReportedOnce
  BY DEF IInv, RowsInv
<1> QED BY <1>1, Invariant, PTL
=============================================================================
