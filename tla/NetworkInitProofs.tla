------------------------- MODULE NetworkInitProofs -------------------------
(***************************************************************************)
(* The safety properties of NetworkInit, proved for every set of           *)
(* deployments, every START_BLOCK_HEIGHT and every bound.                  *)
(***************************************************************************)
EXTENDS NetworkQueries, SequenceTheorems, FiniteSetTheorems, TLAPS

Within(range, h) == h \in range

K == INSTANCE Filtering WITH test <- Within

-----------------------------------------------------------------------------
(* Facts about logs, whatever rows they hold.                              *)

Row == [version : Nat,
        type : {"Initialized", "BlocksAdded", "Reorganized", "Cleared"},
        height : Int, blocks : SUBSET Heights]

IsLast(r, l) == r \in l /\ \A x \in l : x.version <= r.version

(* However much of a log is deleted, one of the rows left is the last one. *)
HasLast(l) == \A s \in SUBSET l : s # {} => \E r \in s : IsLast(r, s)

UpTo(l, h) == {r \in l : r.height <= h}

Newer(n, l) == \A r \in l : r.version < n.version

Trims(n) == n.type \in {"Reorganized", "Cleared"}

(* The blocks that no later row takes away, whether the Network still      *)
(* holds them or has dropped them.                                         *)
Kept(l) ==
  {h \in Heights :
     \E r \in l : /\ h \in r.blocks
                  /\ \A x \in l : /\ x.version > r.version
                                  /\ x.type \in {"Reorganized", "Cleared"}
                                  => h <= x.height}

(* The blocks of a row all go with a rollback to height c, or all stay.    *)
WholeRows(l, c) ==
  \A r \in l : \A b \in r.blocks : b <= r.height /\ (r.height <= c \/ b > c)

(* The last row is one of the log, and of its height and version.          *)
LEMMA LastRowIsLast ==
  ASSUME NEW l, HasLast(l), l # {}
  PROVE  IsLast(LastRow(l), l)
BY DEF HasLast, IsLast, LastRow

(* A newer row becomes the last one.                                       *)
LEMMA NewerIsLast ==
  ASSUME NEW l \in SUBSET Row, NEW n \in Row, Newer(n, l)
  PROVE  LastRow(l \cup {n}) = n
<1>1. IsLast(n, l \cup {n})
  BY DEF Newer, IsLast, Row
<1>2. \A x : IsLast(x, l \cup {n}) => x = n
  BY DEF Newer, IsLast, Row
<1> QED BY <1>1, <1>2 DEF LastRow, IsLast

LEMMA NewerHasLast ==
  ASSUME NEW l \in SUBSET Row, NEW n \in Row, Newer(n, l), HasLast(l)
  PROVE  HasLast(l \cup {n})
<1> SUFFICES ASSUME NEW s \in SUBSET (l \cup {n}), s # {}
             PROVE  \E r \in s : IsLast(r, s)
  BY DEF HasLast
<1>1. CASE n \in s
  BY <1>1 DEF Newer, IsLast, Row
<1>2. CASE n \notin s
  BY <1>2 DEF HasLast
<1> QED BY <1>1, <1>2

(* What With adds is newer, a row, and the last one.                       *)
LEMMA WithAppends ==
  ASSUME NEW l \in SUBSET Row, HasLast(l),
         NEW type \in {"Initialized", "BlocksAdded", "Reorganized", "Cleared"},
         NEW h \in Int, NEW blocks \in SUBSET Heights
  PROVE  \E n \in Row : /\ With(l, type, h, blocks) = l \cup {n}
                        /\ n.type = type /\ n.height = h /\ n.blocks = blocks
                        /\ Newer(n, l)
<1> DEFINE n == [version |-> Version(l) + 1, type |-> type, height |-> h, blocks |-> blocks]
<1>1. Version(l) \in Nat /\ \A r \in l : r.version <= Version(l)
  BY LastRowIsLast DEF Version, IsLast, Row
<1>2. n \in Row
  BY <1>1 DEF Row
<1>3. Newer(n, l)
  BY <1>1 DEF Newer, Row
<1> QED BY <1>2, <1>3 DEF With

(* The blocks kept after one more row.                                     *)
LEMMA KeptOfNewer ==
  ASSUME NEW l \in SUBSET Row, NEW n \in Row, Newer(n, l)
  PROVE  Kept(l \cup {n}) =
           {h \in Kept(l) : Trims(n) => h <= n.height} \cup n.blocks
<1>1. ASSUME NEW h \in Kept(l \cup {n})
      PROVE  h \in n.blocks \/ (h \in Kept(l) /\ (Trims(n) => h <= n.height))
  BY DEF Kept, Newer, Trims, Row
<1>2. ASSUME NEW h \in n.blocks
      PROVE  h \in Kept(l \cup {n})
  <2>1. h \in Heights /\ \A x \in l \cup {n} : ~(x.version > n.version)
    BY DEF Newer, Row
  <2> QED BY <2>1 DEF Kept
<1>3. ASSUME NEW h \in Kept(l), Trims(n) => h <= n.height
      PROVE  h \in Kept(l \cup {n})
  BY <1>3 DEF Kept, Trims
<1> QED BY <1>1, <1>2, <1>3

(* The blocks kept after a rollback that splits no row.                    *)
LEMMA KeptOfCut ==
  ASSUME NEW l \in SUBSET Row, NEW c \in Int, WholeRows(l, c)
  PROVE  Kept(UpTo(l, c)) = {h \in Kept(l) : h <= c}
<1>1. ASSUME NEW h \in Kept(UpTo(l, c)) PROVE h \in Kept(l) /\ h <= c
  <2>1. PICK r \in UpTo(l, c) :
          /\ h \in r.blocks
          /\ \A x \in UpTo(l, c) : /\ x.version > r.version
                                   /\ x.type \in {"Reorganized", "Cleared"}
                                   => h <= x.height
    BY DEF Kept
  <2>2. h \in Heights /\ r \in l /\ h \in Int /\ h <= c
    BY <2>1 DEF Kept, UpTo, WholeRows, Row, Heights
  <2>3. \A x \in l : /\ x.version > r.version
                     /\ x.type \in {"Reorganized", "Cleared"}
                     => h <= x.height
    BY <2>1, <2>2 DEF UpTo, Row
  <2> QED BY <2>1, <2>2, <2>3 DEF Kept
<1>2. ASSUME NEW h \in Kept(l), h <= c PROVE h \in Kept(UpTo(l, c))
  BY <1>2 DEF Kept, UpTo, WholeRows, Row, Heights
<1> QED BY <1>1, <1>2

(* What the Network holds is kept.                                         *)
LEMMA WindowIsKept ==
  ASSUME NEW l
  PROVE  Window(l) \subseteq Kept(l)
BY DEF Window, Kept

LEMMA CutOfLog ==
  ASSUME NEW l \in SUBSET Row, HasLast(l), NEW c
  PROVE  UpTo(l, c) \in SUBSET Row /\ HasLast(UpTo(l, c))
BY DEF UpTo, HasLast

(* The height once a newer row is there, also below a height it is not of. *)
LEMMA HeightOfNewer ==
  ASSUME NEW l \in SUBSET Row, NEW n \in Row, Newer(n, l)
  PROVE  /\ Height(l \cup {n}) = n.height
         /\ \A c \in Int : n.height <= c => Height(UpTo(l \cup {n}, c)) = n.height
         /\ \A c \in Int : n.height > c => UpTo(l \cup {n}, c) = UpTo(l, c)
<1>1. Height(l \cup {n}) = n.height
  BY NewerIsLast DEF Height
<1>2. ASSUME NEW c \in Int, n.height <= c
      PROVE  Height(UpTo(l \cup {n}, c)) = n.height
  <2>1. UpTo(l \cup {n}, c) = UpTo(l, c) \cup {n}
    BY <1>2 DEF UpTo
  <2>2. UpTo(l, c) \in SUBSET Row /\ Newer(n, UpTo(l, c))
    BY DEF UpTo, Newer
  <2> QED BY <2>1, <2>2, NewerIsLast DEF Height
<1>3. ASSUME NEW c \in Int, n.height > c
      PROVE  UpTo(l \cup {n}, c) = UpTo(l, c)
  BY <1>3 DEF UpTo, Row
<1> QED BY <1>1, <1>2, <1>3

LEMMA HeightIsInt ==
  ASSUME NEW l \in SUBSET Row, HasLast(l)
  PROVE  Height(l) \in Int
BY LastRowIsLast DEF Height, IsLast, Row

-----------------------------------------------------------------------------
(* What keeps the Network's log and the user models together.              *)

(* What is kept has no gap, up to the Network's height.                    *)
Dense(l) ==
  \A h \in Kept(l) : h <= Height(l) /\ \A x \in h..Height(l) : x \in Kept(l)

(* No row is of a lower height than its blocks; or even of another one.    *)
RowsReach(l) == \A r \in l : \A b \in r.blocks : b <= r.height

RowsSingle(l) == \A r \in l : \A b \in r.blocks : b = r.height

(* A rollback to a height at or above a block that is kept ends there.     *)
Cuttable(l) ==
  \A c \in Int : c <= Height(l) /\ (\E h \in Kept(l) : h <= c)
                   => Height(UpTo(l, c)) = c

(* The rows of batches have their last block as height, others no blocks.  *)
RowsTopped(l) ==
  \A r \in l : /\ r.type = "BlocksAdded" => r.height \in r.blocks
               /\ r.type # "BlocksAdded" => r.blocks = {}
               /\ r.type = "Cleared" => r.height = -1

(* Between a block and a later one at its height or below, blocks from     *)
(* there on were taken away.                                               *)
RowsRise(l) ==
  \A r, s \in l : s.version < r.version =>
    \A h \in r.blocks, x \in s.blocks : x >= h =>
      \E y \in l : Trims(y) /\ s.version < y.version /\ y.version < r.version /\ y.height < x

(* The Network never drops the block at its height.                        *)
HoldsHeight(l) == Kept(l) # {} => Height(l) \in Window(l)

Bounded(l) == RowsTopped(l) /\ RowsRise(l) /\ HoldsHeight(l)

HasParent == deployment.checkpoints # {Undefined}

LogOK == log \in SUBSET Row /\ HasLast(log)

Agree ==
  ~MaySplitBatches =>
    /\ Indexed = Kept(log)
    /\ \A h \in Heights : users[h] <= 1
    /\ Dense(log)
    /\ RowsReach(log)
    /\ Bounded(log)
    /\ HasParent => RowsSingle(log) /\ Cuttable(log)

IInv == TypeOK /\ LogOK /\ Agree

-----------------------------------------------------------------------------
(* The effect on a log of each event the program stores.                   *)

(* The blocks of a row go from right above a log up to its height.         *)
Stacks(n, l) == n.height > Height(l) /\ n.blocks = (Height(l) + 1)..n.height

(* A batch goes right on top of the height.                                *)
LEMMA BatchOnTop ==
  ASSUME NEW l \in SUBSET Row, HasLast(l), Dense(l), RowsReach(l),
         NEW n \in Row, Newer(n, l), ~Trims(n), Stacks(n, l)
  PROVE  /\ Kept(l \cup {n}) = Kept(l) \cup n.blocks
         /\ Dense(l \cup {n})
         /\ RowsReach(l \cup {n})
<1>1. Height(l) \in Int /\ n.height \in Int /\ Kept(l) \in SUBSET Int
  BY HeightIsInt DEF Row, Kept, Heights
<1>2. Kept(l \cup {n}) = Kept(l) \cup n.blocks
  BY KeptOfNewer
<1>3. Height(l \cup {n}) = n.height
  BY HeightOfNewer
<1>4. \A b : b \in n.blocks <=> b \in Int /\ Height(l) < b /\ b <= n.height
  BY <1>1 DEF Stacks
<1>5. RowsReach(l \cup {n})
  BY <1>4 DEF RowsReach
<1>6. ASSUME NEW h \in Kept(l \cup {n})
      PROVE  h \in Int /\ h <= n.height
  <2>1. CASE h \in Kept(l)
    BY <2>1, <1>1 DEF Dense, Stacks
  <2>2. CASE h \in n.blocks
    BY <2>2, <1>4
  <2> QED BY <2>1, <2>2, <1>2
<1>7. ASSUME NEW h \in Kept(l \cup {n}), NEW x \in h..n.height
      PROVE  x \in Kept(l \cup {n})
  <2>1. h \in Int /\ x \in Int /\ h <= x /\ x <= n.height
    BY <1>1, <1>6, <1>7
  <2>2. CASE x > Height(l)
    <3>1. x \in n.blocks
      BY <2>1, <2>2, <1>4
    <3> QED BY <3>1, <1>2
  <2>3. CASE x <= Height(l)
    <3>1. h \notin n.blocks
      BY <2>1, <2>3, <1>4, <1>1
    <3>2. h \in Kept(l)
      BY <3>1, <1>2
    <3>3. x \in Kept(l)
      BY <3>2, <2>1, <2>3, <1>1 DEF Dense
    <3> QED BY <3>3, <1>2
  <2> QED BY <2>1, <2>2, <2>3, <1>1
<1> QED BY <1>2, <1>3, <1>5, <1>6, <1>7 DEF Dense

(* An event without blocks that takes away what is above its height, and   *)
(* whose height is the log's, a block that is kept, or of no meaning       *)
(* because none is.                                                        *)
LEMMA MarkOnTop ==
  ASSUME NEW l \in SUBSET Row, HasLast(l), Dense(l), RowsReach(l),
         NEW n \in Row, Newer(n, l), n.blocks = {},
         \/ Kept(l) = {}
         \/ n.height = Height(l)
         \/ Trims(n) /\ n.height \in Kept(l)
  PROVE  /\ Kept(l \cup {n}) = {h \in Kept(l) : h <= n.height}
         /\ Dense(l \cup {n})
         /\ RowsReach(l \cup {n})
         /\ RowsSingle(l) => RowsSingle(l \cup {n})
         /\ Cuttable(l) => Cuttable(l \cup {n})
<1>1. Height(l) \in Int /\ n.height \in Int /\ Kept(l) \in SUBSET Int
  BY HeightIsInt DEF Row, Kept, Heights
<1>2. Kept(l \cup {n}) = {h \in Kept(l) : Trims(n) => h <= n.height}
  BY KeptOfNewer
<1>3. Kept(l \cup {n}) = {h \in Kept(l) : h <= n.height}
  BY <1>1, <1>2 DEF Dense
<1>4. Height(l \cup {n}) = n.height
  BY HeightOfNewer
<1>5. n.height <= Height(l) \/ Kept(l) = {}
  BY <1>1 DEF Dense
<1>6. Dense(l \cup {n})
  <2> SUFFICES ASSUME NEW h \in Kept(l \cup {n}), NEW x \in h..n.height
               PROVE  x \in Kept(l \cup {n})
    BY <1>1, <1>3, <1>4 DEF Dense
  <2>1. h \in Kept(l) /\ h \in Int /\ x \in h..Height(l)
    BY <1>1, <1>3, <1>5
  <2>2. x \in Kept(l)
    BY <2>1 DEF Dense
  <2> QED BY <2>2, <1>3
<1>7. RowsReach(l \cup {n}) /\ (RowsSingle(l) => RowsSingle(l \cup {n}))
  BY DEF RowsReach, RowsSingle
<1>8. ASSUME Cuttable(l) PROVE Cuttable(l \cup {n})
  <2> SUFFICES ASSUME NEW c \in Int, c <= n.height,
                      NEW h \in Kept(l \cup {n}), h <= c
               PROVE  Height(UpTo(l \cup {n}, c)) = c
    BY <1>4 DEF Cuttable
  <2>1. CASE c = n.height
    BY <2>1, HeightOfNewer
  <2>2. CASE c < n.height
    <3>1. UpTo(l \cup {n}, c) = UpTo(l, c)
      BY <2>2, <1>1, HeightOfNewer
    <3>2. h \in Kept(l) /\ c <= Height(l)
      BY <2>2, <1>1, <1>3, <1>5
    <3> QED BY <3>1, <3>2, <1>8 DEF Cuttable
  <2> QED BY <2>1, <2>2, <1>1
<1> QED BY <1>3, <1>6, <1>7, <1>8

(* A batch of one block can be cut off again.                              *)
LEMMA BlockCanBeCut ==
  ASSUME NEW l \in SUBSET Row, HasLast(l), Dense(l), RowsSingle(l), Cuttable(l),
         NEW n \in Row, Newer(n, l), ~Trims(n), Stacks(n, l), n.height = Height(l) + 1
  PROVE  RowsSingle(l \cup {n}) /\ Cuttable(l \cup {n})
<1>1. Height(l) \in Int /\ n.height \in Int /\ Kept(l) \in SUBSET Int
  BY HeightIsInt DEF Row, Kept, Heights
<1>2. \A b \in n.blocks : b = n.height
  BY <1>1 DEF Stacks
<1>3. RowsSingle(l \cup {n})
  BY <1>2 DEF RowsSingle
<1>4. Kept(l \cup {n}) = Kept(l) \cup n.blocks
  BY KeptOfNewer
<1>5. ASSUME NEW c \in Int, c <= n.height, NEW h \in Kept(l \cup {n}), h <= c
      PROVE  Height(UpTo(l \cup {n}, c)) = c
  <2>1. CASE c = n.height
    <3>1. \A d \in Int : n.height <= d => Height(UpTo(l \cup {n}, d)) = n.height
      BY HeightOfNewer
    <3>2. n.height <= c
      BY <1>1, <2>1
    <3>3. Height(UpTo(l \cup {n}, c)) = n.height
      BY <3>1, <3>2
    <3> QED BY <2>1, <3>3
  <2>2. CASE c < n.height
    <3>1. UpTo(l \cup {n}, c) = UpTo(l, c)
      BY <2>2, <1>1, HeightOfNewer
    <3>2. h \in Kept(l)
      BY <1>1, <1>2, <1>4, <1>5, <2>2
    <3>3. c <= Height(l)
      BY <1>1, <2>2
    <3> QED BY <3>1, <3>2, <3>3, <1>5 DEF Cuttable
  <2> QED BY <2>1, <2>2, <1>1, <1>5
<1>6. Height(l \cup {n}) = n.height
  BY HeightOfNewer
<1> QED BY <1>3, <1>5, <1>6 DEF Cuttable

(* A rollback of rows of one block each.                                   *)
LEMMA CutOff ==
  ASSUME NEW l \in SUBSET Row, HasLast(l), Dense(l), RowsSingle(l), Cuttable(l),
         NEW c \in Int, c <= Height(l)
  PROVE  /\ Kept(UpTo(l, c)) = {h \in Kept(l) : h <= c}
         /\ Dense(UpTo(l, c))
         /\ RowsSingle(UpTo(l, c))
         /\ Cuttable(UpTo(l, c))
<1>1. Height(l) \in Int /\ Kept(l) \in SUBSET Int
  BY HeightIsInt DEF Kept, Heights
<1>2. WholeRows(l, c)
  BY DEF WholeRows, RowsSingle, Row, Heights
<1>3. Kept(UpTo(l, c)) = {h \in Kept(l) : h <= c}
  BY <1>2, KeptOfCut
<1>4. ASSUME NEW h \in Kept(l), h <= c PROVE Height(UpTo(l, c)) = c
  BY <1>4 DEF Cuttable
<1>5. Dense(UpTo(l, c))
  <2> SUFFICES ASSUME NEW h \in Kept(UpTo(l, c))
               PROVE  /\ h <= Height(UpTo(l, c))
                      /\ \A x \in h..Height(UpTo(l, c)) : x \in Kept(UpTo(l, c))
    BY DEF Dense
  <2>1. h \in Kept(l) /\ h <= c /\ h \in Int
    BY <1>1, <1>3
  <2>2. Height(UpTo(l, c)) = c
    BY <2>1, <1>4
  <2>3. \A x \in h..Height(l) : x \in Kept(l)
    BY <2>1 DEF Dense
  <2> QED BY <2>1, <2>2, <2>3, <1>1, <1>3
<1>6. RowsSingle(UpTo(l, c))
  BY DEF RowsSingle, UpTo
<1>7. Cuttable(UpTo(l, c))
  <2> SUFFICES ASSUME NEW d \in Int, d <= Height(UpTo(l, c)),
                      NEW h \in Kept(UpTo(l, c)), h <= d
               PROVE  Height(UpTo(UpTo(l, c), d)) = d
    BY DEF Cuttable
  <2>1. h \in Kept(l) /\ h <= c /\ d <= c
    BY <1>3, <1>4
  <2>2. UpTo(UpTo(l, c), d) = UpTo(l, d)
    BY <2>1 DEF UpTo, Row
  <2>3. d <= Height(l)
    BY <2>1, <1>1
  <2> QED BY <2>1, <2>2, <2>3 DEF Cuttable
<1> QED BY <1>3, <1>5, <1>6, <1>7

(* A reset leaves no block.                                                *)
LEMMA CutEverything ==
  ASSUME NEW l \in SUBSET Row, RowsReach(l)
  PROVE  /\ Kept(UpTo(l, -1)) = {}
         /\ RowsReach(UpTo(l, -1))
         /\ RowsSingle(UpTo(l, -1))
         /\ RowsTopped(l) => Bounded(UpTo(l, -1))
<1>1. \A r \in UpTo(l, -1) : r.blocks = {}
  BY DEF UpTo, RowsReach, Row, Heights
<1>2. Kept(UpTo(l, -1)) = {} /\ RowsReach(UpTo(l, -1)) /\ RowsSingle(UpTo(l, -1))
  BY <1>1 DEF Kept, RowsReach, RowsSingle
<1>3. RowsTopped(l) => RowsTopped(UpTo(l, -1))
  BY DEF RowsTopped, UpTo
<1>4. RowsRise(UpTo(l, -1))
  BY <1>1 DEF RowsRise
<1> QED BY <1>2, <1>3, <1>4 DEF Bounded, HoldsHeight

(* A batch is held up to its last block.                                   *)
LEMMA BatchIsHeld ==
  ASSUME NEW l \in SUBSET Row, HasLast(l), Dense(l), RowsTopped(l), RowsRise(l),
         NEW n \in Row, Newer(n, l), n.type = "BlocksAdded", Stacks(n, l)
  PROVE  Bounded(l \cup {n})
<1>1. Height(l) \in Int /\ n.height \in Int /\ n.height \in n.blocks /\ n.height \in Heights
  <2>1. Height(l) \in Int /\ n.height \in Int
    BY HeightIsInt DEF Row
  <2>2. n.height \in (Height(l) + 1)..n.height
    BY <2>1 DEF Stacks
  <2> QED BY <2>1, <2>2 DEF Stacks, Row
<1>2. RowsTopped(l \cup {n})
  BY <1>1 DEF RowsTopped
<1>3. RowsRise(l \cup {n})
  <2> SUFFICES ASSUME NEW r \in l \cup {n}, NEW s \in l \cup {n}, s.version < r.version,
                      NEW h \in r.blocks, NEW x \in s.blocks, x >= h
               PROVE  \E y \in l \cup {n} : /\ Trims(y) /\ s.version < y.version
                                            /\ y.version < r.version /\ y.height < x
    BY DEF RowsRise
  <2>1. s \in l
    BY DEF Newer, Row
  <2>2. CASE r \in l
    BY <2>1, <2>2 DEF RowsRise
  <2>3. CASE r = n
    <3>1. h \in Int /\ h > Height(l) /\ x \in Heights /\ x \in Int
      BY <1>1, <2>3 DEF Stacks, Row, Heights
    <3>2. x \notin Kept(l)
      BY <1>1, <3>1 DEF Dense
    <3>3. PICK y \in l : /\ y.version > s.version /\ y.type \in {"Reorganized", "Cleared"}
                         /\ ~(x <= y.height)
      BY <2>1, <3>1, <3>2 DEF Kept
    <3> QED BY <2>1, <2>3, <3>1, <3>3 DEF Newer, Row, Trims
  <2> QED BY <2>2, <2>3
<1>4. n.height \in Window(l \cup {n})
  <2>1. \A x \in l \cup {n} : ~(x.version > n.version)
    BY DEF Newer, Row
  <2>2. \A x \in l \cup {n} : x.version >= n.version => x = n
    BY DEF Newer, Row
  <2>3. n.height > n.height - MaxSize
    BY <1>1, ConfigAssumption
  <2> QED BY <1>1, <2>1, <2>2, <2>3 DEF Window
<1>5. Height(l \cup {n}) = n.height
  BY HeightOfNewer
<1> QED BY <1>2, <1>3, <1>4, <1>5 DEF Bounded, HoldsHeight

(* An event without blocks leaves the block at its height where it is.     *)
LEMMA MarkIsHeld ==
  ASSUME NEW l \in SUBSET Row, HasLast(l), Bounded(l),
         NEW n \in Row, Newer(n, l), n.blocks = {}, n.type # "BlocksAdded",
         n.type = "Cleared" => n.height = -1,
         \/ Kept(l) = {}
         \/ n.height = Height(l)
         \/ n.height \in Window(l)
  PROVE  Bounded(l \cup {n})
<1>1. RowsTopped(l \cup {n})
  BY DEF RowsTopped, Bounded
<1>2. RowsRise(l \cup {n})
  BY DEF RowsRise, Bounded, Newer, Row
<1>3. ASSUME Kept(l \cup {n}) # {} PROVE n.height \in Window(l \cup {n})
  <2>1. Kept(l) # {}
    BY <1>3, KeptOfNewer
  <2>2. n.height \in Window(l)
    BY <2>1 DEF Bounded, HoldsHeight
  <2> QED BY <2>2 DEF Window, Heights
<1>4. Height(l \cup {n}) = n.height
  BY HeightOfNewer
<1> QED BY <1>1, <1>2, <1>3, <1>4 DEF Bounded, HoldsHeight

(* After a rollback no batch is left that dropped the block it went to.    *)
LEMMA CutIsHeld ==
  ASSUME NEW l \in SUBSET Row, RowsTopped(l), RowsRise(l), NEW c \in Int, WholeRows(l, c)
  PROVE  /\ RowsTopped(UpTo(l, c)) /\ RowsRise(UpTo(l, c))
         /\ c \in Kept(UpTo(l, c)) => c \in Window(UpTo(l, c))
<1>1. RowsTopped(UpTo(l, c))
  BY DEF RowsTopped, UpTo
<1>2. RowsRise(UpTo(l, c))
  <2> SUFFICES ASSUME NEW r \in UpTo(l, c), NEW s \in UpTo(l, c), s.version < r.version,
                      NEW h \in r.blocks, NEW x \in s.blocks, x >= h
               PROVE  \E y \in UpTo(l, c) : /\ Trims(y) /\ s.version < y.version
                                            /\ y.version < r.version /\ y.height < x
    BY DEF RowsRise
  <2>1. PICK y \in l : /\ Trims(y) /\ s.version < y.version
                       /\ y.version < r.version /\ y.height < x
    BY DEF RowsRise, UpTo
  <2>2. x <= s.height /\ s.height <= c /\ x \in Int
    BY DEF WholeRows, UpTo, Row, Heights
  <2>3. y \in UpTo(l, c)
    BY <2>1, <2>2 DEF UpTo, Row
  <2> QED BY <2>1, <2>3
<1>3. \A x \in UpTo(l, c) : c > x.height - MaxSize
  BY ConfigAssumption DEF UpTo, Row
<1> QED BY <1>1, <1>2, <1>3 DEF Kept, Window

LEMMA CutOffIsHeld ==
  ASSUME NEW l \in SUBSET Row, HasLast(l), Dense(l), RowsSingle(l), Cuttable(l), Bounded(l),
         NEW c \in Int, c <= Height(l)
  PROVE  Bounded(UpTo(l, c))
<1>1. Dense(UpTo(l, c)) /\ Kept(UpTo(l, c)) = {h \in Kept(l) : h <= c}
  BY CutOff
<1>2. WholeRows(l, c)
  BY DEF WholeRows, RowsSingle, Row, Heights
<1>3. /\ RowsTopped(UpTo(l, c)) /\ RowsRise(UpTo(l, c))
      /\ c \in Kept(UpTo(l, c)) => c \in Window(UpTo(l, c))
  BY <1>2, CutIsHeld DEF Bounded
<1>4. ASSUME NEW h \in Kept(UpTo(l, c))
      PROVE  Height(UpTo(l, c)) = c /\ c \in Kept(UpTo(l, c))
  <2>1. h \in Kept(l) /\ h <= c /\ h \in Int
    BY <1>1 DEF Kept, Heights
  <2>2. Height(UpTo(l, c)) = c
    BY <2>1 DEF Cuttable
  <2> QED BY <1>1, <2>1, <2>2 DEF Dense
<1> QED BY <1>3, <1>4 DEF Bounded, HoldsHeight

-----------------------------------------------------------------------------
(* The invariant is inductive.                                             *)

(* What stays as it is keeps the log and the user models together.         *)
LEMMA Untouched ==
  ASSUME IInv, UNCHANGED <<deployment, log, users>>
  PROVE  LogOK' /\ Agree'
BY DEF IInv, LogOK, Agree, MaySplitBatches, Indexed, HasParent

(* The heights a boot computes with are integers.                          *)
LEMMA BootIsTyped ==
  ASSUME TypeOK, LogOK
  PROVE  /\ Height(log) \in Int
         /\ HasCheckpoint => /\ boot.checkpoint \in Int
                             /\ HasParent
         /\ \A tip \in Heights : StartFrom(tip) \in Int
<1>1. Height(log) \in Int
  BY HeightIsInt DEF LogOK
<1>2. ASSUME HasCheckpoint PROVE boot.checkpoint \in Int /\ HasParent
  BY <1>2, ConfigAssumption DEF HasCheckpoint, HasParent, TypeOK
<1>3. ASSUME NEW tip \in Heights PROVE StartFrom(tip) \in Int
  <2>1. boot.start # Undefined => boot.start \in Int
    BY DEF TypeOK
  <2>2. StartFromEnv(tip) \in Int
    BY <1>1, <2>1 DEF StartFromEnv, Heights
  <2> QED BY <1>2, <2>2 DEF StartFrom
<1> QED BY <1>1, <1>2, <1>3

(* Where no checkpoint splits a batch, a parent's queue has single blocks. *)
LEMMA SingleBlocks ==
  ASSUME TypeOK, ~MaySplitBatches, HasParent
  PROVE  deployment.maxBatch = 1
BY ConfigAssumption DEF TypeOK, MaySplitBatches, HasParent

LEMMA InitEstablishes == Init => IInv
<1> SUFFICES ASSUME Init PROVE IInv
  OBVIOUS
<1>1. TypeOK
  BY ConfigAssumption DEF Init, TypeOK, NoBoot, Heights
<1>2. LogOK
  BY DEF Init, LogOK, HasLast
<1>3. Kept(log) = {} /\ Indexed = {} /\ \A r \in log : FALSE
  BY DEF Init, Kept, Indexed
<1>4. Agree
  BY <1>3 DEF Agree, Dense, RowsReach, RowsSingle, Cuttable, Bounded, RowsTopped,
              RowsRise, HoldsHeight, Init
<1> QED BY <1>1, <1>2, <1>4 DEF IInv

LEMMA BootKeeps == ASSUME IInv, Boot PROVE IInv'
<1>1. boots' \in 0..MaxBoots
  BY ConfigAssumption DEF IInv, TypeOK, Boot
<1>2. boot' \in [start : Int \cup {Undefined},
                 checkpoint : deployment.checkpoints \cup {Undefined}]
  BY DEF Boot, StartHeight
<1>3. TypeOK'
  BY <1>1, <1>2 DEF IInv, TypeOK, Boot
<1> QED BY <1>3, Untouched DEF IInv, Boot

(* The steps that only move the handler.                                   *)
LEMMA HandlerMoves ==
  ASSUME IInv,
         \/ Align \/ RefuseToAlign \/ RefuseMismatch
         \/ Ask \/ Decline \/ Confirm \/ Crash \/ UNCHANGED vars
  PROVE  IInv'
<1>1. /\ UNCHANGED <<deployment, log, users, boots, reorgs>>
      /\ boot' = boot \/ boot' = NoBoot
      /\ pc' \in {"off", "aligning", "deciding", "asking", "clearing", "running"}
  BY DEF IInv, TypeOK, Align, RefuseToAlign, RefuseMismatch, Ask, Decline,
         Confirm, Crash, Exit, vars
<1>2. TypeOK'
  BY <1>1 DEF IInv, TypeOK, NoBoot
<1> QED BY <1>1, <1>2, Untouched DEF IInv

LEMMA AlignByRollbackKeeps == ASSUME IInv, AlignByRollback PROVE IInv'
<1> DEFINE c == boot.checkpoint
<1>1. c \in Int /\ HasParent /\ c < Height(log) /\ Height(log) \in Int
  BY BootIsTyped DEF IInv, AlignByRollback, Ahead
<1>2. log' = UpTo(log, c) /\ users' = UsersUpTo(c)
  BY DEF AlignByRollback, LogUpTo, UpTo
<1>3. LogOK'
  BY <1>2, CutOfLog DEF IInv, LogOK
<1>4. TypeOK'
  <2>1. users' \in [Heights -> Nat]
    BY <1>2 DEF UsersUpTo, IInv, TypeOK
  <2> QED BY <2>1, <1>2 DEF IInv, TypeOK, AlignByRollback, UpTo
<1>5. Agree'
  <2> SUFFICES ASSUME ~MaySplitBatches
               PROVE  /\ Indexed' = Kept(log')
                      /\ \A h \in Heights : users'[h] <= 1
                      /\ Dense(log') /\ RowsReach(log')
                      /\ Bounded(log')
                      /\ RowsSingle(log') /\ Cuttable(log')
    BY DEF Agree, MaySplitBatches, AlignByRollback
  <2>1. /\ Kept(UpTo(log, c)) = {h \in Kept(log) : h <= c}
        /\ Dense(UpTo(log, c)) /\ RowsSingle(UpTo(log, c)) /\ Cuttable(UpTo(log, c))
    BY <1>1, CutOff DEF IInv, LogOK, Agree
  <2>2. RowsReach(log')
    BY <1>2, <1>3, <2>1 DEF RowsSingle, RowsReach, LogOK, Row
  <2>3. /\ Indexed' = {h \in Indexed : h <= c}
        /\ \A h \in Heights : users'[h] <= 1
    BY <1>1, <1>2 DEF Indexed, UsersUpTo, IInv, Agree
  <2>4. Indexed = Kept(log)
    BY DEF IInv, Agree
  <2>5. Bounded(log')
    BY <1>1, <1>2, CutOffIsHeld DEF IInv, LogOK, Agree
  <2> QED BY <1>2, <2>1, <2>2, <2>3, <2>4, <2>5
<1> QED BY <1>3, <1>4, <1>5 DEF IInv

LEMMA StartKeeps == ASSUME IInv, Start PROVE IInv'
<1>1. PICK tip \in Heights : log' = With(log, "Initialized", StartFrom(tip), {})
  BY DEF Start
<1>2. PICK n \in Row : /\ log' = log \cup {n}
                       /\ n.type = "Initialized" /\ n.height = StartFrom(tip) /\ n.blocks = {}
                       /\ Newer(n, log)
  BY <1>1, WithAppends, BootIsTyped DEF IInv, LogOK
<1>3. LogOK'
  BY <1>2, NewerHasLast DEF IInv, LogOK
<1>4. TypeOK'
  BY <1>3 DEF IInv, LogOK, TypeOK, Start, Row
<1>5. Agree'
  <2> SUFFICES ASSUME ~MaySplitBatches PROVE Agree'
    BY DEF Agree, MaySplitBatches, Start
  <2>1. /\ Dense(log) /\ RowsReach(log) /\ Bounded(log) /\ Indexed = Kept(log)
        /\ HasParent => RowsSingle(log) /\ Cuttable(log)
    BY DEF IInv, Agree
  <2>2. Height(log) >= 0 => n.height = Height(log)
    BY <1>2, BootIsTyped DEF IInv, StartFrom, StartFromEnv
  <2>3. Height(log) < 0 => Kept(log) = {}
    BY <2>1, BootIsTyped DEF IInv, Dense, Kept, Heights
  <2>4. /\ Kept(log') = {h \in Kept(log) : h <= n.height}
        /\ Dense(log') /\ RowsReach(log')
        /\ RowsSingle(log) => RowsSingle(log')
        /\ Cuttable(log) => Cuttable(log')
    BY <1>2, <2>1, <2>2, <2>3, BootIsTyped, MarkOnTop DEF IInv, LogOK
  <2>5. Kept(log') = Kept(log)
    BY <2>1, <2>2, <2>3, <2>4, BootIsTyped DEF IInv, Dense
  <2>6. Bounded(log')
    BY <1>2, <2>1, <2>2, <2>3, BootIsTyped, MarkIsHeld DEF IInv, LogOK
  <2> QED BY <2>1, <2>4, <2>5, <2>6 DEF Agree, Indexed, HasParent, MaySplitBatches, IInv, Start
<1> QED BY <1>3, <1>4, <1>5 DEF IInv

LEMMA ClearKeeps == ASSUME IInv, Clear PROVE IInv'
<1> DEFINE l == UpTo(log, -1)
<1>1. l \in SUBSET Row /\ HasLast(l) /\ log' = With(l, "Cleared", -1, {})
  BY CutOfLog DEF IInv, LogOK, Clear, LogUpTo, UpTo
<1>2. PICK n \in Row : /\ log' = l \cup {n}
                       /\ n.type = "Cleared" /\ n.height = -1 /\ n.blocks = {}
                       /\ Newer(n, l)
  BY <1>1, WithAppends
<1>3. LogOK'
  BY <1>1, <1>2, NewerHasLast DEF LogOK
<1>4. users' \in [Heights -> Nat] /\ \A h \in Heights : users'[h] = 0
  BY DEF Clear, UsersUpTo, Heights
<1>5. TypeOK'
  BY <1>3, <1>4 DEF IInv, LogOK, TypeOK, Clear, Row
<1>6. Agree'
  <2> SUFFICES ASSUME ~MaySplitBatches PROVE Agree'
    BY DEF Agree, MaySplitBatches, Clear
  <2>1. Kept(l) = {} /\ RowsReach(l) /\ RowsSingle(l) /\ Bounded(l)
    BY CutEverything DEF IInv, Agree, LogOK, Bounded
  <2>2. Dense(l) /\ Cuttable(l)
    BY <2>1 DEF Dense, Cuttable
  <2>3. /\ Kept(log') = {}
        /\ Dense(log') /\ RowsReach(log') /\ RowsSingle(log') /\ Cuttable(log')
    BY <1>1, <1>2, <2>1, <2>2, MarkOnTop
  <2>4. Indexed' = {}
    BY <1>4 DEF Indexed
  <2>5. Bounded(log')
    BY <1>1, <1>2, <2>1, MarkIsHeld
  <2> QED BY <1>4, <2>3, <2>4, <2>5 DEF Agree
<1> QED BY <1>3, <1>5, <1>6 DEF IInv

LEMMA AddBatchKeeps == ASSUME IInv, AddBatch PROVE IInv'
<1> DEFINE top == Height(log)
<1>1. PICK k \in 1..deployment.maxBatch :
        /\ (top + 1)..(top + k) \subseteq Heights
        /\ log' = With(log, "BlocksAdded", top + k, (top + 1)..(top + k))
        /\ users' = [h \in Heights |->
                       users[h] + (IF h \in (top + 1)..(top + k) THEN 1 ELSE 0)]
        /\ UNCHANGED <<deployment, pc, boot, boots, reorgs>>
  BY DEF AddBatch
<1>2. top \in Int /\ k \in Nat \ {0} /\ top + k \in Int
  BY ConfigAssumption, BootIsTyped DEF IInv, TypeOK
<1>3. PICK n \in Row : /\ log' = log \cup {n}
                       /\ n.type = "BlocksAdded" /\ n.height = top + k
                       /\ n.blocks = (top + 1)..(top + k)
                       /\ Newer(n, log)
  BY <1>1, <1>2, WithAppends DEF IInv, LogOK
<1>4. LogOK'
  BY <1>3, NewerHasLast DEF IInv, LogOK
<1>5. /\ users' \in [Heights -> Nat]
      /\ \A h \in Heights : users'[h] = users[h] + (IF h \in n.blocks THEN 1 ELSE 0)
  BY <1>1, <1>3 DEF IInv, TypeOK
<1>6. TypeOK'
  BY <1>1, <1>4, <1>5 DEF IInv, LogOK, TypeOK, Row
<1>7. Stacks(n, log) /\ ~Trims(n) /\ n.blocks \subseteq Heights
  BY <1>1, <1>2, <1>3 DEF Stacks, Trims
<1>8. Agree'
  <2> SUFFICES ASSUME ~MaySplitBatches PROVE Agree'
    BY <1>1 DEF Agree, MaySplitBatches
  <2>1. /\ Dense(log) /\ RowsReach(log) /\ Bounded(log) /\ Indexed = Kept(log)
        /\ \A h \in Heights : users[h] <= 1
        /\ HasParent => RowsSingle(log) /\ Cuttable(log)
    BY DEF IInv, Agree
  <2>2. /\ Kept(log') = Kept(log) \cup n.blocks
        /\ Dense(log') /\ RowsReach(log')
    BY <1>3, <1>7, <2>1, BatchOnTop DEF IInv, LogOK
  <2>3. ASSUME HasParent PROVE RowsSingle(log') /\ Cuttable(log')
    <3>1. n.height = top + 1
      BY <1>1, <1>2, <1>3, <2>3, SingleBlocks DEF IInv
    <3> QED BY <1>3, <1>7, <2>1, <2>3, <3>1, BlockCanBeCut DEF IInv, LogOK
  <2>4. \A h \in n.blocks : h \in Heights /\ h \notin Indexed
    <3>1. \A h \in n.blocks : h \in Int /\ h > top
      BY <1>2, <1>7 DEF Stacks
    <3>2. \A h \in Indexed : h \in Int /\ h <= top
      BY <2>1 DEF Dense, Indexed, Heights
    <3> QED BY <3>1, <3>2, <1>2, <1>7
  <2>5. Indexed' = Indexed \cup n.blocks
    BY <1>5, <1>7 DEF Indexed, IInv, TypeOK
  <2>6. \A h \in Heights : users'[h] <= 1
    <3>1. \A h \in Heights : h \notin Indexed => users[h] = 0
      BY DEF Indexed, IInv, TypeOK
    <3> QED BY <1>5, <2>1, <2>4, <3>1 DEF IInv, TypeOK
  <2>7. Bounded(log')
    BY <1>3, <1>7, <2>1, BatchIsHeld DEF IInv, LogOK, Bounded
  <2> QED BY <1>1, <2>1, <2>2, <2>3, <2>5, <2>6, <2>7 DEF Agree, HasParent
<1> QED BY <1>4, <1>6, <1>8 DEF IInv

LEMMA ReorganiseKeeps == ASSUME IInv, Reorganise PROVE IInv'
<1>1. PICK h \in Window(log) : /\ log' = With(log, "Reorganized", h, {})
                               /\ users' = UsersUpTo(h)
  BY DEF Reorganise
<1>2. h \in Int /\ h \in Kept(log)
  BY WindowIsKept DEF Window, Heights
<1>3. PICK n \in Row : /\ log' = log \cup {n}
                       /\ n.type = "Reorganized" /\ n.height = h /\ n.blocks = {}
                       /\ Newer(n, log)
  BY <1>1, <1>2, WithAppends DEF IInv, LogOK
<1>4. LogOK'
  BY <1>3, NewerHasLast DEF IInv, LogOK
<1>5. /\ users' \in [Heights -> Nat]
      /\ \A x \in Heights : users'[x] = IF x <= h THEN users[x] ELSE 0
  BY <1>1 DEF UsersUpTo, IInv, TypeOK
<1>6. reorgs' \in 0..MaxReorgs
  BY ConfigAssumption DEF IInv, TypeOK, Reorganise
<1>7. TypeOK'
  BY <1>4, <1>5, <1>6 DEF IInv, LogOK, TypeOK, Reorganise, Row
<1>8. Agree'
  <2> SUFFICES ASSUME ~MaySplitBatches PROVE Agree'
    BY DEF Agree, MaySplitBatches, Reorganise
  <2>1. /\ Dense(log) /\ RowsReach(log) /\ Bounded(log) /\ Indexed = Kept(log)
        /\ \A x \in Heights : users[x] <= 1
        /\ HasParent => RowsSingle(log) /\ Cuttable(log)
    BY DEF IInv, Agree
  <2>2. /\ Kept(log') = {x \in Kept(log) : x <= h}
        /\ Dense(log') /\ RowsReach(log')
        /\ RowsSingle(log) => RowsSingle(log')
        /\ Cuttable(log) => Cuttable(log')
    BY <1>2, <1>3, <2>1, MarkOnTop DEF IInv, LogOK, Trims
  <2>3. Indexed' = {x \in Indexed : x <= h}
    BY <1>5 DEF Indexed
  <2>4. \A x \in Heights : users'[x] <= 1
    BY <1>5, <2>1
  <2>5. Bounded(log')
    BY <1>3, <2>1, MarkIsHeld DEF IInv, LogOK
  <2> QED BY <2>1, <2>2, <2>3, <2>4, <2>5 DEF Agree, HasParent, Reorganise
<1> QED BY <1>4, <1>7, <1>8 DEF IInv

LEMMA StepsKeep == IInv /\ [Next]_vars => IInv'
<1> SUFFICES ASSUME IInv, [Next]_vars PROVE IInv'
  OBVIOUS
<1>1. CASE Boot
  BY <1>1, BootKeeps
<1>2. CASE AlignByRollback
  BY <1>2, AlignByRollbackKeeps
<1>3. CASE Start
  BY <1>3, StartKeeps
<1>4. CASE Clear
  BY <1>4, ClearKeeps
<1>5. CASE AddBatch
  BY <1>5, AddBatchKeeps
<1>6. CASE Reorganise
  BY <1>6, ReorganiseKeeps
<1>7. CASE \/ Align \/ RefuseToAlign \/ RefuseMismatch
           \/ Ask \/ Decline \/ Confirm \/ Crash \/ UNCHANGED vars
  BY <1>7, HandlerMoves
<1> QED BY <1>1, <1>2, <1>3, <1>4, <1>5, <1>6, <1>7 DEF Next, Handler

LEMMA Invariant == Spec => []IInv
BY InitEstablishes, StepsKeep, PTL DEF Spec

-----------------------------------------------------------------------------
(* Every variable of a started, crashed or reset crawler keeps its kind,   *)
(* however InitNetwork got there.                                          *)
THEOREM TypeCorrect == Spec => []TypeOK
<1>1. IInv => TypeOK
  BY DEF IInv
<1> QED BY <1>1, Invariant, PTL

(* However often the crawler is restarted, reconfigured, reset or rolled   *)
(* back to a checkpoint, the user models have the events of every block    *)
(* exactly once and without a gap up to the Network's height.              *)
THEOREM NoGapNoRepeatHolds == Spec => []NoGapNoRepeat
<1>1. IInv => NoGapNoRepeat
  BY DEF IInv, Agree, NoGapNoRepeat, Dense
<1> QED BY <1>1, Invariant, PTL

(* A crawler that was given a checkpoint starts the queue right above it,  *)
(* whatever it has stored and whatever START_BLOCK_HEIGHT says.            *)
THEOREM ResumesAtCheckpointHolds == Spec => ResumesAtCheckpoint
<1>1. ASSUME IInv, Next, pc = "deciding", pc' = "running", HasCheckpoint
      PROVE  Height(log') = boot.checkpoint
  <2>1. Start
    BY <1>1 DEF Next, Handler, Boot, Align, AlignByRollback, RefuseToAlign,
                RefuseMismatch, Ask, Clear, Decline, Confirm, AddBatch, Reorganise,
                Crash, Exit
  <2>2. PICK tip \in Heights : log' = With(log, "Initialized", StartFrom(tip), {})
    BY <2>1 DEF Start
  <2>3. Height(log') = StartFrom(tip)
    <3>1. StartFrom(tip) \in Int
      BY <1>1, BootIsTyped DEF IInv
    <3>2. PICK n \in Row : /\ log' = log \cup {n}
                           /\ n.height = StartFrom(tip) /\ Newer(n, log)
      BY <1>1, <2>2, <3>1, WithAppends DEF IInv, LogOK
    <3> QED BY <1>1, <3>2, HeightOfNewer DEF IInv, LogOK
  <2>4. Height(log) < 0 \/ Height(log) = boot.checkpoint
    BY <1>1, <2>1, BootIsTyped DEF Start, Mismatch, IInv
  <2> QED BY <1>1, <2>3, <2>4, BootIsTyped DEF StartFrom, StartFromEnv, IInv
<1>2. IInv /\ [Next]_vars =>
        [pc = "deciding" /\ pc' = "running" /\ HasCheckpoint
           => Height(log') = boot.checkpoint]_vars
  BY <1>1
<1> QED BY <1>2, Invariant, PTL DEF Spec, ResumesAtCheckpoint

-----------------------------------------------------------------------------
(* Where a rollback ends, and what a boot has found out so far.            *)

OneVersion(l) == \A r, x \in l : r.version = x.version => r = x

(* A rollback to a height that was reached ends there, or at nothing.      *)
CutsAt(l) ==
  \A c \in Int : -1 <= c /\ c <= Height(l)
                  => Height(UpTo(l, c)) < 0 \/ Height(UpTo(l, c)) = c

BootInv ==
  /\ RowsReach(log) /\ OneVersion(log)
  /\ pc \in {"asking", "clearing"} => NeedsReset
  /\ ~MaySplitBatches /\ HasParent => CutsAt(log)
  /\ ~MaySplitBatches => AlignedToCheckpoint

LEMMA OneVersionOfNewer ==
  ASSUME NEW l \in SUBSET Row, NEW n \in Row, Newer(n, l), OneVersion(l)
  PROVE  OneVersion(l \cup {n})
BY DEF OneVersion, Newer, Row

(* A rollback to the height of the log, or above, leaves the last row.     *)
LEMMA CutAbove ==
  ASSUME NEW l \in SUBSET Row, HasLast(l), OneVersion(l),
         NEW c \in Int, Height(l) <= c
  PROVE  Height(UpTo(l, c)) = Height(l)
<1>1. CASE l = {}
  BY <1>1 DEF UpTo, Height
<1>2. CASE l # {}
  <2> DEFINE r == LastRow(l)
             s == UpTo(l, c)
  <2>1. IsLast(r, l) /\ Height(l) = r.height
    BY <1>2, LastRowIsLast DEF Height
  <2>2. r \in s
    BY <2>1 DEF UpTo, IsLast
  <2>3. IsLast(LastRow(s), s)
    <3>1. HasLast(s)
      BY CutOfLog
    <3> QED BY <2>2, <3>1, LastRowIsLast
  <2>4. LastRow(s) \in l /\ LastRow(s).version = r.version
    <3>1. LastRow(s) \in l
      BY <2>3 DEF UpTo, IsLast
    <3>2. LastRow(s).version <= r.version /\ r.version <= LastRow(s).version
      BY <2>1, <2>2, <2>3, <3>1 DEF IsLast
    <3> QED BY <2>1, <3>1, <3>2 DEF Row, IsLast
  <2>5. LastRow(s) = r
    BY <2>1, <2>4 DEF OneVersion, IsLast
  <2> QED BY <2>1, <2>2, <2>5 DEF Height
<1> QED BY <1>1, <1>2

(* The height after a rollback is no greater than where it went to.        *)
LEMMA CutIsLow ==
  ASSUME NEW l \in SUBSET Row, HasLast(l), NEW c \in Int, c >= -1
  PROVE  Height(UpTo(l, c)) \in Int /\ Height(UpTo(l, c)) <= c
<1> DEFINE s == UpTo(l, c)
<1>1. s \in SUBSET Row /\ HasLast(s)
  BY CutOfLog
<1>2. Height(s) \in Int
  BY <1>1, HeightIsInt
<1>3. CASE s = {}
  BY <1>3 DEF Height
<1>4. CASE s # {}
  <2>1. LastRow(s) \in s
    BY <1>1, <1>4, LastRowIsLast DEF IsLast
  <2>2. LastRow(s).height <= c
    BY <2>1 DEF UpTo
  <2> QED BY <1>2, <1>4, <2>2 DEF Height
<1> QED BY <1>2, <1>3, <1>4

(* An event at the height of the log, below it, or right above it; or at   *)
(* any height while none is reached.                                       *)
LEMMA NewerCutsAt ==
  ASSUME NEW l \in SUBSET Row, HasLast(l), OneVersion(l), CutsAt(l),
         NEW n \in Row, Newer(n, l), Height(l) < 0 \/ n.height <= Height(l) + 1
  PROVE  CutsAt(l \cup {n})
<1>1. Height(l) \in Int /\ n.height \in Int
  BY HeightIsInt DEF Row
<1> SUFFICES ASSUME NEW c \in Int, -1 <= c, c <= n.height
             PROVE  \/ Height(UpTo(l \cup {n}, c)) < 0
                    \/ Height(UpTo(l \cup {n}, c)) = c
  BY HeightOfNewer DEF CutsAt
<1>2. CASE c = n.height
  <2>1. \A d \in Int : n.height <= d => Height(UpTo(l \cup {n}, d)) = n.height
    BY HeightOfNewer
  <2> QED BY <1>1, <1>2, <2>1
<1>3. CASE c < n.height
  <2>1. UpTo(l \cup {n}, c) = UpTo(l, c)
    BY <1>1, <1>3, HeightOfNewer
  <2>2. CASE c <= Height(l)
    BY <2>1, <2>2 DEF CutsAt
  <2>3. CASE c > Height(l)
    <3>1. Height(l) < 0
      BY <1>1, <1>3, <2>3
    <3>2. Height(UpTo(l, c)) = Height(l)
      BY <1>1, <2>3, CutAbove
    <3> QED BY <2>1, <3>1, <3>2
  <2> QED BY <1>1, <2>2, <2>3
<1> QED BY <1>1, <1>2, <1>3

LEMMA CutCutsAt ==
  ASSUME NEW l \in SUBSET Row, HasLast(l), CutsAt(l), NEW k \in Int, -1 <= k, k < Height(l)
  PROVE  CutsAt(UpTo(l, k))
<1>1. Height(l) \in Int /\ Height(UpTo(l, k)) \in Int /\ Height(UpTo(l, k)) <= k
  BY HeightIsInt, CutIsLow
<1> SUFFICES ASSUME NEW c \in Int, -1 <= c, c <= Height(UpTo(l, k))
             PROVE  \/ Height(UpTo(UpTo(l, k), c)) < 0
                    \/ Height(UpTo(UpTo(l, k), c)) = c
  BY DEF CutsAt
<1>2. c <= k /\ c <= Height(l)
  BY <1>1
<1>3. UpTo(UpTo(l, k), c) = UpTo(l, c)
  BY <1>2 DEF UpTo, Row
<1> QED BY <1>2, <1>3 DEF CutsAt

-----------------------------------------------------------------------------
LEMMA InitBoot == Init => BootInv
BY DEF Init, BootInv, RowsReach, OneVersion, CutsAt, Height, UpTo, AlignedToCheckpoint

(* The steps that leave the log alone.                                     *)
LEMMA HandlerMovesBoot ==
  ASSUME IInv, BootInv,
         \/ Boot \/ Align \/ RefuseToAlign \/ RefuseMismatch
         \/ Ask \/ Decline \/ Confirm \/ Crash \/ UNCHANGED vars
  PROVE  BootInv'
<1>1. deployment' = deployment /\ log' = log
  BY DEF Boot, Align, RefuseToAlign, RefuseMismatch, Ask, Decline, Confirm, Crash, Exit, vars
<1>2. ASSUME pc' \in {"asking", "clearing"} PROVE NeedsReset'
  <2>1. boot' = boot /\ (pc \in {"asking", "clearing"} \/ NeedsReset)
    BY <1>2 DEF Boot, Align, RefuseToAlign, RefuseMismatch, Ask, Decline, Confirm,
                Crash, Exit, vars
  <2> QED BY <1>1, <2>1 DEF BootInv, NeedsReset, HasCheckpoint
<1>3. ASSUME pc' = "deciding", ~MaySplitBatches, HasCheckpoint'
      PROVE  Height(log) < 0 \/ Height(log) = boot'.checkpoint
  <2>1. boot' = boot /\ (pc = "deciding" \/ Aligned)
    BY <1>3 DEF Boot, Align, RefuseToAlign, RefuseMismatch, Ask, Decline, Confirm,
                Crash, Exit, vars
  <2> QED BY <1>3, <2>1 DEF BootInv, AlignedToCheckpoint, Aligned, HasCheckpoint
<1> QED BY <1>1, <1>2, <1>3 DEF BootInv, AlignedToCheckpoint, MaySplitBatches, HasParent

LEMMA AlignByRollbackBoot == ASSUME IInv, BootInv, AlignByRollback PROVE BootInv'
<1> DEFINE c == boot.checkpoint
<1>1. c \in Int /\ HasParent /\ -1 <= c /\ c < Height(log) /\ Height(log) \in Int
  BY BootIsTyped DEF IInv, AlignByRollback, Ahead
<1>2. log' = UpTo(log, c) /\ boot' = boot /\ pc' = "deciding" /\ deployment' = deployment
  BY DEF AlignByRollback, LogUpTo, UpTo
<1>3. RowsReach(log') /\ OneVersion(log')
  BY <1>2 DEF BootInv, RowsReach, OneVersion, UpTo
<1>4. ASSUME ~MaySplitBatches
      PROVE  CutsAt(log') /\ (Height(log') < 0 \/ Height(log') = c)
  <2>1. CutsAt(log)
    BY <1>1, <1>4 DEF BootInv
  <2>2. CutsAt(UpTo(log, c))
    BY <1>1, <2>1, CutCutsAt DEF IInv, LogOK
  <2> QED BY <1>1, <1>2, <2>1, <2>2 DEF CutsAt
<1> QED BY <1>2, <1>3, <1>4 DEF BootInv, AlignedToCheckpoint, MaySplitBatches, HasParent

(* The steps that store an event and end where nobody is asked or aligned. *)
LEMMA EventBoot ==
  ASSUME IInv, BootInv, deployment' = deployment, pc' \in {"running", "aligning"},
         NEW n \in Row, Newer(n, log), log' = log \cup {n},
         \A b \in n.blocks : b <= n.height,
         ~MaySplitBatches /\ HasParent => Height(log) < 0 \/ n.height <= Height(log) + 1
  PROVE  BootInv'
<1>1. RowsReach(log')
  BY DEF BootInv, RowsReach
<1>2. OneVersion(log')
  BY OneVersionOfNewer DEF BootInv, IInv, LogOK
<1>3. ~MaySplitBatches /\ HasParent => CutsAt(log')
  BY NewerCutsAt DEF BootInv, IInv, LogOK
<1> QED BY <1>1, <1>2, <1>3 DEF BootInv, AlignedToCheckpoint, MaySplitBatches, HasParent

LEMMA StartBoot == ASSUME IInv, BootInv, Start PROVE BootInv'
<1>1. PICK tip \in Heights : log' = With(log, "Initialized", StartFrom(tip), {})
  BY DEF Start
<1>2. PICK n \in Row : /\ log' = log \cup {n} /\ Newer(n, log)
                       /\ n.height = StartFrom(tip) /\ n.blocks = {}
  BY <1>1, WithAppends, BootIsTyped DEF IInv, LogOK
<1>3. Height(log) < 0 \/ n.height <= Height(log) + 1
  BY <1>2, BootIsTyped DEF IInv, StartFrom, StartFromEnv
<1>4. deployment' = deployment /\ pc' = "running"
  BY DEF Start
<1> QED BY <1>2, <1>3, <1>4, EventBoot

LEMMA AddBatchBoot == ASSUME IInv, BootInv, AddBatch PROVE BootInv'
<1> DEFINE top == Height(log)
<1>1. PICK k \in 1..deployment.maxBatch :
        /\ pc = "running"
        /\ (top + 1)..(top + k) \subseteq Heights
        /\ log' = With(log, "BlocksAdded", top + k, (top + 1)..(top + k))
        /\ UNCHANGED <<deployment, pc>>
  BY DEF AddBatch
<1>2. top \in Int /\ k \in Nat \ {0} /\ top + k \in Int
  BY ConfigAssumption, BootIsTyped DEF IInv, TypeOK
<1>3. PICK n \in Row : /\ log' = log \cup {n} /\ Newer(n, log)
                       /\ n.height = top + k /\ n.blocks = (top + 1)..(top + k)
  BY <1>1, <1>2, WithAppends DEF IInv, LogOK
<1>4. ~MaySplitBatches /\ HasParent => n.height <= top + 1
  BY <1>1, <1>2, <1>3, SingleBlocks DEF IInv
<1>5. \A b \in n.blocks : b <= n.height
  BY <1>2, <1>3
<1> QED BY <1>1, <1>3, <1>4, <1>5, EventBoot

LEMMA ReorganiseBoot == ASSUME IInv, BootInv, Reorganise PROVE BootInv'
<1>1. PICK h \in Window(log) : log' = With(log, "Reorganized", h, {})
  BY DEF Reorganise
<1>2. h \in Int /\ Height(log) \in Int /\ h \in Kept(log)
  BY BootIsTyped, WindowIsKept DEF Window, Heights, IInv
<1>3. PICK n \in Row : /\ log' = log \cup {n} /\ Newer(n, log)
                       /\ n.height = h /\ n.blocks = {}
  BY <1>1, <1>2, WithAppends DEF IInv, LogOK
<1>4. ~MaySplitBatches => n.height <= Height(log) + 1
  BY <1>2, <1>3 DEF IInv, Agree, Dense
<1>5. deployment' = deployment /\ pc' = "running"
  BY DEF Reorganise
<1> QED BY <1>3, <1>4, <1>5, EventBoot

(* What a reset stores, once everything is deleted.                        *)
LEMMA ClearStores ==
  ASSUME IInv, Clear
  PROVE  \E n \in Row : /\ log' = UpTo(log, -1) \cup {n} /\ Newer(n, UpTo(log, -1))
                        /\ n.height = -1 /\ n.blocks = {}
<1>1. UpTo(log, -1) \in SUBSET Row /\ HasLast(UpTo(log, -1))
  BY CutOfLog DEF IInv, LogOK
<1>2. log' = With(UpTo(log, -1), "Cleared", -1, {})
  BY DEF Clear, LogUpTo, UpTo
<1> QED BY <1>1, <1>2, WithAppends

LEMMA ClearBoot == ASSUME IInv, BootInv, Clear PROVE BootInv'
<1> DEFINE l == UpTo(log, -1)
<1>1. PICK n \in Row : log' = l \cup {n} /\ Newer(n, l) /\ n.height = -1 /\ n.blocks = {}
  BY ClearStores
<1>2. l \in SUBSET Row
  BY CutOfLog DEF IInv, LogOK
<1>3. RowsReach(log')
  BY <1>1 DEF BootInv, RowsReach, UpTo
<1>4. OneVersion(log')
  <2>1. OneVersion(l)
    BY DEF BootInv, OneVersion, UpTo
  <2> QED BY <1>1, <1>2, <2>1, OneVersionOfNewer
<1>5. CutsAt(log')
  <2>1. Height(log') = -1 /\ Height(UpTo(log', -1)) = -1
    BY <1>1, <1>2, HeightOfNewer
  <2> QED BY <2>1 DEF CutsAt
<1>6. pc' = "aligning"
  BY DEF Clear
<1> QED BY <1>3, <1>4, <1>5, <1>6 DEF BootInv, AlignedToCheckpoint

LEMMA BootInvariant == Spec => []BootInv
<1>1. ASSUME IInv, BootInv, [Next]_vars PROVE BootInv'
  <2>1. CASE AlignByRollback
    BY <1>1, <2>1, AlignByRollbackBoot
  <2>2. CASE Start
    BY <1>1, <2>2, StartBoot
  <2>3. CASE Clear
    BY <1>1, <2>3, ClearBoot
  <2>4. CASE AddBatch
    BY <1>1, <2>4, AddBatchBoot
  <2>5. CASE Reorganise
    BY <1>1, <2>5, ReorganiseBoot
  <2>6. CASE \/ Boot \/ Align \/ RefuseToAlign \/ RefuseMismatch
             \/ Ask \/ Decline \/ Confirm \/ Crash \/ UNCHANGED vars
    BY <1>1, <2>6, HandlerMovesBoot
  <2> QED BY <1>1, <2>1, <2>2, <2>3, <2>4, <2>5, <2>6 DEF Next, Handler
<1> QED BY <1>1, InitBoot, Invariant, PTL DEF Spec

(* alignToExternalCheckpoint: a store ahead of the checkpoint is rolled    *)
(* back to the checkpoint itself, or to nothing, in every store that the   *)
(* program leaves behind, as long as no checkpoint falls inside a batch.   *)
THEOREM AlignedUnlessSplitHolds == Spec => []AlignedUnlessSplit
<1>1. BootInv => AlignedUnlessSplit
  BY DEF BootInv, AlignedUnlessSplit
<1> QED BY <1>1, BootInvariant, PTL

(* DATA_RESET_REQUIRED: when InitNetwork is run again by the Cleared       *)
(* event, it neither asks nor refuses again, and restores no block.        *)
THEOREM ResetSettlesHolds == Spec => ResetSettles
<1>1. ASSUME IInv, BootInv, Next, pc = "clearing", pc' = "aligning"
      PROVE  /\ Indexed' = {} /\ Window(log') = {}
             /\ (Aligned /\ ~Mismatch /\ ~NeedsReset)'
  <2>1. Clear
    BY <1>1 DEF Next, Handler, Boot, Align, AlignByRollback, RefuseToAlign,
                RefuseMismatch, Start, Ask, Decline, Confirm, AddBatch, Reorganise,
                Crash, Exit
  <2>2. ~HasCheckpoint'
    BY <1>1, <2>1 DEF BootInv, NeedsReset, HasCheckpoint, Clear
  <2>3. PICK n \in Row : /\ log' = UpTo(log, -1) \cup {n} /\ Newer(n, UpTo(log, -1))
                         /\ n.height = -1 /\ n.blocks = {}
    BY <1>1, <2>1, ClearStores
  <2>4. UpTo(log, -1) \in SUBSET Row /\ Kept(UpTo(log, -1)) = {}
    BY <1>1, CutOfLog, CutEverything DEF IInv, LogOK, BootInv
  <2>5. Window(log') = {} /\ Height(log') = -1
    BY <2>3, <2>4, KeptOfNewer, WindowIsKept, HeightOfNewer
  <2>6. Indexed' = {}
    BY <2>1 DEF Clear, UsersUpTo, Indexed, Heights
  <2> QED BY <2>2, <2>5, <2>6 DEF Aligned, Mismatch, NeedsReset, HasCheckpoint
<1>2. IInv /\ BootInv /\ [Next]_vars =>
        [pc = "clearing" /\ pc' = "aligning"
           => Indexed' = {} /\ Window(log') = {} /\ (Aligned /\ ~Mismatch /\ ~NeedsReset)']_vars
  BY <1>1
<1> QED BY <1>2, Invariant, BootInvariant, PTL DEF Spec, ResetSettles

-----------------------------------------------------------------------------
(* What user models have events of, as a range.                            *)

(* What a log without gaps keeps up to a height, it keeps up to a block of *)
(* it, or it keeps nothing.                                                *)
LEMMA CutToBlock ==
  ASSUME IInv, ~MaySplitBatches, NEW c \in Int, c <= Height(log)
  PROVE  \E h \in Indexed \cup {-1} :
           {x \in Indexed : x <= c} = {x \in Indexed : x <= h}
<1>1. Indexed = Kept(log) /\ Indexed \in SUBSET Int /\ \A x \in Indexed : ~(x <= -1)
  BY DEF IInv, Agree, Indexed, Heights
<1>2. CASE \E x \in Indexed : x <= c
  <2>1. PICK x \in Indexed : x <= c
    BY <1>2
  <2>2. Height(log) \in Int
    BY BootIsTyped DEF IInv
  <2>3. c \in x..Height(log)
    BY <1>1, <2>1, <2>2
  <2>4. c \in Indexed
    BY <1>1, <2>1, <2>3 DEF IInv, Agree, Dense
  <2> QED BY <2>4
<1>3. CASE ~\E x \in Indexed : x <= c
  <2>1. {x \in Indexed : x <= c} = {x \in Indexed : x <= -1}
    BY <1>1, <1>3
  <2> QED BY <2>1
<1> QED BY <1>2, <1>3

LEMMA BatchExtends ==
  ASSUME IInv, ~MaySplitBatches, AddBatch
  PROVE  \E lo, hi \in Heights : /\ lo <= hi
                                 /\ \A h \in Indexed : h < lo
                                 /\ Indexed # {} => lo - 1 \in Indexed
                                 /\ Indexed' = Indexed \cup lo..hi
<1> DEFINE top == Height(log)
<1>1. PICK k \in 1..deployment.maxBatch :
        /\ (top + 1)..(top + k) \subseteq Heights
        /\ users' = [h \in Heights |->
                       users[h] + (IF h \in (top + 1)..(top + k) THEN 1 ELSE 0)]
  BY DEF AddBatch
<1>2. top \in Int /\ k \in Nat \ {0}
  BY ConfigAssumption, BootIsTyped DEF IInv, TypeOK
<1>3. top + 1 \in Heights /\ top + k \in Heights /\ top + 1 <= top + k
  <2>1. top + 1 \in (top + 1)..(top + k) /\ top + k \in (top + 1)..(top + k)
    BY <1>2
  <2> QED BY <1>1, <1>2, <2>1
<1>4. /\ Indexed = Kept(log) /\ Indexed \in SUBSET Int
      /\ \A h \in Indexed : h <= top /\ \A x \in h..top : x \in Indexed
  BY DEF IInv, Agree, Dense, Indexed, Heights
<1>5. \A h \in Indexed : h < top + 1
  BY <1>2, <1>4
<1>6. ASSUME Indexed # {} PROVE (top + 1) - 1 \in Indexed
  <2>1. PICK h \in Indexed : h <= top /\ \A x \in h..top : x \in Indexed
    BY <1>4, <1>6
  <2>2. top \in h..top
    BY <1>2, <1>4, <2>1
  <2> QED BY <1>2, <2>1, <2>2
<1>7. Indexed' = Indexed \cup (top + 1)..(top + k)
  <2> DEFINE batch == (top + 1)..(top + k)
  <2>1. \A h \in Heights : users[h] \in Nat
    BY DEF IInv, TypeOK
  <2>2. \A h \in Heights : users'[h] = users[h] + (IF h \in batch THEN 1 ELSE 0)
    BY <1>1
  <2>3. batch \subseteq Heights
    BY <1>1
  <2> HIDE DEF batch
  <2>4. \A h \in Heights : users'[h] > 0 <=> users[h] > 0 \/ h \in batch
    BY <2>1, <2>2
  <2>5. Indexed' = Indexed \cup batch
    BY <2>3, <2>4 DEF Indexed
  <2> QED BY <2>5 DEF batch
<1> QED BY <1>3, <1>5, <1>6, <1>7

(* AlignByRollback, Reorganise and Clear delete the events above a height. *)
LEMMA RollbackCuts ==
  ASSUME IInv, ~MaySplitBatches, AlignByRollback \/ Reorganise \/ Clear
  PROVE  \E h \in Indexed \cup {-1} : Indexed' = {x \in Indexed : x <= h}
<1>1. \A c : users' = UsersUpTo(c) => Indexed' = {x \in Indexed : x <= c}
  BY DEF Indexed, UsersUpTo
<1>2. CASE AlignByRollback
  <2>1. boot.checkpoint \in Int /\ boot.checkpoint <= Height(log)
    BY <1>2, BootIsTyped DEF IInv, AlignByRollback, Ahead
  <2>2. Indexed' = {x \in Indexed : x <= boot.checkpoint}
    BY <1>1, <1>2 DEF AlignByRollback
  <2> QED BY <2>1, <2>2, CutToBlock
<1>3. CASE Reorganise
  <2>1. PICK h \in Window(log) : users' = UsersUpTo(h)
    BY <1>3 DEF Reorganise
  <2>2. h \in Indexed
    BY <2>1, WindowIsKept DEF IInv, Agree
  <2> QED BY <1>1, <2>1, <2>2
<1>4. CASE Clear
  BY <1>1, <1>4 DEF Clear
<1> QED BY <1>2, <1>3, <1>4

LEMMA RangeSteps ==
  ASSUME IInv, [Next]_vars
  PROVE  [Extent!Next]_(IF MaySplitBatches THEN {} ELSE Indexed)
<1>1. deployment' = deployment
  BY DEF Next, Handler, Boot, Align, AlignByRollback, RefuseToAlign, RefuseMismatch,
         Start, Ask, Clear, Decline, Confirm, AddBatch, Reorganise, Crash, Exit, vars
<1>2. MaySplitBatches' = MaySplitBatches
  BY <1>1 DEF MaySplitBatches
<1>3. CASE MaySplitBatches
  BY <1>2, <1>3
<1>4. CASE ~MaySplitBatches
  <2>1. CASE AddBatch
    <3>1. Extent!Extend
      BY <1>2, <1>4, <2>1, BatchExtends DEF Extent!Extend
    <3> QED BY <3>1 DEF Extent!Next
  <2>2. CASE AlignByRollback \/ Reorganise \/ Clear
    <3>1. Extent!Cut
      BY <1>2, <1>4, <2>2, RollbackCuts DEF Extent!Cut
    <3> QED BY <3>1 DEF Extent!Next
  <2>3. CASE \/ Boot \/ Align \/ RefuseToAlign \/ RefuseMismatch \/ Start
             \/ Ask \/ Decline \/ Confirm \/ Crash \/ UNCHANGED vars
    <3>1. users' = users
      BY <2>3 DEF Boot, Align, RefuseToAlign, RefuseMismatch, Start, Ask, Decline,
                  Confirm, Crash, Exit, vars
    <3>2. Indexed' = Indexed
      BY <3>1 DEF Indexed
    <3> QED BY <1>2, <3>2
  <2> QED BY <2>1, <2>2, <2>3 DEF Next, Handler
<1> QED BY <1>3, <1>4

(* Over all its boots, what a crawler has handed to the user models is a   *)
(* range that grows and shrinks at its upper end: InitNetwork never takes  *)
(* a block from its middle and never starts beyond its end.                *)
THEOREM ImplementsIndexedRangeHolds == Spec => ImplementsIndexedRange
<1>1. Init => Extent!Init
  BY DEF Init, Indexed, Extent!Init
<1> QED BY <1>1, RangeSteps, Invariant, PTL DEF Spec, ImplementsIndexedRange, Extent!Spec

-----------------------------------------------------------------------------
(* Queries to a running crawler.                                           *)

(* The integers from lo up to hi, as a sequence.                           *)
Span(lo, hi) == [i \in 1..(hi - lo + 1) |-> lo + i - 1]

LEMMA SpanType ==
  ASSUME NEW lo \in Int, NEW hi \in Int, lo <= hi + 1
  PROVE  /\ Span(lo, hi) \in Seq(lo..hi) /\ Span(lo, hi) \in Seq(Int)
         /\ Len(Span(lo, hi)) = hi - lo + 1 /\ hi - lo + 1 \in Nat
         /\ \A i \in 1..(hi - lo + 1) : Span(lo, hi)[i] = lo + i - 1
         /\ ToSet(Span(lo, hi)) = lo..hi
<1> DEFINE n == hi - lo + 1
<1>1. n \in Nat /\ \A i \in 1..n : lo + i - 1 \in lo..hi /\ lo + i - 1 \in Int
  OBVIOUS
<1>2. Span(lo, hi) \in Seq(lo..hi) /\ Span(lo, hi) \in Seq(Int) /\ Len(Span(lo, hi)) = n
  BY <1>1 DEF Span
<1>3. \A i \in 1..n : Span(lo, hi)[i] = lo + i - 1
  BY DEF Span
<1>4. ToSet(Span(lo, hi)) = lo..hi
  <2>1. DOMAIN Span(lo, hi) = 1..n
    BY DEF Span
  <2>2. \A h \in lo..hi : h - lo + 1 \in 1..n /\ lo + (h - lo + 1) - 1 = h
    OBVIOUS
  <2>3. ToSet(Span(lo, hi)) = {Span(lo, hi)[i] : i \in 1..n}
    BY <2>1 DEF ToSet
  <2> HIDE DEF n
  <2>4. \A i \in 1..n : Span(lo, hi)[i] \in lo..hi
    BY <1>1, <1>3
  <2>5. \A h \in lo..hi : \E i \in 1..n : Span(lo, hi)[i] = h
    <3>1. n = hi - lo + 1
      BY DEF n
    <3> QED BY <1>3, <2>2, <3>1
  <2> QED BY <2>3, <2>4, <2>5
<1> QED BY <1>1, <1>2, <1>3, <1>4

LEMMA SpanAppend ==
  ASSUME NEW lo \in Int, NEW hi \in Int, lo <= hi + 1
  PROVE  Span(lo, hi + 1) = Append(Span(lo, hi), hi + 1)
<1> DEFINE n == hi - lo + 1
           t == Append(Span(lo, hi), hi + 1)
<1>1. n \in Nat /\ (hi + 1) - lo + 1 = n + 1
  OBVIOUS
<1>2. /\ t \in Seq(Int) /\ Len(t) = n + 1
      /\ \A i \in 1..n : t[i] = lo + i - 1
      /\ t[n + 1] = hi + 1
  <2> DEFINE s == Span(lo, hi)
  <2>1. s \in Seq(Int) /\ Len(s) = n /\ \A i \in 1..n : s[i] = lo + i - 1
    BY SpanType
  <2>2. hi + 1 \in Int
    OBVIOUS
  <2> HIDE DEF s, n
  <2>3. /\ Append(s, hi + 1) \in Seq(Int) /\ Len(Append(s, hi + 1)) = Len(s) + 1
        /\ \A i \in 1..Len(s) : Append(s, hi + 1)[i] = s[i]
        /\ Append(s, hi + 1)[Len(s) + 1] = hi + 1
    BY <2>1, <2>2, AppendProperties
  <2> QED BY <2>1, <2>3 DEF s
<1>3. t = [i \in 1..(n + 1) |-> t[i]]
  <2> HIDE DEF t, n
  <2> QED BY <1>2, LenProperties
<1>4. ASSUME NEW i \in 1..(n + 1) PROVE t[i] = lo + i - 1
  <2>1. i \in 1..n \/ i = n + 1
    BY <1>1
  <2>2. lo + (n + 1) - 1 = hi + 1
    OBVIOUS
  <2> HIDE DEF t, n
  <2> QED BY <1>2, <2>1, <2>2
<1>5. t = [i \in 1..(n + 1) |-> lo + i - 1]
  <2> HIDE DEF t, n
  <2> QED BY <1>3, <1>4
<1> QED BY <1>1, <1>5 DEF Span

(* The order of the blocks of a range is that of their heights.            *)
LEMMA UpwardsIsSpan ==
  ASSUME NEW lo \in Int, NEW hi \in Int, lo <= hi + 1
  PROVE  Upwards(lo..hi) = Span(lo, hi)
<1>1. Cardinality(lo..hi) = hi - lo + 1
  BY FS_Interval
<1>2. ASSUME NEW h \in lo..hi PROVE Cardinality({x \in lo..hi : x < h}) = h - lo
  <2>1. {x \in lo..hi : x < h} = lo..(h - 1)
    OBVIOUS
  <2>2. h - 1 \in Int
    OBVIOUS
  <2>3. Cardinality(lo..(h - 1)) = IF lo > h - 1 THEN 0 ELSE (h - 1) - lo + 1
    BY <2>2, FS_Interval
  <2>4. Cardinality(lo..(h - 1)) = h - lo
    BY <2>3
  <2> QED BY <2>1, <2>4, Zenon
<1>3. ASSUME NEW i \in 1..(hi - lo + 1)
      PROVE  (CHOOSE h \in lo..hi : Cardinality({x \in lo..hi : x < h}) = i - 1) = lo + i - 1
  <2>1. lo + i - 1 \in lo..hi /\ \A h \in lo..hi : h - lo = i - 1 <=> h = lo + i - 1
    OBVIOUS
  <2>2. \A h \in lo..hi : Cardinality({x \in lo..hi : x < h}) = i - 1 <=> h = lo + i - 1
    BY <1>2, <2>1
  <2> QED BY <2>1, <2>2
<1> QED BY <1>1, <1>3 DEF Upwards, Span

(* A filter keeps as many elements of a range as there are in both.        *)
LEMMA FilteredSpan ==
  ASSUME NEW lo \in Int, NEW hi \in Int, lo <= hi + 1, NEW range
  PROVE  /\ ToSet(K!Keep(range, Span(lo, hi))) = (lo..hi) \cap range
         /\ Len(K!Keep(range, Span(lo, hi))) = Cardinality((lo..hi) \cap range)
<1> DEFINE T == {k \in Nat : Len(K!Keep(range, Span(lo, lo + k - 1)))
                                = Cardinality((lo..(lo + k - 1)) \cap range)}
<1>1. 0 \in T
  <2>1. Span(lo, lo + 0 - 1) = <<>> /\ lo..(lo + 0 - 1) = {}
    BY SpanType, EmptySeq
  <2>2. K!Keep(range, <<>>) = <<>> /\ Len(<<>>) = 0
    BY K!KeepNil, EmptySeq
  <2> QED BY <2>1, <2>2, FS_EmptySet
<1>2. ASSUME NEW k \in Nat, k \in T PROVE k + 1 \in T
  <2> DEFINE top == lo + k - 1
             s == Span(lo, top)
             kept == K!Keep(range, s)
             both == (lo..top) \cap range
  <2>1. top \in Int /\ lo <= top + 1 /\ lo + (k + 1) - 1 = top + 1
    OBVIOUS
  <2>2. s \in Seq(Int) /\ Span(lo, top + 1) = Append(s, top + 1)
    <3> HIDE DEF top
    <3> QED BY <2>1, SpanType, SpanAppend
  <2>3. K!Keep(range, Append(s, top + 1)) =
          IF top + 1 \in range THEN Append(kept, top + 1) ELSE kept
    <3>1. \A q \in Seq(Int), e \in Int :
            K!Keep(range, Append(q, e)) =
              IF e \in range THEN Append(K!Keep(range, q), e) ELSE K!Keep(range, q)
      BY K!KeepAppend DEF Within
    <3>2. top + 1 \in Int
      OBVIOUS
    <3> HIDE DEF s, top
    <3> QED BY <2>2, <3>1, <3>2
  <2>4. kept \in Seq(Int)
    <3>1. kept \in Seq({e \in Int : Within(range, e)})
      <4> HIDE DEF s
      <4> QED BY <2>2, K!KeepType
    <3> HIDE DEF kept
    <3> QED BY <3>1, SeqMonotonic
  <2>5. /\ (lo..(top + 1)) \cap range = IF top + 1 \in range THEN both \cup {top + 1} ELSE both
        /\ top + 1 \notin both
    <3>1. lo..(top + 1) = lo..top \cup {top + 1} /\ top + 1 \notin lo..top
      <4> HIDE DEF top
      <4> QED BY <2>1
    <3> HIDE DEF top
    <3> QED BY <3>1
  <2>6. IsFiniteSet(both)
    <3>1. IsFiniteSet(lo..top) /\ both \in SUBSET (lo..top)
      <4> HIDE DEF top
      <4> QED BY <2>1, FS_Interval
    <3> HIDE DEF both, top
    <3> QED BY <3>1, FS_Subset
  <2>7. Len(kept) = Cardinality(both) /\ Cardinality(both \cup {top + 1}) = Cardinality(both) + 1
    <3>1. Len(kept) = Cardinality(both)
      BY <1>2
    <3> HIDE DEF both, top, kept
    <3> QED BY <2>5, <2>6, <3>1, FS_AddElement
  <2>8. Len(Append(kept, top + 1)) = Len(kept) + 1
    <3> HIDE DEF kept, top
    <3> QED BY <2>1, <2>4, AppendProperties
  <2>9. Len(K!Keep(range, Span(lo, top + 1))) = Cardinality((lo..(top + 1)) \cap range)
    <3> HIDE DEF both, top, kept, s
    <3> QED BY <2>2, <2>3, <2>5, <2>7, <2>8
  <2>10. Len(K!Keep(range, Span(lo, lo + (k + 1) - 1)))
           = Cardinality((lo..(lo + (k + 1) - 1)) \cap range)
    <3> HIDE DEF top, kept, s, both
    <3> QED BY <2>1, <2>9
  <2>11. k + 1 \in Nat
    OBVIOUS
  <2> QED BY <2>10, <2>11, Zenon
<1>3. \A k \in Nat : Len(K!Keep(range, Span(lo, lo + k - 1)))
                        = Cardinality((lo..(lo + k - 1)) \cap range)
  <2> HIDE DEF T
  <2>1. Nat \subseteq T
    BY <1>1, <1>2, K!F!SetInduction
  <2> QED BY <2>1 DEF T
<1>4. hi - lo + 1 \in Nat /\ lo + (hi - lo + 1) - 1 = hi
  OBVIOUS
<1>5. Len(K!Keep(range, Span(lo, hi))) = Cardinality((lo..hi) \cap range)
  BY <1>3, <1>4
<1>6. ToSet(K!Keep(range, Span(lo, hi))) = {h \in ToSet(Span(lo, hi)) : Within(range, h)}
  <2>1. Span(lo, hi) \in Seq(Int)
    BY SpanType
  <2>2. K!ToSet(K!Keep(range, Span(lo, hi))) = {h \in K!ToSet(Span(lo, hi)) : Within(range, h)}
    BY <2>1, K!KeepRange
  <2> QED BY <2>2 DEF ToSet, K!ToSet
<1> QED BY <1>5, <1>6, SpanType DEF Within

(* The end of a range is a range.                                          *)
LEMMA SpanTail ==
  ASSUME NEW lo \in Int, NEW hi \in Int, NEW low \in Int, lo <= low, low <= hi + 1
  PROVE  SubSeq(Span(lo, hi), low - lo + 1, hi - lo + 1) = Span(low, hi)
<1> DEFINE s == Span(lo, hi)
           m == low - lo + 1
           n == hi - lo + 1
           t == SubSeq(s, m, n)
<1>1. m \in Int /\ n \in Int /\ 1 <= m /\ m <= n + 1 /\ n - m + 1 = hi - low + 1
  OBVIOUS
<1>2. \A i \in 1..n : s[i] \in Int /\ s[i] = lo + i - 1
  <2>1. lo <= hi + 1
    OBVIOUS
  <2>2. \A i \in 1..n : s[i] = lo + i - 1
    BY <2>1, SpanType
  <2>3. \A i \in 1..n : lo + i - 1 \in Int
    OBVIOUS
  <2> HIDE DEF n, s
  <2> QED BY <2>2, <2>3
<1>3. \A i \in m..n : i \in 1..n
  BY <1>1
<1>4. /\ t \in Seq(Int) /\ Len(t) = IF m <= n THEN n - m + 1 ELSE 0
      /\ \A i \in 1..(n - m + 1) : t[i] = s[m + i - 1]
  <2> HIDE DEF m, n, s
  <2> QED BY <1>1, <1>2, <1>3, SubSeqProperties
<1>5. Len(t) = hi - low + 1 /\ t = [i \in 1..Len(t) |-> t[i]]
  <2>1. Len(t) = n - m + 1
    <3> HIDE DEF m, n, s, t
    <3> QED BY <1>1, <1>4
  <2> HIDE DEF m, n, s, t
  <2> QED BY <1>1, <1>4, <2>1, LenProperties
<1>6. ASSUME NEW i \in 1..(hi - low + 1) PROVE t[i] = low + i - 1
  <2>1. m + i - 1 \in 1..n /\ lo + (m + i - 1) - 1 = low + i - 1 /\ i \in 1..(n - m + 1)
    OBVIOUS
  <2> HIDE DEF m, n, s, t
  <2> QED BY <1>2, <1>4, <2>1
<1> HIDE DEF t
<1>7. t = Span(low, hi)
  BY <1>5, <1>6 DEF Span
<1> QED BY <1>7 DEF t

(* The last n elements of a range.                                         *)
LEMMA LastOfSpan ==
  ASSUME NEW lo \in Int, NEW hi \in Int, lo <= hi + 1, NEW n \in Nat \ {0}
  PROVE  \E low \in Int :
           /\ lo <= low /\ low <= hi + 1
           /\ SubSeq(Span(lo, hi), Max({1, (hi - lo + 1) - n + 1}), hi - lo + 1) = Span(low, hi)
           /\ hi - low + 1 = Min({n, hi - lo + 1})
<1> DEFINE size == hi - lo + 1
<1>1. size \in Nat
  OBVIOUS
<1>2. CASE n <= size
  <2>1. Max({1, size - n + 1}) = size - n + 1
    BY <1>1, <1>2 DEF Max
  <2>2. Min({n, size}) = n
    BY <1>1, <1>2 DEF Min
  <2> DEFINE low == hi - n + 1
  <2>3. low \in Int /\ lo <= low /\ low <= hi + 1
        /\ low - lo + 1 = size - n + 1 /\ hi - low + 1 = n
    BY <1>2
  <2> HIDE DEF low
  <2>4. SubSeq(Span(lo, hi), low - lo + 1, hi - lo + 1) = Span(low, hi)
    BY <2>3, SpanTail
  <2>5. Max({1, size - n + 1}) = low - lo + 1 /\ hi - low + 1 = Min({n, size})
    BY <2>1, <2>2, <2>3
  <2> QED BY <2>3, <2>4, <2>5, Zenon
<1>3. CASE n > size
  <2>1. Max({1, size - n + 1}) = 1
    BY <1>1, <1>3 DEF Max
  <2>2. Min({n, size}) = size
    BY <1>1, <1>3 DEF Min
  <2>3. lo <= lo /\ lo - lo + 1 = 1
    OBVIOUS
  <2>4. SubSeq(Span(lo, hi), lo - lo + 1, hi - lo + 1) = Span(lo, hi)
    BY <2>3, SpanTail
  <2>5. Max({1, size - n + 1}) = lo - lo + 1 /\ hi - lo + 1 = Min({n, size})
    BY <2>1, <2>2, <2>3
  <2> QED BY <2>3, <2>4, <2>5, Zenon
<1>4. n <= size \/ n > size
  BY <1>1
<1> QED BY <1>2, <1>3, <1>4, Zenon

LEMMA LeastNumber ==
  ASSUME NEW S \in SUBSET Nat, S # {}
  PROVE  \E lo \in S : \A x \in S : lo <= x
<1> DEFINE R == OpToRel(<, Nat)
<1>1. \A x, y \in Nat : x < y => <<x, y>> \in R
  BY DEF OpToRel
<1>2. IsWellFoundedOn(R, Nat)
  BY NatLessThanWellFounded
<1> HIDE DEF R
<1>3. PICK lo \in S : \A x \in S : ~(<<x, lo>> \in R)
  BY <1>2, WFMin
<1> SUFFICES ASSUME NEW x \in S PROVE lo <= x
  OBVIOUS
<1>4. x \in Nat /\ lo \in Nat /\ ~(x < lo)
  BY <1>1, <1>3
<1> QED BY <1>4

(* Of the blocks that are kept, the Network holds those from one on.       *)
LEMMA WindowIsUpperPart ==
  ASSUME NEW l \in SUBSET Row, HasLast(l), Dense(l), RowsReach(l), Bounded(l)
  PROVE  /\ \A h \in Window(l), x \in Kept(l) : x > h => x \in Window(l)
         /\ \A h \in Window(l) : h > Height(l) - MaxSize
         /\ (\A r \in l : r.type # "Reorganized")
              => \A x \in Kept(l) : x > Height(l) - MaxSize => x \in Window(l)
<1> DEFINE Stays(h, r) == \A x \in l : x.version > r.version /\ Trims(x) => h <= x.height
           Holds(h, r) == \A x \in l : /\ x.version >= r.version
                                       /\ x.type = "BlocksAdded"
                                       => h > x.height - MaxSize
<1>1. /\ Height(l) \in Int /\ MaxSize \in Int
      /\ \A h \in Kept(l) \cup Window(l) : h \in Int /\ h \in Heights
      /\ \A r \in l : r.height \in Int /\ r.version \in Nat /\ r.blocks \in SUBSET Int
  BY HeightIsInt, ConfigAssumption DEF Row, Kept, Window, Heights
<1>2. ASSUME NEW h \in Kept(l) PROVE \E r \in l : h \in r.blocks /\ Stays(h, r)
  BY DEF Kept, Trims
<1>3. ASSUME NEW h \in Window(l)
      PROVE  \E r \in l : h \in r.blocks /\ Stays(h, r) /\ Holds(h, r)
  BY DEF Window, Trims
<1>4. ASSUME NEW h \in Heights, NEW r \in l, h \in r.blocks, Stays(h, r), Holds(h, r)
      PROVE  h \in Window(l)
  BY <1>4 DEF Window, Trims
(* A block that stays was never below a later one.                         *)
<1>5. ASSUME NEW r \in l, NEW h \in r.blocks, NEW s \in l, NEW x \in s.blocks,
             x >= h, Stays(x, s)
      PROVE  r.version <= s.version
  <2> SUFFICES ASSUME s.version < r.version PROVE FALSE
    BY <1>1
  <2>1. PICK y \in l : Trims(y) /\ s.version < y.version /\ y.height < x
    BY <1>5 DEF Bounded, RowsRise
  <2> QED BY <1>1, <1>5, <2>1
<1>6. ASSUME NEW h \in Window(l), NEW x \in Kept(l), x > h PROVE x \in Window(l)
  <2>1. PICK r \in l : h \in r.blocks /\ Stays(h, r) /\ Holds(h, r)
    BY <1>3
  <2>2. PICK s \in l : x \in s.blocks /\ Stays(x, s)
    BY <1>2
  <2>3. r.version <= s.version
    BY <1>1, <1>5, <1>6, <2>1, <2>2
  <2>4. Holds(x, s)
    BY <1>1, <1>6, <2>1, <2>3
  <2> QED BY <1>1, <1>4, <2>2, <2>4
<1>7. ASSUME NEW h \in Window(l) PROVE h > Height(l) - MaxSize
  <2>1. PICK r \in l : h \in r.blocks /\ Stays(h, r) /\ Holds(h, r)
    BY <1>3
  <2>2. h \in Kept(l) /\ h <= Height(l) /\ Height(l) \in Kept(l)
    <3>1. h \in Kept(l)
      BY WindowIsKept
    <3> QED BY <1>1, <3>1 DEF Dense
  <2>3. PICK s \in l : Height(l) \in s.blocks /\ Stays(Height(l), s)
    BY <1>2, <2>2
  <2>4. r.version <= s.version
    BY <1>1, <1>5, <2>1, <2>2, <2>3
  <2>5. s.type = "BlocksAdded" /\ Height(l) <= s.height
    BY <2>3 DEF Bounded, RowsTopped, RowsReach
  <2> QED BY <1>1, <2>1, <2>4, <2>5
<1>8. ASSUME \A r \in l : r.type # "Reorganized",
             NEW x \in Kept(l), x > Height(l) - MaxSize
      PROVE  x \in Window(l)
  <2>1. PICK r \in l : x \in r.blocks /\ Stays(x, r)
    BY <1>2
  <2>2. ASSUME NEW y \in l, y.version >= r.version, y.type = "BlocksAdded"
        PROVE  y.height <= Height(l)
    <3>1. y.height \in y.blocks /\ y.height \in Heights
      BY <2>2 DEF Bounded, RowsTopped, Row
    <3>2. ASSUME NEW z \in l, z.version > y.version, Trims(z) PROVE FALSE
      <4>1. z.height = -1
        BY <1>8, <3>2 DEF Trims, Bounded, RowsTopped
      <4>2. x <= z.height
        BY <1>1, <2>1, <2>2, <3>2
      <4> QED BY <1>1, <4>1, <4>2 DEF Heights
    <3>3. y.height \in Kept(l)
      BY <3>1, <3>2 DEF Kept, Trims
    <3> QED BY <3>3 DEF Dense
  <2>3. Holds(x, r)
    BY <1>1, <1>8, <2>2
  <2> QED BY <1>1, <1>4, <2>1, <2>3
<1> QED BY <1>6, <1>7, <1>8

(* The window is a range that ends at the Network's height.                *)
LEMMA WindowIsRange ==
  ASSUME NEW l \in SUBSET Row, HasLast(l), Dense(l), RowsReach(l), Bounded(l)
  PROVE  \E lo, hi \in Int :
           /\ lo <= hi + 1 /\ hi - lo + 1 <= MaxSize
           /\ Window(l) = lo..hi
           /\ Kept(l) # {} => lo <= hi /\ hi = Height(l)
<1>1. Window(l) \in SUBSET Nat /\ Height(l) \in Int /\ MaxSize \in Nat
  BY HeightIsInt, ConfigAssumption DEF Window, Heights
<1>2. CASE Window(l) = {}
  <2>1. Kept(l) = {}
    BY <1>2 DEF Bounded, HoldsHeight
  <2>2. 0 \in Int /\ -1 \in Int /\ 0 <= -1 + 1 /\ 0..(-1) = {} /\ -1 - 0 + 1 <= MaxSize
    BY <1>1
  <2> QED BY <1>2, <2>1, <2>2
<1>3. CASE Window(l) # {}
  <2> DEFINE hi == Height(l)
  <2>1. PICK lo \in Window(l) : \A x \in Window(l) : lo <= x
    BY <1>1, <1>3, LeastNumber
  <2>2. lo \in Kept(l) /\ lo \in Int /\ lo <= hi /\ \A x \in lo..hi : x \in Kept(l)
    <3>1. lo \in Kept(l)
      BY WindowIsKept
    <3> QED BY <1>1, <2>1, <3>1 DEF Dense
  <2>3. ASSUME NEW x \in lo..hi PROVE x \in Window(l)
    <3>1. x \in Int /\ (x = lo \/ x > lo) /\ x \in Kept(l)
      BY <1>1, <2>2
    <3> QED BY <2>1, <3>1, WindowIsUpperPart
  <2>4. ASSUME NEW x \in Window(l) PROVE x \in lo..hi
    <3>1. x \in Kept(l) /\ x \in Int
      BY <1>1, WindowIsKept
    <3>2. x <= hi
      BY <3>1 DEF Dense
    <3> QED BY <1>1, <2>1, <2>2, <3>1, <3>2
  <2>5. Window(l) = lo..hi
    BY <2>3, <2>4
  <2>6. hi - lo + 1 <= MaxSize /\ lo <= hi + 1
    <3>1. lo > hi - MaxSize
      BY WindowIsUpperPart
    <3> QED BY <1>1, <2>2, <3>1
  <2> QED BY <1>1, <2>2, <2>5, <2>6
<1> QED BY <1>2, <1>3

LEMMA LastOnesHeld == IInv => WindowHoldsLast
<1> SUFFICES ASSUME IInv, ~MaySplitBatches
             PROVE  /\ Window(log) \subseteq Indexed
                    /\ \A h \in Window(log), x \in Indexed : x > h => x \in Window(log)
                    /\ Cardinality(Window(log)) <= MaxSize
                    /\ Indexed # {} => Height(log) \in Window(log)
                    /\ (\A r \in log : r.type # "Reorganized")
                         => \A x \in Indexed :
                              x > Height(log) - MaxSize => x \in Window(log)
  BY DEF WindowHoldsLast
<1>1. /\ Indexed = Kept(log) /\ Dense(log) /\ RowsReach(log) /\ Bounded(log)
      /\ log \in SUBSET Row /\ HasLast(log)
  BY DEF IInv, Agree, LogOK
<1>2. PICK lo, hi \in Int : /\ lo <= hi + 1 /\ hi - lo + 1 <= MaxSize
                            /\ Window(log) = lo..hi
  BY <1>1, WindowIsRange
<1>3. Cardinality(lo..hi) = IF lo > hi THEN 0 ELSE hi - lo + 1
  BY FS_Interval
<1>4. Cardinality(Window(log)) <= MaxSize
  BY <1>2, <1>3, ConfigAssumption
<1>5. Indexed # {} => Height(log) \in Window(log)
  BY <1>1 DEF Bounded, HoldsHeight
<1>6. Window(log) \subseteq Indexed
  BY <1>1, WindowIsKept
<1> QED BY <1>1, <1>4, <1>5, <1>6, WindowIsUpperPart

(* The restored Network has the last blocks that user models have events   *)
(* of, up to the very last one and at most MaxSize, so a reorganisation    *)
(* can walk back through these; it has as many as it can hold unless one   *)
(* already has.                                                            *)
THEOREM WindowHoldsLastHolds == Spec => []WindowHoldsLast
BY LastOnesHeld, Invariant, PTL

-----------------------------------------------------------------------------
(* What the queries answer from such a window.                             *)

LEMMA InRangeIsKeep ==
  ASSUME NEW start, NEW end
  PROVE  Reads!InRange(start, end) = K!Keep(start..end, Upwards(Window(log)))
BY DEF Reads!InRange, Reads!FoldLeft, Reads!MapThenFoldSet, Reads!Max,
       K!Keep, K!F!Fold, K!F!Max, K!KeepOne, Within

LEMMA BlocksAnswer ==
  ASSUME NEW lo \in Int, NEW hi \in Int, lo <= hi + 1, Window(log) = lo..hi,
         NEW lastN \in Asked \cup {Undefined}, NEW all \in BOOLEAN
  PROVE  LET answer == Reads!Blocks(lastN, all)
         IN  \E low \in Int :
               /\ lo <= low /\ low <= hi + 1
               /\ answer.blocks = Span(low, hi)
               /\ hi - low + 1 = IF all THEN hi - lo + 1
                                 ELSE Min({answer.requestedCount, hi - lo + 1})
<1>1. Upwards(Window(log)) = Span(lo, hi) /\ Len(Span(lo, hi)) = hi - lo + 1
  BY UpwardsIsSpan, SpanType
<1> DEFINE answer == Reads!Blocks(lastN, all)
<1>2. CASE all
  <2>1. answer.blocks = Span(lo, hi)
    BY <1>1, <1>2 DEF Reads!Blocks
  <2>2. lo <= lo /\ lo <= hi + 1
    OBVIOUS
  <2> HIDE DEF answer
  <2>3. \E low \in Int : /\ lo <= low /\ low <= hi + 1 /\ answer.blocks = Span(low, hi)
                         /\ hi - low + 1 = IF all THEN hi - lo + 1
                              ELSE Min({answer.requestedCount, hi - lo + 1})
    BY <1>2, <2>1, <2>2
  <2> QED BY <2>3 DEF answer
<1>3. CASE ~all
  <2> DEFINE n == IF lastN # Undefined /\ lastN > 0 THEN lastN ELSE DefaultN
  <2>1. n \in Nat \ {0}
    BY QueryAssumption
  <2>2. /\ Reads!Blocks(lastN, all).blocks = Reads!LastNBlocks(n)
        /\ Reads!Blocks(lastN, all).requestedCount = n
    BY <1>3 DEF Reads!Blocks
  <2>3. Reads!LastNBlocks(n) =
          SubSeq(Span(lo, hi), Max({1, (hi - lo + 1) - n + 1}), hi - lo + 1)
    BY <1>1 DEF Reads!LastNBlocks, Reads!Max, Max
  <2> HIDE DEF n, answer
  <2>4. PICK low \in Int :
          /\ lo <= low /\ low <= hi + 1
          /\ SubSeq(Span(lo, hi), Max({1, (hi - lo + 1) - n + 1}), hi - lo + 1) = Span(low, hi)
          /\ hi - low + 1 = Min({n, hi - lo + 1})
    BY <2>1, LastOfSpan
  <2>5. answer.blocks = Span(low, hi) /\ answer.requestedCount = n
    BY <2>2, <2>3, <2>4 DEF answer
  <2>6. \E x \in Int : /\ lo <= x /\ x <= hi + 1 /\ answer.blocks = Span(x, hi)
                       /\ hi - x + 1 = IF all THEN hi - lo + 1
                            ELSE Min({answer.requestedCount, hi - lo + 1})
    BY <1>3, <2>4, <2>5, Zenon
  <2> QED BY <2>6 DEF answer
<1> QED BY <1>2, <1>3

LEMMA LastBlocksAnswered ==
  ASSUME NEW lo \in Int, NEW hi \in Int, lo <= hi + 1,
         Window(log) = lo..hi, Held = lo..hi, \A h \in Indexed \ Held : h < lo
  PROVE  AnswersLastBlocks
<1> SUFFICES ASSUME NEW lastN \in Asked \cup {Undefined}, NEW all \in BOOLEAN
             PROVE  LET answer == Reads!Blocks(lastN, all)
                        blocks == ToSet(answer.blocks)
                    IN  /\ blocks \subseteq Indexed
                        /\ \A h \in Indexed \ blocks : \A b \in blocks : h < b
                        /\ Len(answer.blocks) =
                             IF all THEN Cardinality(Held)
                             ELSE Min({answer.requestedCount, Cardinality(Held)})
  BY DEF AnswersLastBlocks
<1> DEFINE answer == Reads!Blocks(lastN, all)
<1>1. PICK low \in Int :
        /\ lo <= low /\ low <= hi + 1
        /\ answer.blocks = Span(low, hi)
        /\ hi - low + 1 = IF all THEN hi - lo + 1
                          ELSE Min({answer.requestedCount, hi - lo + 1})
  BY BlocksAnswer
<1>2. ToSet(answer.blocks) = low..hi /\ Len(answer.blocks) = hi - low + 1
  BY <1>1, SpanType
<1>3. Cardinality(Held) = hi - lo + 1
  BY FS_Interval
<1> HIDE DEF answer
<1>4. low..hi \subseteq lo..hi /\ \A h \in Indexed \ (low..hi) : \A b \in low..hi : h < b
  <2>1. Indexed \in SUBSET Int
    BY DEF Indexed, Heights
  <2> QED BY <1>1, <2>1
<1>5. Len(answer.blocks) = IF all THEN Cardinality(Held)
                           ELSE Min({answer.requestedCount, Cardinality(Held)})
  BY <1>1, <1>2, <1>3
<1>6. lo..hi \subseteq Indexed
  BY DEF Held
<1> QED BY <1>2, <1>4, <1>5, <1>6 DEF answer

LEMMA HeightsAnswered ==
  ASSUME NEW lo \in Int, NEW hi \in Int, lo <= hi + 1,
         Window(log) = lo..hi, Held = lo..hi,
         Indexed # {} => lo <= hi /\ \A h \in Indexed : h <= hi
  PROVE  AnswersHeights
<1> DEFINE w == Span(lo, hi)
<1>1. /\ Upwards(Window(log)) = w /\ Len(w) = hi - lo + 1 /\ hi - lo + 1 \in Nat
      /\ \A i \in 1..(hi - lo + 1) : w[i] = lo + i - 1
  BY UpwardsIsSpan, SpanType
<1> HIDE DEF w
<1>2. ASSUME NEW h \in Asked PROVE Reads!Block(h).exists <=> h \in Held
  <2>1. h \in Int /\ h # Undefined
    BY QueryAssumption, ConfigAssumption
  <2>2. (\E i \in 1..Len(w) : w[i] = h) <=> h \in lo..hi
    <3>1. h \in lo..hi => h - lo + 1 \in 1..Len(w) /\ w[h - lo + 1] = h
      BY <1>1, <2>1
    <3>2. \A i \in 1..Len(w) : w[i] \in lo..hi
      BY <1>1
    <3> QED BY <3>1, <3>2
  <2>3. Reads!Contains(Upwards(Window(log)), h) <=> h \in lo..hi
    BY <1>1, <2>2 DEF Reads!Contains
  <2>4. Reads!BlockByHeight(h) # Undefined <=> h \in lo..hi
    BY <2>1, <2>3 DEF Reads!BlockByHeight
  <2> QED BY <2>4 DEF Reads!Block
<1>3. ASSUME NEW start \in Asked, NEW end \in Asked
      PROVE  LET answer == Reads!BlocksInRange(start, end)
             IN  /\ ToSet(answer.blocks) = Held \cap (start..end)
                 /\ answer.found = answer.requested => start..end \subseteq Indexed
  <2> DEFINE found == Reads!InRange(start, end)
  <2>1. start \in Int /\ end \in Int
    BY QueryAssumption
  <2>2. /\ ToSet(found) = (lo..hi) \cap (start..end)
        /\ Len(found) = Cardinality((lo..hi) \cap (start..end))
    <3>1. found = K!Keep(start..end, w)
      BY <1>1, InRangeIsKeep
    <3>2. \A range : /\ ToSet(K!Keep(range, w)) = (lo..hi) \cap range
                     /\ Len(K!Keep(range, w)) = Cardinality((lo..hi) \cap range)
      BY FilteredSpan DEF w
    <3> HIDE DEF found
    <3> QED BY <3>1, <3>2, Zenon
  <2>3. ASSUME Len(found) = end - start + 1 PROVE start..end \subseteq lo..hi
    <3>1. IsFiniteSet(start..end)
          /\ Cardinality(start..end) = IF start > end THEN 0 ELSE end - start + 1
      BY <2>1, FS_Interval
    <3>2. CASE start > end
      BY <2>1, <3>2
    <3>3. CASE start <= end
      <4> DEFINE all == start..end
                 both == (lo..hi) \cap all
      <4>1. Cardinality(both) = Cardinality(all) /\ both \in SUBSET all
        BY <2>1, <2>2, <2>3, <3>1, <3>3
      <4>2. both = all
        <5> HIDE DEF both, all
        <5>1. IsFiniteSet(all)
          BY <3>1 DEF all
        <5> QED BY <4>1, <5>1, FS_Subset
      <4> QED BY <4>2
    <3> QED BY <2>1, <3>2, <3>3
  <2>4. /\ Reads!BlocksInRange(start, end).blocks = found
        /\ Reads!BlocksInRange(start, end).found = Len(found)
        /\ Reads!BlocksInRange(start, end).requested = end - start + 1
    BY DEF Reads!BlocksInRange
  <2>5. lo..hi \subseteq Indexed
    BY DEF Held
  <2> HIDE DEF found
  <2> QED BY <2>2, <2>3, <2>4, <2>5
<1>4. Reads!LastBlock = IF Indexed = {} THEN Undefined ELSE Max(Indexed)
  <2>1. CASE lo = hi + 1
    <3>1. w = <<>> /\ Indexed = {}
      <4>1. lo..hi = {} /\ Len(w) = 0 /\ w \in Seq(Int)
        BY <1>1, <2>1, SpanType DEF w
      <4> QED BY <4>1, EmptySeq
    <3> QED BY <1>1, <3>1 DEF Reads!LastBlock
  <2>2. CASE lo <= hi
    <3>1. w # <<>> /\ w[Len(w)] = hi
      <4>1. hi - lo + 1 \in 1..(hi - lo + 1) /\ lo + (hi - lo + 1) - 1 = hi
        BY <2>2
      <4>2. w[Len(w)] = hi /\ Len(w) # 0
        BY <1>1, <4>1
      <4> QED BY <4>2, EmptySeq
    <3>2. hi \in Indexed /\ \A x \in Indexed : (\A y \in Indexed : x >= y) <=> x = hi
      <4>1. hi \in lo..hi /\ Indexed \in SUBSET Int
        BY <2>2 DEF Indexed, Heights
      <4>2. hi \in Indexed
        BY <4>1 DEF Held
      <4> QED BY <4>1, <4>2
    <3>3. Max(Indexed) = hi
      BY <3>2 DEF Max
    <3> QED BY <1>1, <3>1, <3>2, <3>3 DEF Reads!LastBlock
  <2> QED BY <2>1, <2>2
<1> QED BY <1>2, <1>3, <1>4 DEF AnswersHeights

(* GetNetworkBlocks and the other network queries answer, whenever they    *)
(* come, from the last of the blocks user models have events of, the ones  *)
(* the bounded Network holds, and from no other block, whatever lies       *)
(* between this boot and the first.                                        *)
THEOREM QueriesMatchEventsHolds == Spec => []QueriesMatchEvents
<1>1. IInv => QueriesMatchEvents
  <2> SUFFICES ASSUME IInv, ~MaySplitBatches
               PROVE  WindowHoldsLast /\ AnswersLastBlocks /\ AnswersHeights
    BY DEF QueriesMatchEvents
  <2>1. /\ Indexed = Kept(log) /\ Dense(log) /\ RowsReach(log) /\ Bounded(log)
        /\ log \in SUBSET Row /\ HasLast(log)
    BY DEF IInv, Agree, LogOK
  <2>2. PICK lo, hi \in Int : /\ lo <= hi + 1
                              /\ Window(log) = lo..hi
                              /\ Kept(log) # {} => lo <= hi /\ hi = Height(log)
    BY <2>1, WindowIsRange
  <2>3. Held = lo..hi
    BY <2>1, <2>2, WindowIsKept DEF Held
  <2>4. Indexed # {} => lo <= hi /\ \A h \in Indexed : h <= hi
    BY <2>1, <2>2 DEF Dense
  <2>5. ASSUME NEW h \in Indexed \ Held PROVE h < lo
    <3>1. h \in Int /\ lo <= hi
      BY <2>4 DEF Indexed, Heights
    <3>2. ~(h > lo) /\ h # lo
      BY <2>1, <2>2, <2>3, <3>1, WindowIsUpperPart
    <3> QED BY <3>1, <3>2
  <2>6. AnswersLastBlocks
    BY <2>2, <2>3, <2>5, LastBlocksAnswered
  <2>7. AnswersHeights
    BY <2>2, <2>3, <2>4, HeightsAnswered
  <2> QED BY <2>6, <2>7, LastOnesHeld
<1> QED BY <1>1, Invariant, PTL
=============================================================================
