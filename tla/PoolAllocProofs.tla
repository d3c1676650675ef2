-------------------------- MODULE PoolAllocProofs ---------------------------
(***************************************************************************)
(* Proofs about PoolAlloc, for every table size, page size, set of regions *)
(* and set of block sizes that satisfies the assumptions of PoolAlloc.     *)
(***************************************************************************)
EXTENDS PoolAlloc, FiniteSetTheorems, WellFoundedInduction, TLAPS

(***************************************************************************)
(* Searching a set of indices.                                             *)
(***************************************************************************)

(* A non-empty set of naturals has a least element.                        *)
LEMMA MinExists ==
  ASSUME NEW S, S \subseteq Nat, S # {}
  PROVE  \E m \in S : \A k \in S : m <= k
<1> DEFINE R == {ss \in Nat \X Nat : ss[1] < ss[2]}
<1>1. IsWellFoundedOn(R, Nat)
  BY NatLessThanWellFounded DEF OpToRel
<1>2. PICK m \in S : \A k \in S : <<k, m>> \notin R
  <2> HIDE DEF R
  <2> QED BY <1>1, WFMin
<1>3. \A k \in S : m <= k
  <2> SUFFICES ASSUME NEW k \in S, ~(m <= k) PROVE FALSE
    OBVIOUS
  <2>1. k \in Nat /\ m \in Nat /\ k < m
    OBVIOUS
  <2>2. <<k, m>> \in R
    BY <2>1
  <2> QED BY <2>2, <1>2
<1> QED BY <1>2, <1>3

(* A non-empty set of naturals with an upper bound has a greatest element. *)
LEMMA MaxExists ==
  ASSUME NEW b \in Nat, NEW S, S \subseteq 0 .. b, S # {}
  PROVE  \E m \in S : \A k \in S : k <= m
<1> DEFINE T == {b - k : k \in S}
<1>1. T \subseteq Nat /\ T # {}
  <2>1. PICK k \in S : TRUE
    OBVIOUS
  <2>2. b - k \in T
    BY <2>1
  <2>3. \A x \in S : b - x \in Nat
    OBVIOUS
  <2> QED BY <2>2, <2>3
<1>2. PICK t \in T : \A u \in T : t <= u
  <2> HIDE DEF T
  <2> QED BY <1>1, MinExists
<1>3. PICK m \in S : t = b - m
  OBVIOUS
<1>4. \A k \in S : b - m <= b - k
  BY <1>2, <1>3
<1>5. \A k \in S : k <= m
  BY <1>4
<1> QED BY <1>5

(* The loops that stop at the first hit return a member of the set.        *)
LEMMA FirstIsMember ==
  ASSUME NEW S, S \subseteq Nat, S # {}
  PROVE  First(S) \in S /\ \A k \in S : First(S) <= k
BY MinExists DEF First

(* FirstFree is the "no index" value or an index in range.                 *)
LEMMA FirstFreeType ==
  ASSUME NEW hd, NEW from \in Nat, NEW count \in Nat
  PROVE  FirstFree(hd, from, count) \in Nat
<1> DEFINE S == {k \in from .. (count - 1) : hd[k].flags = {}}
<1>1. S \subseteq Nat
  OBVIOUS
<1>2. S # {} => First(S) \in Nat
  <2> HIDE DEF S
  <2> QED BY <1>1, FirstIsMember
<1>3. FirstFree(hd, from, count) = IF S = {} THEN UINT32_MAX ELSE First(S)
  BY DEF FirstFree
<1> HIDE DEF S
<1> QED BY <1>2, <1>3, PoolAssumption

(***************************************************************************)
(* What marking and clearing headers does to one pool.                     *)
(***************************************************************************)

(* A header with no flag set belongs to no allocation: it is FreeHead.     *)
LEMMA UnmarkedIsFree ==
  ASSUME NEW pool \in Pool, NEW hd, NEW held,
         \A a \in held : IsAllocation(a),
         Describes(pool, hd, held),
         NEW k \in 0 .. (pool.blockCount - 1), hd[k].flags = {}
  PROVE  hd[k] = FreeHead /\ \A a \in held : k \notin Blocks(a)
<1>1. \A a \in held : HeadOf(a, k).flags # {}
  <2> SUFFICES ASSUME NEW a \in held PROVE HeadOf(a, k).flags # {}
    OBVIOUS
  <2>1. \/ HeadOf(a, k).flags = {"Single"}
        \/ HeadOf(a, k).flags = {"StartOfMulti", "PartOfMulti"}
        \/ HeadOf(a, k).flags = {"PartOfMulti"}
    BY DEF HeadOf, FlagsFor
  <2>2. {"Single"} # {} /\ {"PartOfMulti"} # {} /\ {"StartOfMulti", "PartOfMulti"} # {}
    OBVIOUS
  <2> QED BY <2>1, <2>2, Zenon
<1>2. \A a \in held : k \in Blocks(a) => hd[k].flags # {}
  BY <1>1 DEF Describes
<1> QED BY <1>2 DEF Describes

(* Marking a free window records exactly one more allocation.              *)
LEMMA MarkDescribes ==
  ASSUME NEW pool \in Pool, NEW hd \in [0 .. (pool.blockCount - 1) -> Head], NEW held,
         \A b \in held : IsAllocation(b),
         Describes(pool, hd, held),
         NEW a, IsAllocation(a), a.size = pool.blockSize,
         a.idx + a.n <= pool.blockCount,
         \A k \in Blocks(a) : hd[k].flags = {},
         NEW pool2 \in Pool, pool2.blockCount = pool.blockCount,
         pool2.blockSize = pool.blockSize
  PROVE  /\ MarkBlocks(hd, a.idx, a.n) \in [0 .. (pool.blockCount - 1) -> Head]
         /\ Describes(pool2, MarkBlocks(hd, a.idx, a.n), held \cup {a})
         /\ \A b \in held : Blocks(a) \cap Blocks(b) = {}
<1> DEFINE hd2 == MarkBlocks(hd, a.idx, a.n)
           D   == 0 .. (pool.blockCount - 1)
<1>1. a.idx \in Nat /\ a.n \in Nat /\ a.n > 0 /\ pool.blockCount \in Nat
  BY DEF IsAllocation, Pool
<1>2. Blocks(a) \subseteq D
  BY <1>1 DEF Blocks
<1>3. \A k \in Blocks(a) : hd[k] = FreeHead /\ \A b \in held : k \notin Blocks(b)
  BY <1>2, UnmarkedIsFree
<1>4. \A k \in D : k \notin Blocks(a) => hd2[k] = hd[k]
  BY DEF MarkBlocks, Blocks
<1>5. \A k \in Blocks(a) : hd2[k] = HeadOf(a, k)
  <2> SUFFICES ASSUME NEW k \in Blocks(a) PROVE hd2[k] = HeadOf(a, k)
    OBVIOUS
  <2>1. k \in D /\ hd[k] = [flags |-> {}, nMulti |-> 0]
    BY <1>2, <1>3 DEF FreeHead
  <2>2. {} \cup FlagsFor(a.idx, a.n, k) = FlagsFor(a.idx, a.n, k)
    OBVIOUS
  <2>3. hd2[k] = [flags  |-> hd[k].flags \cup FlagsFor(a.idx, a.n, k),
                  nMulti |-> IF a.n > 1 /\ k = a.idx THEN a.n ELSE hd[k].nMulti]
    BY <2>1 DEF MarkBlocks, Blocks
  <2>4. hd[k].flags = {} /\ hd[k].nMulti = 0
    BY <2>1
  <2> HIDE DEF hd2
  <2> QED BY <2>2, <2>3, <2>4 DEF HeadOf
<1>6. DOMAIN hd2 = D
  BY DEF MarkBlocks
<1>7. \A k \in Blocks(a) : HeadOf(a, k) \in Head
  BY <1>1 DEF HeadOf, FlagsFor, Head, Flag
<1>8. hd2 \in [D -> Head]
  <2>1. \A k \in D : hd2[k] \in Head
    BY <1>4, <1>5, <1>7
  <2>2. hd2 = [k \in D |-> hd2[k]]
    BY <1>6 DEF MarkBlocks
  <2> HIDE DEF hd2
  <2> QED BY <2>1, <2>2
<1>9. Describes(pool2, hd2, held \cup {a})
  <2> HIDE DEF hd2
  <2>1. ASSUME NEW b \in held
        PROVE  /\ b.idx + b.n <= pool.blockCount /\ b.size = pool.blockSize
               /\ \A k \in Blocks(b) : hd2[k] = HeadOf(b, k)
    <3>1. /\ b.idx + b.n <= pool.blockCount /\ b.size = pool.blockSize
          /\ \A k \in Blocks(b) : hd[k] = HeadOf(b, k)
      BY DEF Describes
    <3>2. Blocks(b) \subseteq D
      BY <3>1, <1>1 DEF IsAllocation, Blocks
    <3> QED BY <3>1, <3>2, <1>3, <1>4
  <2>2. \A k \in D : hd2[k] = FreeHead \/ \E b \in held \cup {a} : k \in Blocks(b)
    BY <1>4 DEF Describes
  <2> QED BY <2>1, <2>2, <1>5 DEF Describes
<1> QED BY <1>3, <1>8, <1>9

(* Every block of an allocation is marked.                                 *)
LEMMA HeldIsMarked ==
  ASSUME NEW pool \in Pool, NEW hd, NEW held,
         \A b \in held : IsAllocation(b),
         Describes(pool, hd, held), NEW a \in held
  PROVE  /\ Blocks(a) \subseteq Marked(pool, hd)
         /\ Blocks(a) # {}
         /\ IsFiniteSet(Blocks(a)) /\ Cardinality(Blocks(a)) = a.n
<1>1. a.idx \in Nat /\ a.n \in Nat /\ a.n > 0 /\ pool.blockCount \in Nat
  BY DEF IsAllocation, Pool
<1>2. a.idx + a.n <= pool.blockCount /\ \A k \in Blocks(a) : hd[k] = HeadOf(a, k)
  BY DEF Describes
<1>3. \A k \in Blocks(a) : k \in 0 .. (pool.blockCount - 1)
  BY <1>1, <1>2 DEF Blocks
<1>4. \A k \in Blocks(a) : hd[k].flags # {}
  BY <1>3, UnmarkedIsFree
<1>5. a.idx \in Blocks(a)
  BY <1>1 DEF Blocks
<1>6. IsFiniteSet(Blocks(a)) /\ Cardinality(Blocks(a)) = a.n
  <2>1. a.idx \in Int /\ a.idx + a.n - 1 \in Int /\ ~(a.idx > a.idx + a.n - 1)
    BY <1>1
  <2>2. /\ IsFiniteSet(a.idx .. (a.idx + a.n - 1))
        /\ Cardinality(a.idx .. (a.idx + a.n - 1)) = (a.idx + a.n - 1) - a.idx + 1
    BY <2>1, FS_Interval
  <2> QED BY <2>2, <1>1 DEF Blocks
<1> QED BY <1>3, <1>4, <1>5, <1>6 DEF Marked

LEMMA MarkedFinite ==
  ASSUME NEW pool \in Pool, NEW hd
  PROVE  IsFiniteSet(Marked(pool, hd)) /\ Cardinality(Marked(pool, hd)) \in Nat
<1>1. IsFiniteSet(0 .. (pool.blockCount - 1))
  BY FS_Interval DEF Pool
<1>2. Marked(pool, hd) \in SUBSET (0 .. (pool.blockCount - 1))
  BY DEF Marked
<1> QED BY <1>1, <1>2, FS_Subset, FS_CardinalityType

(* Marking a free window adds its length to the number of marked blocks.   *)
LEMMA MarkCounts ==
  ASSUME NEW pool \in Pool, NEW hd \in [0 .. (pool.blockCount - 1) -> Head], NEW held,
         \A b \in held : IsAllocation(b),
         Describes(pool, hd, held),
         NEW a, IsAllocation(a), a.size = pool.blockSize,
         a.idx + a.n <= pool.blockCount,
         \A k \in Blocks(a) : hd[k].flags = {},
         NEW pool2 \in Pool, pool2.blockCount = pool.blockCount,
         pool2.blockSize = pool.blockSize
  PROVE  Cardinality(Marked(pool2, MarkBlocks(hd, a.idx, a.n)))
           = Cardinality(Marked(pool, hd)) + a.n
<1> DEFINE hd2 == MarkBlocks(hd, a.idx, a.n)
<1>1. Describes(pool2, hd2, held \cup {a})
  BY MarkDescribes
<1>2. /\ Blocks(a) \subseteq Marked(pool2, hd2)
      /\ IsFiniteSet(Blocks(a)) /\ Cardinality(Blocks(a)) = a.n
  <2>1. \A b \in held \cup {a} : IsAllocation(b)
    OBVIOUS
  <2> HIDE DEF hd2
  <2> QED BY <1>1, <2>1, HeldIsMarked
<1>3. \A k \in 0 .. (pool.blockCount - 1) : k \notin Blocks(a) => hd2[k] = hd[k]
  BY DEF MarkBlocks, Blocks
<1>4. Marked(pool2, hd2) = Marked(pool, hd) \cup Blocks(a)
  <2> HIDE DEF hd2
  <2> QED BY <1>2, <1>3 DEF Marked
<1>5. Marked(pool, hd) \cap Blocks(a) = {}
  BY DEF Marked
<1>6. Cardinality(Marked(pool, hd) \cup Blocks(a))
        = Cardinality(Marked(pool, hd)) + a.n - Cardinality({})
  BY <1>2, <1>5, MarkedFinite, FS_Union
<1>7. a.n \in Nat
  BY DEF IsAllocation
<1> HIDE DEF hd2
<1> QED BY <1>4, <1>6, <1>7, MarkedFinite, FS_EmptySet DEF hd2

(* No other allocation covers a block of a.                                *)
Apart(a, held) == \A b \in held : b # a => Blocks(a) \cap Blocks(b) = {}

(* Clearing the blocks of one allocation forgets that one and no other.    *)
LEMMA ClearDescribes ==
  ASSUME NEW pool \in Pool, NEW hd \in [0 .. (pool.blockCount - 1) -> Head], NEW held,
         \A b \in held : IsAllocation(b),
         Describes(pool, hd, held),
         NEW a \in held, Apart(a, held),
         NEW pool2 \in Pool, pool2.blockCount = pool.blockCount,
         pool2.blockSize = pool.blockSize
  PROVE  /\ ClearBlocks(hd, a.idx, a.n) \in [0 .. (pool.blockCount - 1) -> Head]
         /\ Describes(pool2, ClearBlocks(hd, a.idx, a.n), held \ {a})
         /\ Cardinality(Marked(pool2, ClearBlocks(hd, a.idx, a.n)))
              = Cardinality(Marked(pool, hd)) - a.n
<1> DEFINE hd2 == ClearBlocks(hd, a.idx, a.n)
           D   == 0 .. (pool.blockCount - 1)
<1>1. \A k \in D : hd2[k] = IF k \in Blocks(a) THEN FreeHead ELSE hd[k]
  BY DEF ClearBlocks, Blocks
<1>2. FreeHead \in Head /\ FreeHead.flags = {}
  BY DEF FreeHead, Head
<1>3. hd2 \in [D -> Head]
  <2>1. hd2 = [k \in D |-> IF k \in Blocks(a) THEN FreeHead ELSE hd[k]]
    BY DEF ClearBlocks, Blocks
  <2> HIDE DEF hd2
  <2> QED BY <2>1, <1>2
<1> HIDE DEF hd2
<1>4. ASSUME NEW b \in held, b # a
      PROVE  /\ b.idx + b.n <= pool.blockCount /\ b.size = pool.blockSize
             /\ \A k \in Blocks(b) : hd2[k] = HeadOf(b, k)
  <2>1. Blocks(b) \subseteq D
    BY HeldIsMarked DEF Marked
  <2>2. \A k \in Blocks(b) : k \notin Blocks(a)
    BY <1>4 DEF Apart
  <2>3. \A k \in Blocks(b) : hd2[k] = hd[k]
    BY <1>1, <2>1, <2>2
  <2> QED BY <2>3 DEF Describes
<1>5. \A k \in D : hd2[k] = FreeHead \/ \E b \in held \ {a} : k \in Blocks(b)
  BY <1>1 DEF Describes
<1>6. Describes(pool2, hd2, held \ {a})
  BY <1>4, <1>5 DEF Describes
<1>7. Marked(pool2, hd2) = Marked(pool, hd) \ Blocks(a)
  BY <1>1, <1>2 DEF Marked
<1>8. Blocks(a) \subseteq Marked(pool, hd) /\ Cardinality(Blocks(a)) = a.n
  BY HeldIsMarked
<1>9. Marked(pool, hd) \cap Blocks(a) = Blocks(a)
  BY <1>8
<1>10. Cardinality(Marked(pool, hd) \ Blocks(a)) = Cardinality(Marked(pool, hd)) - a.n
  <2>1. IsFiniteSet(Marked(pool, hd))
    BY MarkedFinite
  <2>2. Cardinality(Marked(pool, hd) \ Blocks(a))
          = Cardinality(Marked(pool, hd)) - Cardinality(Marked(pool, hd) \cap Blocks(a))
    BY <2>1, FS_Difference
  <2> QED BY <2>2, <1>8, <1>9
<1> QED BY <1>3, <1>6, <1>7, <1>10 DEF hd2

(* NkPoolFree, given the address of an allocation, finds its first header  *)
(* and its length.                                                         *)
LEMMA HeaderFound ==
  ASSUME NEW pool \in Pool, NEW hd, NEW held,
         \A b \in held : IsAllocation(b),
         Describes(pool, hd, held), NEW a \in held
  PROVE  /\ GetHeaderForBlock(hd, a.idx) = a.idx
         /\ BlocksOf(hd[a.idx]) = a.n
<1>1. a.idx \in Nat /\ a.n \in Nat /\ a.n > 0
  BY DEF IsAllocation
<1>2. a.idx \in Blocks(a)
  BY <1>1 DEF Blocks
<1>3. hd[a.idx] = HeadOf(a, a.idx)
  BY <1>2 DEF Describes
<1>4. \/ a.n = 1 /\ hd[a.idx].flags = {"Single"}
      \/ /\ a.n > 1 /\ hd[a.idx].nMulti = a.n
         /\ hd[a.idx].flags = {"StartOfMulti", "PartOfMulti"}
  BY <1>1, <1>3 DEF HeadOf, FlagsFor
<1>5. \/ "PartOfMulti" \notin hd[a.idx].flags
      \/ "StartOfMulti" \in hd[a.idx].flags
  BY <1>4
<1>6. BlocksOf(hd[a.idx]) = a.n
  BY <1>4 DEF BlocksOf
<1>7. GetHeaderForBlock(hd, a.idx) = a.idx
  BY <1>1, <1>5 DEF GetHeaderForBlock
<1> QED BY <1>6, <1>7

(***************************************************************************)
(* The inductive invariant.                                                *)
(***************************************************************************)

CountExact ==
  up => \A p \in Used :
    memPools[p].nAllocBlocks
      = Cardinality(Marked(memPools[p], heads[memPools[p].blockPtr]))

(* An overwritten slot makes m_nAllocPools too high, never too low.        *)
UsedCounted == Cardinality(Used) <= nAllocPools

Safe ==
  /\ TypeOK
  /\ LiveDisjoint
  /\ LiveInHeap
  /\ TableRegions
  /\ HeadersExact
  /\ CountExact
  /\ UsedCounted

LEMMA UsedFinite == IsFiniteSet(Used) /\ Cardinality(Used) \in Nat
<1>1. IsFiniteSet(PoolIdx)
  BY FS_Interval, PoolAssumption DEF PoolIdx
<1>2. Used \in SUBSET PoolIdx
  BY DEF Used
<1> QED BY <1>1, <1>2, FS_Subset, FS_CardinalityType

(* The scans that stop after m_nAllocPools used slots reach every pool.    *)
LEMMA ScansReachAll ==
  ASSUME UsedCounted, nAllocPools \in Nat
  PROVE  Scanned = Used
<1> SUFFICES ASSUME NEW p \in Used
             PROVE  Cardinality({q \in Used : q < p}) < nAllocPools
  BY DEF Scanned
<1>u. PICK U : U = Used
  OBVIOUS
<1>b. PICK B : B = {q \in Used : q < p}
  OBVIOUS
<1>1. IsFiniteSet(U) /\ Cardinality(U) \in Nat /\ p \in U /\ Cardinality(U) <= nAllocPools
  BY <1>u, UsedFinite DEF UsedCounted
<1>2. IsFiniteSet(U \ {p}) /\ Cardinality(U \ {p}) = Cardinality(U) - 1
  BY <1>1, FS_RemoveElement
<1>3. B \in SUBSET (U \ {p})
  BY <1>u, <1>b DEF Used, PoolIdx
<1>4. Cardinality(B) \in Nat /\ Cardinality(B) <= Cardinality(U \ {p})
  BY <1>2, <1>3, FS_Subset, FS_CardinalityType
<1> QED BY <1>1, <1>2, <1>4, <1>b

LEMMA SafeInit == Init => Safe
<1> SUFFICES ASSUME Init PROVE Safe
  OBVIOUS
<1>1. EmptyPool \in Pool
  BY DEF EmptyPool, Pool
<1>2. TypeOK
  <2>1. nAllocPools \in 0 .. MaxPools /\ firstFreePool \in PoolIdx /\ nAllocPools # MaxPools
    BY PoolAssumption DEF Init, PoolIdx
  <2>2. memPools \in [PoolIdx -> Pool] /\ DOMAIN heads = Regions
    BY <1>1 DEF Init
  <2> QED BY <2>1, <2>2 DEF Init, TypeOK
<1>3. Used = {}
  BY DEF Init, Used, EmptyPool
<1>4. LiveDisjoint /\ LiveInHeap
  BY DEF Init, LiveDisjoint, LiveInHeap
<1>5. TableRegions
  BY <1>3 DEF TableRegions
<1>6. HeadersExact
  BY <1>3 DEF HeadersExact
<1>7. CountExact
  BY <1>3 DEF CountExact
<1>8. UsedCounted
  BY <1>3, FS_EmptySet DEF UsedCounted, Init
<1> QED BY <1>2, <1>4, <1>5, <1>6, <1>7, <1>8 DEF Safe

(* A step that changes pool p, its headers and the allocations in its      *)
(* region, keeping them consistent with one another, keeps every pool so.  *)
LEMMA UpdatePool ==
  ASSUME Safe, up, up' = up,
         NEW p \in Used, NEW pool2 \in Pool,
         pool2.blockSize = memPools[p].blockSize,
         pool2.blockCount = memPools[p].blockCount,
         pool2.blockPtr = memPools[p].blockPtr,
         NEW hd2 \in [0 .. (pool2.blockCount - 1) -> Head],
         memPools' = [memPools EXCEPT ![p] = pool2],
         heads' = [heads EXCEPT ![pool2.blockPtr] = hd2],
         heap' = heap,
         \A r \in Regions : r # pool2.blockPtr => HeldIn(r, live') = HeldIn(r, live),
         Describes(pool2, hd2, HeldIn(pool2.blockPtr, live')),
         pool2.nAllocBlocks = Cardinality(Marked(pool2, hd2))
  PROVE  /\ memPools' \in [PoolIdx -> Pool] /\ DOMAIN heads' = Regions
         /\ TableRegions' /\ HeadersExact' /\ CountExact' /\ Used' = Used
<1> DEFINE r == pool2.blockPtr
<1>1. /\ memPools \in [PoolIdx -> Pool] /\ DOMAIN heads = Regions /\ p \in PoolIdx
      /\ heap \subseteq Regions
  BY DEF Safe, TypeOK, Used
<1>2. r \in heap /\ r \in Regions
  BY <1>1 DEF Safe, TableRegions
<1>3. /\ memPools' \in [PoolIdx -> Pool] /\ DOMAIN heads' = Regions
      /\ memPools'[p] = pool2 /\ heads'[r] = hd2
      /\ \A q \in PoolIdx : q # p => memPools'[q] = memPools[q]
      /\ \A x \in Regions : x # r => heads'[x] = heads[x]
  BY <1>1, <1>2
<1>4. Used' = Used
  BY <1>1, <1>3 DEF Used
<1>5. ASSUME NEW q \in Used, q # p
      PROVE  /\ memPools'[q] = memPools[q]
             /\ memPools[q].blockPtr \in heap
             /\ memPools[q].blockPtr # r
             /\ heads'[memPools[q].blockPtr] = heads[memPools[q].blockPtr]
             /\ HeldIn(memPools[q].blockPtr, live') = HeldIn(memPools[q].blockPtr, live)
  <2>1. memPools[q].blockPtr \in heap /\ memPools[q].blockPtr # r
    BY <1>5 DEF Safe, TableRegions
  <2>2. memPools[q].blockPtr \in Regions
    BY <2>1, <1>1
  <2>3. q \in PoolIdx
    BY DEF Used
  <2> QED BY <2>1, <2>2, <2>3, <1>3, <1>5
<1>6. TableRegions'
  <2>1. ASSUME NEW q \in Used
        PROVE  /\ memPools'[q].blockPtr \in heap
               /\ memPools'[q].blockPtr = memPools[q].blockPtr
               /\ heads'[memPools'[q].blockPtr]
                    \in [0 .. (memPools'[q].blockCount - 1) -> Head]
    <3>1. CASE q = p
      BY <3>1, <1>2, <1>3
    <3>2. CASE q # p
      BY <3>2, <1>5 DEF Safe, TableRegions
    <3> QED BY <3>1, <3>2
  <2> QED BY <2>1, <1>4 DEF Safe, TableRegions
<1>7. HeadersExact'
  <2>1. ASSUME NEW q \in Used
        PROVE  Describes(memPools'[q], heads'[memPools'[q].blockPtr],
                         HeldIn(memPools[q].blockPtr, live')) /\ memPools'[q].blockPtr = memPools[q].blockPtr
    <3>1. CASE q = p
      BY <3>1, <1>3
    <3>2. CASE q # p
      BY <3>2, <1>5 DEF Safe, HeadersExact
    <3> QED BY <3>1, <3>2
  <2>2. ASSUME NEW q \in Used'
        PROVE  Describes(memPools[q], heads[memPools[q].blockPtr],
                         HeldIn(memPools[q].blockPtr, live))'
    BY <2>1, <2>2, <1>4
  <2> QED BY <2>2 DEF HeadersExact
<1>8. CountExact'
  <2>1. ASSUME NEW q \in Used
        PROVE  memPools'[q].nAllocBlocks
                 = Cardinality(Marked(memPools'[q], heads'[memPools'[q].blockPtr]))
    <3>1. CASE q = p
      BY <3>1, <1>3
    <3>2. CASE q # p
      BY <3>2, <1>5 DEF Safe, CountExact
    <3> QED BY <3>1, <3>2
  <2> QED BY <2>1, <1>4 DEF CountExact
<1> QED BY <1>3, <1>4, <1>6, <1>7, <1>8

(* What the table says about one of its pools.                             *)
LEMMA PoolFacts ==
  ASSUME Safe, up, NEW p \in Used
  PROVE  /\ p \in PoolIdx /\ memPools[p] \in Pool
         /\ memPools[p].blockPtr \in heap /\ memPools[p].blockPtr \in Regions
         /\ heads[memPools[p].blockPtr] \in [0 .. (memPools[p].blockCount - 1) -> Head]
         /\ Describes(memPools[p], heads[memPools[p].blockPtr],
                      HeldIn(memPools[p].blockPtr, live))
         /\ memPools[p].nAllocBlocks
              = Cardinality(Marked(memPools[p], heads[memPools[p].blockPtr]))
         /\ \A b \in HeldIn(memPools[p].blockPtr, live) : IsAllocation(b)
<1>1. p \in PoolIdx /\ memPools[p] \in Pool /\ heap \subseteq Regions
      /\ \A b \in live : IsAllocation(b)
  BY DEF Safe, TypeOK, Used
<1>2. /\ memPools[p].blockPtr \in heap
      /\ heads[memPools[p].blockPtr] \in [0 .. (memPools[p].blockCount - 1) -> Head]
  BY DEF Safe, TableRegions
<1>3. Describes(memPools[p], heads[memPools[p].blockPtr],
                HeldIn(memPools[p].blockPtr, live))
  BY DEF Safe, HeadersExact
<1>4. memPools[p].nAllocBlocks
        = Cardinality(Marked(memPools[p], heads[memPools[p].blockPtr]))
  BY DEF Safe, CountExact
<1> QED BY <1>1, <1>2, <1>3, <1>4 DEF HeldIn

(* Taking blocks leaves a pool record.                                     *)
LEMMA TakeBlocksType ==
  ASSUME NEW pool \in Pool, NEW hd, NEW idx, NEW n \in Nat
  PROVE  /\ TakeBlocks(pool, hd, idx, n) \in Pool
         /\ TakeBlocks(pool, hd, idx, n).blockSize = pool.blockSize
         /\ TakeBlocks(pool, hd, idx, n).blockCount = pool.blockCount
         /\ TakeBlocks(pool, hd, idx, n).blockPtr = pool.blockPtr
         /\ TakeBlocks(pool, hd, idx, n).nAllocBlocks = pool.nAllocBlocks + n
<1>1. FirstFree(hd, pool.fFreeInd, pool.blockCount) \in Nat
  BY FirstFreeType DEF Pool
<1>2. PICK f \in Nat : TakeBlocks(pool, hd, idx, n)
                         = [pool EXCEPT !.nAllocBlocks = @ + n, !.fFreeInd = f]
  <2>1. pool.fFreeInd \in Nat
    BY DEF Pool
  <2> QED BY <1>1, <2>1 DEF TakeBlocks
<1>3. pool.nAllocBlocks + n \in Nat
  BY DEF Pool
<1> DEFINE p1 == [pool EXCEPT !.nAllocBlocks = @ + n]
           p2 == [p1 EXCEPT !.fFreeInd = f]
<1>4. p1 \in Pool /\ p1.blockSize = pool.blockSize /\ p1.blockCount = pool.blockCount
      /\ p1.blockPtr = pool.blockPtr /\ p1.nAllocBlocks = pool.nAllocBlocks + n
  BY <1>3 DEF Pool
<1>5. TakeBlocks(pool, hd, idx, n) = p2
  BY <1>2
<1> HIDE DEF p1
<1>6. p2 \in Pool /\ p2.blockSize = p1.blockSize /\ p2.blockCount = p1.blockCount
      /\ p2.blockPtr = p1.blockPtr /\ p2.nAllocBlocks = p1.nAllocBlocks
  BY <1>4 DEF Pool
<1> QED BY <1>4, <1>5, <1>6

(* Marking a free window of a pool, the first case of NkPoolAlloc.         *)
LEMMA AllocInPoolSafe ==
  ASSUME Safe, NEW size \in BlockSizes, NEW n \in 1 .. MaxRequest, AllocInPool(size, n)
  PROVE  Safe'
<1>p. PICK p : p = First(Fitting(size, n))
  OBVIOUS
<1>r. PICK r : r = memPools[p].blockPtr
  OBVIOUS
<1>i. PICK idx : idx = FindRangeInPool(p, n)
  OBVIOUS
<1>h. PICK hd : hd = heads[r]
  OBVIOUS
<1>g. PICK hd2 : hd2 = MarkBlocks(hd, idx, n)
  OBVIOUS
<1>o. PICK pool : pool = memPools[p]
  OBVIOUS
<1>q. PICK pool2 : pool2 = TakeBlocks(pool, hd2, idx, n)
  OBVIOUS
<1>a. PICK a : a = [reg |-> r, idx |-> idx, n |-> n, size |-> size]
  OBVIOUS
<1>f. /\ a.reg = r /\ a.idx = idx /\ a.n = n /\ a.size = size
  BY <1>a
<1>2. /\ up /\ Fitting(size, n) # {}
      /\ heads' = [heads EXCEPT ![r] = hd2]
      /\ memPools' = [memPools EXCEPT ![p] = pool2]
      /\ live' = live \cup {a}
      /\ UNCHANGED <<nAllocPools, firstFreePool, heap, lockHeld, up>>
  BY <1>p, <1>r, <1>i, <1>h, <1>g, <1>o, <1>q, <1>a DEF AllocInPool
<1>3. p \in Fitting(size, n)
  <2>1. Fitting(size, n) \subseteq Nat
    BY PoolAssumption DEF Fitting, Scanned, Used, PoolIdx
  <2> QED BY <2>1, <1>2, <1>p, FirstIsMember
<1>4. p \in Used /\ pool.blockSize = size /\ idx # UINT32_MAX
  BY <1>3, <1>i, <1>o DEF Fitting, Scanned
<1>5. /\ p \in PoolIdx /\ pool \in Pool /\ r \in heap /\ r \in Regions
      /\ hd \in [0 .. (pool.blockCount - 1) -> Head]
      /\ Describes(pool, hd, HeldIn(r, live))
      /\ pool.nAllocBlocks = Cardinality(Marked(pool, hd))
      /\ \A b \in HeldIn(r, live) : IsAllocation(b)
  BY <1>2, <1>4, <1>o, <1>h, <1>r, PoolFacts
<1>6. /\ idx = pool.fFreeInd
      /\ ~(pool.blockCount - idx < n)
      /\ \A k \in idx .. (idx + n - 1) : hd[k].flags = {}
  BY <1>4, <1>i, <1>o, <1>h, <1>r DEF FindRangeInPool
<1>7. size \in Nat /\ size > 0 /\ n \in Nat /\ n > 0 /\ idx \in Nat
      /\ pool.blockCount \in Nat
  BY <1>5, <1>6, PoolAssumption DEF Pool
<1>8. IsAllocation(a)
  BY <1>7, <1>5, <1>a DEF IsAllocation
<1>9. a.idx + a.n <= pool.blockCount
  BY <1>6, <1>7, <1>f
<1>10. \A k \in Blocks(a) : hd[k].flags = {}
  BY <1>6, <1>f DEF Blocks
<1>11. pool2 \in Pool /\ pool2.blockSize = pool.blockSize
       /\ pool2.blockCount = pool.blockCount /\ pool2.blockPtr = r
       /\ pool2.nAllocBlocks = pool.nAllocBlocks + n
  BY <1>5, <1>7, <1>q, <1>o, <1>r, TakeBlocksType
<1>12. /\ hd2 \in [0 .. (pool.blockCount - 1) -> Head]
       /\ Describes(pool2, hd2, HeldIn(r, live) \cup {a})
       /\ \A b \in HeldIn(r, live) : Blocks(a) \cap Blocks(b) = {}
  <2>1. hd2 = MarkBlocks(hd, a.idx, a.n) /\ a.size = pool.blockSize
    BY <1>4, <1>f, <1>g
  <2> QED BY <1>5, <1>8, <1>9, <1>10, <1>11, <2>1, MarkDescribes
<1>13. Cardinality(Marked(pool2, hd2)) = pool2.nAllocBlocks
  <2>1. Cardinality(Marked(pool2, MarkBlocks(hd, a.idx, a.n)))
          = Cardinality(Marked(pool, hd)) + a.n
    <3>1. a.size = pool.blockSize
      BY <1>4, <1>f
    <3> QED BY <1>5, <1>8, <1>9, <1>10, <1>11, <3>1, MarkCounts
  <2>2. hd2 = MarkBlocks(hd, a.idx, a.n)
    BY <1>f, <1>g
  <2> QED BY <1>5, <1>11, <1>f, <2>1, <2>2
<1>14. /\ HeldIn(r, live') = HeldIn(r, live) \cup {a}
       /\ \A x \in Regions : x # r => HeldIn(x, live') = HeldIn(x, live)
  BY <1>2, <1>f DEF HeldIn
<1>15. TableRegions' /\ HeadersExact' /\ CountExact'
       /\ memPools' \in [PoolIdx -> Pool] /\ DOMAIN heads' = Regions /\ Used' = Used
  <2>1. /\ up' = up /\ heap' = heap
        /\ pool2.blockSize = memPools[p].blockSize
        /\ pool2.blockCount = memPools[p].blockCount
        /\ pool2.blockPtr = memPools[p].blockPtr
        /\ heads' = [heads EXCEPT ![pool2.blockPtr] = hd2]
        /\ hd2 \in [0 .. (pool2.blockCount - 1) -> Head]
        /\ \A x \in Regions : x # pool2.blockPtr => HeldIn(x, live') = HeldIn(x, live)
        /\ Describes(pool2, hd2, HeldIn(pool2.blockPtr, live'))
    BY <1>2, <1>11, <1>12, <1>14, <1>o, <1>r
  <2> QED BY <1>2, <1>4, <1>11, <1>13, <2>1, UpdatePool
<1>16. LiveInHeap'
  BY <1>2, <1>5, <1>f DEF Safe, LiveInHeap
<1>17. LiveDisjoint'
  <2>1. \A b \in live : b.reg # a.reg \/ Blocks(a) \cap Blocks(b) = {}
    BY <1>12, <1>f DEF HeldIn
  <2>2. \A b, c \in live : b # c => b.reg # c.reg \/ Blocks(b) \cap Blocks(c) = {}
    BY DEF Safe, LiveDisjoint
  <2>3. \A b : Blocks(a) \cap Blocks(b) = Blocks(b) \cap Blocks(a)
    OBVIOUS
  <2> QED BY <1>2, <2>1, <2>2, <2>3 DEF LiveDisjoint
<1>18. TypeOK'
  BY <1>2, <1>8, <1>15 DEF Safe, TypeOK
<1>19. UsedCounted'
  BY <1>2, <1>15 DEF Safe, UsedCounted
<1> QED BY <1>15, <1>16, <1>17, <1>18, <1>19 DEF Safe

(* The next slot is an index of the table or the "no index" value.         *)
LEMMA NextFreePoolType ==
  ASSUME NEW table, firstFreePool \in PoolIdx
  PROVE  /\ NextFreePool(table) \in PoolIdx \cup {UINT32_MAX}
         /\ nAllocPools + 1 = MaxPools => NextFreePool(table) = UINT32_MAX
<1> DEFINE S == {p \in PoolIdx : p >= firstFreePool /\ table[p].blockSize = 0}
<1>1. S \subseteq PoolIdx /\ S \subseteq Nat
  BY DEF PoolIdx
<1>2. S # {} => First(S) \in PoolIdx
  <2> HIDE DEF S
  <2> QED BY <1>1, FirstIsMember
<1>3. NextFreePool(table) = IF nAllocPools + 1 = MaxPools THEN UINT32_MAX
                            ELSE IF S = {} THEN firstFreePool ELSE First(S)
  BY DEF NextFreePool
<1> HIDE DEF S
<1> QED BY <1>2, <1>3

(* Putting a pool with a new region into the table, whether or not the     *)
(* slot was in use, keeps the invariant.                                   *)
LEMMA PlacePool ==
  ASSUME Safe, up, up' = up, lockHeld' = lockHeld,
         firstFreePool # UINT32_MAX,
         NEW r \in Regions, r \notin heap,
         NEW pool \in Pool, pool.blockPtr = r, pool.blockSize # 0,
         NEW hd \in [0 .. (pool.blockCount - 1) -> Head],
         NEW held, Describes(pool, hd, held),
         \A a \in held : IsAllocation(a) /\ a.reg = r,
         \A a, b \in held : a = b,
         pool.nAllocBlocks = Cardinality(Marked(pool, hd)),
         heads' = [heads EXCEPT ![r] = hd],
         memPools' = [memPools EXCEPT ![firstFreePool] = pool],
         firstFreePool' = NextFreePool(memPools'),
         nAllocPools' = nAllocPools + 1,
         heap' = heap \cup {r},
         live' = live \cup held
  PROVE  Safe'
<1>f. PICK f : f = firstFreePool
  OBVIOUS
<1>1. /\ memPools \in [PoolIdx -> Pool] /\ DOMAIN heads = Regions /\ f \in PoolIdx
      /\ heap \subseteq Regions /\ \A b \in live : IsAllocation(b) /\ b.reg \in heap
  BY <1>f DEF Safe, TypeOK, LiveInHeap
<1>2. /\ memPools' \in [PoolIdx -> Pool] /\ DOMAIN heads' = Regions
      /\ memPools'[f] = pool /\ heads'[r] = hd
      /\ \A q \in PoolIdx : q # f => memPools'[q] = memPools[q]
      /\ \A x \in Regions : x # r => heads'[x] = heads[x]
  BY <1>1, <1>f
<1>3. f \in Used' /\ Used' \subseteq PoolIdx /\ \A q \in Used' : q # f => q \in Used
  BY <1>1, <1>2 DEF Used
<1>4. HeldIn(r, live') = held /\ \A x \in Regions : x # r => HeldIn(x, live') = HeldIn(x, live)
  BY <1>1 DEF HeldIn
<1>5. ASSUME NEW q \in Used', q # f
      PROVE  /\ q \in Used /\ memPools'[q] = memPools[q]
             /\ memPools[q].blockPtr \in heap
             /\ memPools[q].blockPtr # r
             /\ heads'[memPools[q].blockPtr] = heads[memPools[q].blockPtr]
             /\ HeldIn(memPools[q].blockPtr, live') = HeldIn(memPools[q].blockPtr, live)
  <2>1. q \in Used /\ q \in PoolIdx
    BY <1>3, <1>5
  <2>2. memPools[q].blockPtr \in heap /\ memPools[q].blockPtr \in Regions
    BY <2>1, PoolFacts
  <2> QED BY <2>1, <2>2, <1>2, <1>4, <1>5
<1>6. TableRegions'
  <2>1. ASSUME NEW q \in Used'
        PROVE  /\ memPools'[q].blockPtr \in heap'
               /\ heads'[memPools'[q].blockPtr]
                    \in [0 .. (memPools'[q].blockCount - 1) -> Head]
    <3>1. CASE q = f
      BY <3>1, <1>2
    <3>2. CASE q # f
      BY <3>2, <1>5, PoolFacts
    <3> QED BY <3>1, <3>2
  <2>2. ASSUME NEW q \in Used', NEW s \in Used', memPools'[s].blockPtr = memPools'[q].blockPtr
        PROVE  s = q
    <3>1. CASE q = f \/ s = f
      BY <3>1, <2>2, <1>2, <1>5
    <3>2. CASE q # f /\ s # f
      <4>1. q \in Used /\ s \in Used /\ memPools[s].blockPtr = memPools[q].blockPtr
        BY <3>2, <2>2, <1>5
      <4> QED BY <4>1 DEF Safe, TableRegions
    <3> QED BY <3>1, <3>2
  <2> QED BY <2>1, <2>2 DEF TableRegions
<1>7. HeadersExact'
  <2>1. ASSUME NEW q \in Used'
        PROVE  Describes(memPools'[q], heads'[memPools'[q].blockPtr],
                         HeldIn(memPools'[q].blockPtr, live'))
    <3>1. CASE q = f
      BY <3>1, <1>2, <1>4
    <3>2. CASE q # f
      <4>1. q \in Used
        BY <3>2, <1>5
      <4>2. Describes(memPools[q], heads[memPools[q].blockPtr],
                      HeldIn(memPools[q].blockPtr, live))
        BY <4>1, PoolFacts
      <4> QED BY <3>2, <4>2, <1>5
    <3> QED BY <3>1, <3>2
  <2> QED BY <2>1 DEF HeadersExact
<1>8. CountExact'
  <2>1. ASSUME NEW q \in Used'
        PROVE  memPools'[q].nAllocBlocks
                 = Cardinality(Marked(memPools'[q], heads'[memPools'[q].blockPtr]))
    <3>1. CASE q = f
      BY <3>1, <1>2
    <3>2. CASE q # f
      BY <3>2, <1>5 DEF Safe, CountExact
    <3> QED BY <3>1, <3>2
  <2> QED BY <2>1 DEF CountExact
<1>9. LiveInHeap'
  BY <1>1 DEF LiveInHeap
<1>10. LiveDisjoint'
  <2>1. \A b, c \in live : b # c => b.reg # c.reg \/ Blocks(b) \cap Blocks(c) = {}
    BY DEF Safe, LiveDisjoint
  <2>2. \A b \in live, c \in held : b.reg # c.reg
    BY <1>1
  <2> QED BY <2>1, <2>2 DEF LiveDisjoint
<1>11. TypeOK'
  <2>1. firstFreePool' \in PoolIdx \cup {UINT32_MAX}
        /\ (nAllocPools + 1 = MaxPools => firstFreePool' = UINT32_MAX)
    BY <1>1, <1>f, NextFreePoolType
  <2>2. nAllocPools \in 0 .. MaxPools /\ nAllocPools # MaxPools
    BY DEF Safe, TypeOK
  <2>3. nAllocPools' \in 0 .. MaxPools
    BY <2>2, PoolAssumption
  <2>4. heap' \subseteq Regions /\ \A a \in live' : IsAllocation(a)
    BY <1>1
  <2>5. lockHeld' \in BOOLEAN /\ up' \in BOOLEAN
    BY DEF Safe, TypeOK
  <2> QED BY <1>2, <2>1, <2>3, <2>4, <2>5 DEF TypeOK
<1>12. UsedCounted'
  <2>u. PICK U : U = Used
    OBVIOUS
  <2>1. IsFiniteSet(U) /\ Cardinality(U) \in Nat /\ Cardinality(U) <= nAllocPools
    BY <2>u, UsedFinite DEF Safe, UsedCounted
  <2>2. Used' = U \cup {f}
    BY <2>u, <1>1, <1>2 DEF Used
  <2>3. Cardinality(U \cup {f}) \in Nat /\ Cardinality(U \cup {f}) <= Cardinality(U) + 1
    <3>1. /\ IsFiniteSet(U \cup {f})
          /\ Cardinality(U \cup {f}) = IF f \in U THEN Cardinality(U) ELSE Cardinality(U) + 1
      BY <2>1, FS_AddElement
    <3> QED BY <2>1, <3>1
  <2>4. nAllocPools \in Nat
    BY PoolAssumption DEF Safe, TypeOK
  <2> QED BY <2>1, <2>2, <2>3, <2>4 DEF UsedCounted
<1> QED BY <1>6, <1>7, <1>8, <1>9, <1>10, <1>11, <1>12 DEF Safe

(* A pool whose headers are all unmarked.                                  *)
LEMMA FreshPool ==
  ASSUME NEW size \in BlockSizes, NEW count \in ReserveCounts \cup {DefBlockCount},
         NEW r \in Regions
  PROVE  LET pool == NewPool(count, size, r)
             hd   == NewHeads(count, size)
         IN  /\ pool \in Pool /\ pool.blockPtr = r /\ pool.blockSize = size
             /\ size \in Nat /\ size > 0
             /\ pool.blockCount \in Nat /\ pool.blockCount >= count
             /\ pool.nAllocBlocks = 0
             /\ hd \in [0 .. (pool.blockCount - 1) -> Head]
             /\ \A k \in 0 .. (pool.blockCount - 1) : hd[k].flags = {}
             /\ Describes(pool, hd, {})
             /\ Cardinality(Marked(pool, hd)) = 0
<1> DEFINE c    == AdjustedBlockCount(count, size)
           pool == NewPool(count, size, r)
           hd   == NewHeads(count, size)
<1>1. c \in Nat /\ c >= count
  BY MetricsAssumption
<1>2. size \in Nat /\ size > 0
  BY PoolAssumption
<1>3. FreeHead \in Head /\ FreeHead.flags = {}
  BY DEF FreeHead, Head
<1> HIDE DEF c
<1>4. pool = [blockSize |-> size, blockCount |-> c, nAllocBlocks |-> 0,
              fFreeInd |-> 0, blockPtr |-> r]
  BY DEF NewPool, c
<1>5. hd = [k \in 0 .. (c - 1) |-> FreeHead]
  BY DEF NewHeads, c
<1> HIDE DEF pool, hd
<1>6. pool \in Pool /\ pool.blockPtr = r /\ pool.blockSize = size
      /\ pool.blockCount = c /\ pool.nAllocBlocks = 0
  BY <1>1, <1>2, <1>4 DEF Pool
<1>7. hd \in [0 .. (c - 1) -> Head] /\ \A k \in 0 .. (c - 1) : hd[k] = FreeHead
  BY <1>3, <1>5
<1>8. Describes(pool, hd, {})
  BY <1>6, <1>7 DEF Describes
<1>9. Marked(pool, hd) = {}
  BY <1>3, <1>6, <1>7 DEF Marked
<1>10. Cardinality(Marked(pool, hd)) = 0
  BY <1>9, FS_EmptySet
<1> QED BY <1>1, <1>2, <1>3, <1>6, <1>7, <1>8, <1>10 DEF pool, hd

LEMMA ReservePoolSafe ==
  ASSUME Safe, NEW size \in BlockSizes, NEW count \in ReserveCounts, NEW r \in Regions,
         ReservePool(size, count, r)
  PROVE  Safe'
<1>p. PICK pool : pool = NewPool(count, size, r)
  OBVIOUS
<1>h. PICK hd : hd = NewHeads(count, size)
  OBVIOUS
<1>1. /\ pool \in Pool /\ pool.blockPtr = r /\ pool.blockSize # 0
      /\ hd \in [0 .. (pool.blockCount - 1) -> Head]
      /\ Describes(pool, hd, {})
      /\ pool.nAllocBlocks = Cardinality(Marked(pool, hd))
  BY <1>p, <1>h, FreshPool
<1>2. /\ up /\ up' = up /\ lockHeld' = lockHeld
      /\ firstFreePool # UINT32_MAX /\ r \notin heap
      /\ heads' = [heads EXCEPT ![r] = hd]
      /\ memPools' = [memPools EXCEPT ![firstFreePool] = pool]
      /\ firstFreePool' = NextFreePool(memPools')
      /\ nAllocPools' = nAllocPools + 1
      /\ heap' = heap \cup {r}
      /\ live' = live \cup {}
  BY <1>p, <1>h DEF ReservePool
<1>e. PICK held : held = {}
  OBVIOUS
<1>3. /\ \A a \in held : IsAllocation(a) /\ a.reg = r
      /\ \A a, b \in held : a = b
      /\ Describes(pool, hd, held) /\ live' = live \cup held
  BY <1>1, <1>2, <1>e
<1> QED BY <1>1, <1>2, <1>3, PlacePool

LEMMA AllocInNewPoolSafe ==
  ASSUME Safe, NEW size \in BlockSizes, NEW n \in 1 .. MaxRequest, NEW r \in Regions,
         AllocInNewPool(size, n, r)
  PROVE  Safe'
<1>o. PICK pool : pool = NewPool(DefBlockCount, size, r)
  OBVIOUS
<1>h. PICK hd : hd = NewHeads(DefBlockCount, size)
  OBVIOUS
<1>g. PICK hd2 : hd2 = MarkBlocks(hd, 0, n)
  OBVIOUS
<1>q. PICK pool2 : pool2 = TakeBlocks(pool, hd2, 0, n)
  OBVIOUS
<1>a. PICK a : a = [reg |-> r, idx |-> 0, n |-> n, size |-> size]
  OBVIOUS
<1>1. /\ pool \in Pool /\ pool.blockPtr = r /\ pool.blockSize = size
      /\ size \in Nat /\ size > 0
      /\ pool.blockCount \in Nat /\ pool.blockCount >= DefBlockCount
      /\ pool.nAllocBlocks = 0
      /\ hd \in [0 .. (pool.blockCount - 1) -> Head]
      /\ \A k \in 0 .. (pool.blockCount - 1) : hd[k].flags = {}
      /\ Describes(pool, hd, {})
      /\ Cardinality(Marked(pool, hd)) = 0
  <2>1. DefBlockCount \in ReserveCounts \cup {DefBlockCount}
    OBVIOUS
  <2> QED BY <1>o, <1>h, <2>1, FreshPool
<1>2. n \in Nat /\ n > 0 /\ n <= pool.blockCount
  BY <1>1, PoolAssumption, RequestAssumption
<1>3. /\ a.reg = r /\ a.idx = 0 /\ a.n = n /\ a.size = size /\ IsAllocation(a)
  BY <1>1, <1>2, <1>a DEF IsAllocation
<1>4. a.idx + a.n <= pool.blockCount /\ \A k \in Blocks(a) : hd[k].flags = {}
  BY <1>1, <1>2, <1>3 DEF Blocks
<1>5. pool2 \in Pool /\ pool2.blockSize = pool.blockSize
      /\ pool2.blockCount = pool.blockCount /\ pool2.blockPtr = r
      /\ pool2.nAllocBlocks = pool.nAllocBlocks + n
  BY <1>1, <1>2, <1>q, TakeBlocksType
<1>6. hd2 = MarkBlocks(hd, a.idx, a.n) /\ a.size = pool.blockSize
  BY <1>g, <1>1, <1>3
<1>7. \A b \in {} : IsAllocation(b)
  OBVIOUS
<1>8. /\ hd2 \in [0 .. (pool.blockCount - 1) -> Head]
      /\ Describes(pool2, hd2, {} \cup {a})
  BY <1>1, <1>3, <1>4, <1>5, <1>6, <1>7, MarkDescribes
<1>9. Cardinality(Marked(pool2, hd2)) = pool2.nAllocBlocks
  <2>1. Cardinality(Marked(pool2, hd2)) = Cardinality(Marked(pool, hd)) + a.n
    BY <1>1, <1>3, <1>4, <1>5, <1>6, <1>7, MarkCounts
  <2> QED BY <2>1, <1>1, <1>3, <1>5
<1>10. /\ up /\ up' = up /\ lockHeld' = lockHeld
       /\ firstFreePool # UINT32_MAX /\ r \notin heap
       /\ heads' = [heads EXCEPT ![r] = hd2]
       /\ memPools' = [memPools EXCEPT ![firstFreePool] = pool2]
       /\ firstFreePool' = NextFreePool(memPools')
       /\ nAllocPools' = nAllocPools + 1
       /\ heap' = heap \cup {r}
       /\ live' = live \cup {a}
  BY <1>o, <1>h, <1>g, <1>q, <1>a DEF AllocInNewPool
<1>11. Describes(pool2, hd2, {a}) /\ pool2.blockSize # 0
       /\ hd2 \in [0 .. (pool2.blockCount - 1) -> Head]
  <2>1. {} \cup {a} = {a}
    OBVIOUS
  <2> QED BY <2>1, <1>8, <1>5, <1>1
<1>12. /\ \A b \in {a} : IsAllocation(b) /\ b.reg = r
       /\ \A b, c \in {a} : b = c
  BY <1>3
<1> QED BY <1>5, <1>9, <1>10, <1>11, <1>12, PlacePool

(***************************************************************************)
(* NkPoolFree.                                                             *)
(***************************************************************************)

(* A pool found by LocateBlock is one of the table and holds the address.  *)
LEMMA LocateFinds ==
  ASSUME NEW r, LocateBlock(r) # UINT32_MAX
  PROVE  /\ LocateBlock(r) \in Used /\ memPools[LocateBlock(r)].blockPtr = r
         /\ LocateBlock(r) \in Scanned
<1> DEFINE S == {p \in Scanned : IsInsidePool(r, p)}
<1>1. S \subseteq Nat
  BY DEF Scanned, Used, PoolIdx
<1>2. LocateBlock(r) = IF S = {} THEN UINT32_MAX ELSE First(S)
  BY DEF LocateBlock
<1>3. LocateBlock(r) \in S
  <2> HIDE DEF S
  <2> QED BY <1>1, <1>2, FirstIsMember
<1> QED BY <1>3 DEF Scanned, IsInsidePool

(* An address LocateBlock does not find lies in no pool of the table.      *)
LEMMA LocateMisses ==
  ASSUME Safe, NEW r, LocateBlock(r) = UINT32_MAX
  PROVE  ~InTable(r)
<1> SUFFICES ASSUME NEW p \in Used, memPools[p].blockPtr = r PROVE FALSE
  BY DEF InTable
<1>s. PICK S : S = {q \in Scanned : IsInsidePool(r, q)}
  OBVIOUS
<1>1. p \in S
  <2>1. Scanned = Used
    BY ScansReachAll, PoolAssumption DEF Safe, TypeOK
  <2> QED BY <2>1, <1>s DEF IsInsidePool
<1>2. S \subseteq Nat
  BY <1>s DEF Scanned, Used, PoolIdx
<1>3. First(S) \in S
  BY <1>1, <1>2, FirstIsMember
<1>4. First(S) \in PoolIdx
  BY <1>3, <1>s DEF Scanned, Used
<1>5. LocateBlock(r) = First(S)
  BY <1>1, <1>s DEF LocateBlock
<1> QED BY <1>4, <1>5, PoolAssumption DEF PoolIdx

(* Giving blocks back changes the counter and the first free index only.   *)
LEMMA GiveBlocksType ==
  ASSUME NEW pool \in Pool, NEW idx \in Nat, NEW n \in Nat, n <= pool.nAllocBlocks
  PROVE  /\ GiveBlocks(pool, idx, n) \in Pool
         /\ GiveBlocks(pool, idx, n).blockSize = pool.blockSize
         /\ GiveBlocks(pool, idx, n).blockCount = pool.blockCount
         /\ GiveBlocks(pool, idx, n).blockPtr = pool.blockPtr
         /\ GiveBlocks(pool, idx, n).nAllocBlocks = pool.nAllocBlocks - n
<1> DEFINE p1 == [pool EXCEPT !.nAllocBlocks = pool.nAllocBlocks - n]
           p2 == [p1 EXCEPT !.fFreeInd = IF pool.fFreeInd > idx THEN idx ELSE pool.fFreeInd]
<1>1. GiveBlocks(pool, idx, n) = p2
  BY DEF GiveBlocks, Pool
<1>2. pool.nAllocBlocks - n \in Nat /\ pool.fFreeInd \in Nat
  BY DEF Pool
<1>3. /\ p1 \in Pool /\ p1.nAllocBlocks = pool.nAllocBlocks - n
      /\ p1.blockSize = pool.blockSize /\ p1.blockCount = pool.blockCount
      /\ p1.blockPtr = pool.blockPtr /\ p1.fFreeInd = pool.fFreeInd
  BY <1>2 DEF Pool
<1> HIDE DEF p1
<1>4. /\ p2 \in Pool /\ p2.nAllocBlocks = p1.nAllocBlocks
      /\ p2.blockSize = p1.blockSize /\ p2.blockCount = p1.blockCount
      /\ p2.blockPtr = p1.blockPtr
  BY <1>2, <1>3 DEF Pool
<1> QED BY <1>1, <1>3, <1>4

(* Removing an allocation from live leaves the others disjoint and typed.  *)
LEMMA RemoveLive ==
  ASSUME Safe, NEW a, live' = live \ {a}
  PROVE  /\ LiveDisjoint' /\ \A b \in live' : IsAllocation(b) /\ b.reg \in heap
         /\ \A r : HeldIn(r, live') = HeldIn(r, live) \ {a}
<1>1. LiveDisjoint'
  BY DEF Safe, LiveDisjoint
<1>2. \A b \in live' : IsAllocation(b) /\ b.reg \in heap
  BY DEF Safe, TypeOK, LiveInHeap
<1> QED BY <1>1, <1>2 DEF HeldIn

(* An address no pool holds: the table is left alone, and since every pool *)
(* was scanned no pool described the allocation.                           *)
LEMMA FreeUnknownSafe ==
  ASSUME Safe, NEW a \in live, FreeUnknown(a)
  PROVE  Safe'
<1>1. /\ up /\ LocateBlock(a.reg) = UINT32_MAX /\ live' = live \ {a}
      /\ UNCHANGED <<nAllocPools, firstFreePool, memPools, heads, heap, lockHeld, up>>
  BY DEF FreeUnknown
<1>3. \A p \in Used : memPools[p].blockPtr # a.reg
  BY <1>1, LocateMisses DEF InTable
<1>4. /\ LiveDisjoint' /\ \A b \in live' : IsAllocation(b) /\ b.reg \in heap
      /\ \A r : HeldIn(r, live') = HeldIn(r, live) \ {a}
  BY <1>1, RemoveLive
<1>5. Used' = Used
  BY <1>1 DEF Used
<1>6. HeadersExact'
  <2>1. ASSUME NEW p \in Used
        PROVE  Describes(memPools[p], heads[memPools[p].blockPtr],
                         HeldIn(memPools[p].blockPtr, live'))
    <3>1. HeldIn(memPools[p].blockPtr, live') = HeldIn(memPools[p].blockPtr, live)
      BY <1>3, <1>4 DEF HeldIn
    <3> QED BY <1>1, <3>1, PoolFacts
  <2> QED BY <1>1, <1>5, <2>1 DEF HeadersExact
<1>7. TypeOK' /\ LiveInHeap'
  BY <1>1, <1>4 DEF Safe, TypeOK, LiveInHeap
<1>8. TableRegions' /\ UsedCounted'
  BY <1>1, <1>5 DEF Safe, TableRegions, UsedCounted
<1>9. CountExact'
  BY <1>1, <1>5 DEF Safe, CountExact
<1> QED BY <1>4, <1>6, <1>7, <1>8, <1>9 DEF Safe

(* The slot NkPoolFree leaves as the next one is one of the table.         *)
LEMMA FreePoolAfterFreeType ==
  ASSUME TypeOK, NEW p \in PoolIdx
  PROVE  FreePoolAfterFree(p) \in PoolIdx \cup {UINT32_MAX}
<1> DEFINE S == {q \in PoolIdx : q >= p /\ memPools[q].blockSize = 0}
<1>1. S \subseteq 0 .. (MaxPools - 1) /\ MaxPools - 1 \in Nat /\ S \subseteq PoolIdx
  BY PoolAssumption DEF PoolIdx
<1>2. FreePoolAfterFree(p) = IF S = {} THEN firstFreePool
                             ELSE CHOOSE q \in S : \A s \in S : s <= q
  BY DEF FreePoolAfterFree
<1> HIDE DEF S
<1>3. S # {} => \E q \in S : \A s \in S : s <= q
  BY <1>1, MaxExists
<1>4. S # {} => FreePoolAfterFree(p) \in S
  BY <1>2, <1>3
<1> QED BY <1>1, <1>2, <1>4 DEF TypeOK

(* Freeing one of several allocations of a pool.                           *)
LEMMA FreeSomeSafe ==
  ASSUME Safe, up, up' = up, NEW a \in live, NEW p \in Used,
         memPools[p].blockPtr = a.reg,
         memPools[p].nAllocBlocks - a.n > 0,
         heads' = [heads EXCEPT ![a.reg] = ClearBlocks(heads[a.reg], a.idx, a.n)],
         memPools' = [memPools EXCEPT ![p] = GiveBlocks(memPools[p], a.idx, a.n)],
         live' = live \ {a},
         UNCHANGED <<nAllocPools, firstFreePool, heap, lockHeld>>
  PROVE  Safe'
<1>o. PICK pool : pool = memPools[p]
  OBVIOUS
<1>h. PICK hd : hd = heads[a.reg]
  OBVIOUS
<1>q. PICK pool2 : pool2 = GiveBlocks(pool, a.idx, a.n)
  OBVIOUS
<1>g. PICK hd2 : hd2 = ClearBlocks(hd, a.idx, a.n)
  OBVIOUS
<1>e. PICK held : held = HeldIn(a.reg, live)
  OBVIOUS
<1>1. /\ p \in PoolIdx /\ pool \in Pool /\ pool.blockPtr = a.reg
      /\ hd \in [0 .. (pool.blockCount - 1) -> Head]
      /\ Describes(pool, hd, held)
      /\ pool.nAllocBlocks = Cardinality(Marked(pool, hd))
      /\ \A b \in held : IsAllocation(b)
  BY <1>o, <1>h, <1>e, PoolFacts
<1>2. a \in held /\ Apart(a, held)
  BY <1>e DEF Safe, LiveDisjoint, HeldIn, Apart
<1>3. a.idx \in Nat /\ a.n \in Nat /\ a.n <= pool.nAllocBlocks
  BY <1>1, <1>2, <1>o DEF IsAllocation, Pool
<1>4. /\ pool2 \in Pool /\ pool2.blockSize = pool.blockSize
      /\ pool2.blockCount = pool.blockCount /\ pool2.blockPtr = a.reg
      /\ pool2.nAllocBlocks = pool.nAllocBlocks - a.n
  BY <1>1, <1>3, <1>q, GiveBlocksType
<1>5. /\ hd2 \in [0 .. (pool.blockCount - 1) -> Head]
      /\ Describes(pool2, hd2, held \ {a})
      /\ Cardinality(Marked(pool2, hd2)) = Cardinality(Marked(pool, hd)) - a.n
  <2>1. /\ ClearBlocks(hd, a.idx, a.n) \in [0 .. (pool.blockCount - 1) -> Head]
        /\ Describes(pool2, ClearBlocks(hd, a.idx, a.n), held \ {a})
        /\ Cardinality(Marked(pool2, ClearBlocks(hd, a.idx, a.n)))
             = Cardinality(Marked(pool, hd)) - a.n
    BY <1>1, <1>2, <1>4, ClearDescribes
  <2> QED BY <2>1, <1>g
<1>6. /\ LiveDisjoint' /\ \A b \in live' : IsAllocation(b) /\ b.reg \in heap
      /\ \A r : HeldIn(r, live') = HeldIn(r, live) \ {a}
  BY RemoveLive
<1>7. \A r \in Regions : r # pool2.blockPtr => HeldIn(r, live') = HeldIn(r, live)
  BY <1>4, <1>6 DEF HeldIn
<1>8. /\ memPools' \in [PoolIdx -> Pool] /\ DOMAIN heads' = Regions
      /\ TableRegions' /\ HeadersExact' /\ CountExact' /\ Used' = Used
  <2>1. /\ pool2.blockSize = memPools[p].blockSize
        /\ pool2.blockCount = memPools[p].blockCount
        /\ pool2.blockPtr = memPools[p].blockPtr
        /\ hd2 \in [0 .. (pool2.blockCount - 1) -> Head]
        /\ memPools' = [memPools EXCEPT ![p] = pool2]
        /\ heads' = [heads EXCEPT ![pool2.blockPtr] = hd2]
        /\ heap' = heap
        /\ Describes(pool2, hd2, HeldIn(pool2.blockPtr, live'))
        /\ pool2.nAllocBlocks = Cardinality(Marked(pool2, hd2))
    BY <1>1, <1>4, <1>5, <1>6, <1>o, <1>h, <1>q, <1>g, <1>e
  <2> QED BY <1>4, <1>7, <2>1, UpdatePool
<1>9. TypeOK' /\ LiveInHeap' /\ UsedCounted'
  BY <1>6, <1>8 DEF Safe, TypeOK, LiveInHeap, UsedCounted
<1> QED BY <1>6, <1>8, <1>9 DEF Safe

(* Freeing the only allocation of a pool gives its region back.            *)
LEMMA FreeLastSafe ==
  ASSUME Safe, up, up' = up, NEW a \in live, NEW p \in Used,
         memPools[p].blockPtr = a.reg,
         ~(memPools[p].nAllocBlocks - a.n > 0),
         heads' = [heads EXCEPT ![a.reg] = <<>>],
         memPools' = [memPools EXCEPT ![p] = EmptyPool],
         firstFreePool' = FreePoolAfterFree(p),
         nAllocPools' = nAllocPools - 1,
         heap' = heap \ {a.reg},
         live' = live \ {a},
         lockHeld' = lockHeld
  PROVE  Safe'
<1>o. PICK pool : pool = memPools[p]
  OBVIOUS
<1>h. PICK hd : hd = heads[a.reg]
  OBVIOUS
<1>e. PICK held : held = HeldIn(a.reg, live)
  OBVIOUS
<1>1. /\ p \in PoolIdx /\ pool \in Pool /\ pool.blockPtr = a.reg
      /\ hd \in [0 .. (pool.blockCount - 1) -> Head]
      /\ Describes(pool, hd, held)
      /\ pool.nAllocBlocks = Cardinality(Marked(pool, hd))
      /\ \A b \in held : IsAllocation(b)
  BY <1>o, <1>h, <1>e, PoolFacts
<1>2. a \in held /\ Apart(a, held)
  BY <1>e DEF Safe, LiveDisjoint, HeldIn, Apart
<1>3. held = {a}
  <2>g. PICK hd2 : hd2 = ClearBlocks(hd, a.idx, a.n)
    OBVIOUS
  <2>1. /\ Describes(pool, hd2, held \ {a})
        /\ Cardinality(Marked(pool, hd2)) = Cardinality(Marked(pool, hd)) - a.n
    <3>1. /\ Describes(pool, ClearBlocks(hd, a.idx, a.n), held \ {a})
          /\ Cardinality(Marked(pool, ClearBlocks(hd, a.idx, a.n)))
               = Cardinality(Marked(pool, hd)) - a.n
      BY <1>1, <1>2, ClearDescribes
    <3> QED BY <3>1, <2>g
  <2>2. IsFiniteSet(Marked(pool, hd2)) /\ Cardinality(Marked(pool, hd2)) \in Nat
    BY <1>1, MarkedFinite
  <2>3. Cardinality(Marked(pool, hd2)) = 0
    BY <1>1, <1>o, <2>1, <2>2
  <2>4. Marked(pool, hd2) = {}
    BY <2>2, <2>3, FS_EmptySet
  <2>5. \A b \in held \ {a} : IsAllocation(b)
    BY <1>1
  <2>6. \A b \in held \ {a} : Blocks(b) \subseteq Marked(pool, hd2) /\ Blocks(b) # {}
    BY <1>1, <2>1, <2>5, HeldIsMarked
  <2> QED BY <1>2, <2>4, <2>6
<1>4. /\ LiveDisjoint' /\ \A b \in live' : IsAllocation(b) /\ b.reg \in heap
      /\ \A r : HeldIn(r, live') = HeldIn(r, live) \ {a}
  BY RemoveLive
<1>5. \A b \in live' : b.reg # a.reg
  BY <1>3, <1>e DEF HeldIn
<1>6. /\ memPools \in [PoolIdx -> Pool] /\ DOMAIN heads = Regions
      /\ heap \subseteq Regions /\ a.reg \in Regions
      /\ nAllocPools \in 0 .. MaxPools /\ lockHeld \in BOOLEAN /\ up \in BOOLEAN
  BY <1>1, PoolFacts DEF Safe, TypeOK, LiveInHeap
<1>7. EmptyPool \in Pool /\ EmptyPool.blockSize = 0
  BY DEF EmptyPool, Pool
<1>8. /\ memPools' \in [PoolIdx -> Pool] /\ DOMAIN heads' = Regions
      /\ memPools'[p].blockSize = 0
      /\ \A q \in PoolIdx : q # p => memPools'[q] = memPools[q]
      /\ \A x \in Regions : x # a.reg => heads'[x] = heads[x]
  BY <1>1, <1>6, <1>7
<1>9. Used' = Used \ {p}
  BY <1>8 DEF Used
<1>10. ASSUME NEW q \in Used'
       PROVE  /\ q \in Used /\ memPools'[q] = memPools[q]
              /\ memPools[q].blockPtr \in heap'
              /\ heads'[memPools[q].blockPtr] = heads[memPools[q].blockPtr]
              /\ HeldIn(memPools[q].blockPtr, live') = HeldIn(memPools[q].blockPtr, live)
  <2>1. q \in Used /\ q # p /\ q \in PoolIdx
    BY <1>9 DEF Used
  <2>2. memPools[q].blockPtr \in heap /\ memPools[q].blockPtr \in Regions
    BY <2>1, PoolFacts
  <2>3. memPools[q].blockPtr # a.reg
    BY <2>1 DEF Safe, TableRegions
  <2>4. HeldIn(memPools[q].blockPtr, live') = HeldIn(memPools[q].blockPtr, live)
    BY <1>4, <2>3 DEF HeldIn
  <2> QED BY <2>1, <2>2, <2>3, <2>4, <1>8
<1>11. TableRegions'
  <2>1. ASSUME NEW q \in Used'
        PROVE  /\ memPools'[q].blockPtr \in heap'
               /\ heads'[memPools'[q].blockPtr]
                    \in [0 .. (memPools'[q].blockCount - 1) -> Head]
    <3>1. q \in Used
      BY <1>10
    <3> QED BY <1>10, <3>1, PoolFacts
  <2>2. ASSUME NEW q \in Used', NEW s \in Used', memPools'[s].blockPtr = memPools'[q].blockPtr
        PROVE  s = q
    <3>1. q \in Used /\ s \in Used /\ memPools[s].blockPtr = memPools[q].blockPtr
      BY <2>2, <1>10
    <3> QED BY <3>1 DEF Safe, TableRegions
  <2> QED BY <2>1, <2>2 DEF TableRegions
<1>12. HeadersExact'
  <2>1. ASSUME NEW q \in Used'
        PROVE  Describes(memPools'[q], heads'[memPools'[q].blockPtr],
                         HeldIn(memPools'[q].blockPtr, live'))
    <3>1. q \in Used
      BY <1>10
    <3>2. Describes(memPools[q], heads[memPools[q].blockPtr],
                    HeldIn(memPools[q].blockPtr, live))
      BY <3>1, PoolFacts
    <3> QED BY <3>2, <1>10
  <2> QED BY <2>1 DEF HeadersExact
<1>13. CountExact'
  <2>1. ASSUME NEW q \in Used'
        PROVE  memPools'[q].nAllocBlocks
                 = Cardinality(Marked(memPools'[q], heads'[memPools'[q].blockPtr]))
    BY <1>10 DEF Safe, CountExact
  <2> QED BY <2>1 DEF CountExact
<1>14. LiveInHeap'
  BY <1>4, <1>5 DEF LiveInHeap
<1>15. UsedCounted' /\ nAllocPools - 1 \in 0 .. MaxPools /\ nAllocPools - 1 # MaxPools
  <2>u. PICK U : U = Used
    OBVIOUS
  <2>1. IsFiniteSet(U) /\ Cardinality(U) \in Nat /\ Cardinality(U) <= nAllocPools /\ p \in U
    BY <2>u, UsedFinite DEF Safe, UsedCounted
  <2>2. Cardinality(U \ {p}) \in Nat /\ Cardinality(U \ {p}) = Cardinality(U) - 1
    <3>1. IsFiniteSet(U \ {p}) /\ Cardinality(U \ {p}) = Cardinality(U) - 1
      BY <2>1, FS_RemoveElement
    <3> QED BY <3>1, FS_CardinalityType
  <2>3. nAllocPools - 1 \in 0 .. MaxPools /\ nAllocPools - 1 # MaxPools
    BY <1>6, <2>1, <2>2, PoolAssumption
  <2>4. Used' = U \ {p}
    BY <2>u, <1>9
  <2>5. nAllocPools \in Nat
    BY <1>6, PoolAssumption
  <2> QED BY <2>1, <2>2, <2>3, <2>4, <2>5 DEF UsedCounted
<1>16. TypeOK'
  <2>1. firstFreePool' \in PoolIdx \cup {UINT32_MAX}
    BY <1>1, FreePoolAfterFreeType DEF Safe
  <2> QED BY <2>1, <1>4, <1>6, <1>8, <1>15 DEF TypeOK
<1> QED BY <1>4, <1>11, <1>12, <1>13, <1>14, <1>15, <1>16 DEF Safe

LEMMA FreeKnownSafe ==
  ASSUME Safe, NEW a \in live, FreeKnown(a)
  PROVE  Safe'
<1>p. PICK p : p = LocateBlock(a.reg)
  OBVIOUS
<1>1. up /\ up' = up /\ lockHeld' = lockHeld /\ live' = live \ {a}
      /\ p \in Used /\ memPools[p].blockPtr = a.reg
  BY <1>p, LocateFinds DEF FreeKnown
<1>h. PICK hd : hd = heads[a.reg]
  OBVIOUS
<1>2. GetHeaderForBlock(hd, a.idx) = a.idx /\ BlocksOf(hd[a.idx]) = a.n
  <2>1. a \in HeldIn(a.reg, live)
    BY DEF HeldIn
  <2>2. /\ memPools[p] \in Pool /\ Describes(memPools[p], hd, HeldIn(a.reg, live))
        /\ \A b \in HeldIn(a.reg, live) : IsAllocation(b)
    BY <1>1, <1>h, PoolFacts
  <2> QED BY <2>1, <2>2, HeaderFound
<1>3. IF memPools[p].nAllocBlocks - a.n > 0
      THEN /\ heads' = [heads EXCEPT ![a.reg] = ClearBlocks(@, a.idx, a.n)]
           /\ memPools' = [memPools EXCEPT ![p] = GiveBlocks(@, a.idx, a.n)]
           /\ UNCHANGED <<nAllocPools, firstFreePool, heap>>
      ELSE /\ heads' = [heads EXCEPT ![a.reg] = <<>>]
           /\ memPools' = [memPools EXCEPT ![p] = EmptyPool]
           /\ firstFreePool' = FreePoolAfterFree(p)
           /\ nAllocPools' = nAllocPools - 1
           /\ heap' = heap \ {a.reg}
  BY <1>p, <1>h, <1>2 DEF FreeKnown
<1>4. CASE memPools[p].nAllocBlocks - a.n > 0
  BY <1>1, <1>3, <1>4, FreeSomeSafe
<1>5. CASE ~(memPools[p].nAllocBlocks - a.n > 0)
  BY <1>1, <1>3, <1>5, FreeLastSafe
<1> QED BY <1>4, <1>5

(* A size query changes at most the lock.                                  *)
LEMMA QuerySizeSafe ==
  ASSUME Safe, NEW a \in live, QuerySize(a)
  PROVE  Safe'
<1>1. /\ UNCHANGED <<nAllocPools, firstFreePool, memPools, heads, heap, up, live>>
      /\ lockHeld' \in BOOLEAN
  BY DEF QuerySize
<1>2. Used' = Used
  BY <1>1 DEF Used
<1>3. TypeOK' /\ LiveDisjoint' /\ LiveInHeap' /\ UsedCounted'
  BY <1>1, <1>2 DEF Safe, TypeOK, LiveDisjoint, LiveInHeap, UsedCounted
<1>4. TableRegions' /\ CountExact'
  BY <1>1, <1>2 DEF Safe, TableRegions, CountExact
<1>5. HeadersExact'
  BY <1>1, <1>2 DEF Safe, HeadersExact
<1> QED BY <1>3, <1>4, <1>5 DEF Safe

(* After the shutdown callback nothing is handed out any more.             *)
LEMMA ShutdownSafe ==
  ASSUME Safe, Shutdown
  PROVE  Safe'
<1>1. /\ up' = FALSE /\ live' = {} /\ heap' \subseteq heap
      /\ UNCHANGED <<nAllocPools, firstFreePool, memPools, heads, lockHeld>>
  BY DEF Shutdown
<1>2. Used' = Used
  BY <1>1 DEF Used
<1>3. TypeOK'
  BY <1>1 DEF Safe, TypeOK
<1>4. LiveDisjoint' /\ LiveInHeap' /\ UsedCounted'
  BY <1>1, <1>2 DEF Safe, LiveDisjoint, LiveInHeap, UsedCounted
<1>5. TableRegions' /\ HeadersExact' /\ CountExact'
  BY <1>1 DEF TableRegions, HeadersExact, CountExact
<1> QED BY <1>3, <1>4, <1>5 DEF Safe

LEMMA StutterSafe ==
  ASSUME Safe, UNCHANGED vars
  PROVE  Safe'
<1>1. /\ UNCHANGED <<nAllocPools, firstFreePool, memPools, heads, heap, up, live, lockHeld>>
  BY DEF vars
<1>2. Used' = Used
  BY <1>1 DEF Used
<1>3. TypeOK' /\ LiveDisjoint' /\ LiveInHeap' /\ UsedCounted'
  BY <1>1, <1>2 DEF Safe, TypeOK, LiveDisjoint, LiveInHeap, UsedCounted
<1>4. TableRegions' /\ CountExact'
  BY <1>1, <1>2 DEF Safe, TableRegions, CountExact
<1>5. HeadersExact'
  BY <1>1, <1>2 DEF Safe, HeadersExact
<1> QED BY <1>3, <1>4, <1>5 DEF Safe

(* Every operation of the allocator keeps the invariant.                   *)
LEMMA SafeStep == Safe /\ [Next]_vars => Safe'
<1> SUFFICES ASSUME Safe, [Next]_vars PROVE Safe'
  OBVIOUS
<1>1. ASSUME NEW size \in BlockSizes, NEW n \in 1 .. MaxRequest, NkPoolAlloc(size, n)
      PROVE  Safe'
  <2>1. CASE AllocInPool(size, n)
    BY <2>1, AllocInPoolSafe
  <2>2. CASE \E r \in Regions : AllocInNewPool(size, n, r)
    BY <2>2, AllocInNewPoolSafe
  <2>3. CASE AllocFails(size, n)
    BY <2>3, StutterSafe DEF AllocFails
  <2> QED BY <1>1, <2>1, <2>2, <2>3 DEF NkPoolAlloc
<1>2. ASSUME NEW size \in BlockSizes, NEW count \in ReserveCounts,
             NkPoolReserve(size, count)
      PROVE  Safe'
  <2>1. CASE ReserveFails
    BY <2>1, StutterSafe DEF ReserveFails
  <2>2. CASE \E r \in Regions : ReservePool(size, count, r)
    BY <2>2, ReservePoolSafe
  <2> QED BY <1>2, <2>1, <2>2 DEF NkPoolReserve
<1>3. ASSUME NEW a \in live, NkPoolFree(a)
      PROVE  Safe'
  BY <1>3, FreeUnknownSafe, FreeKnownSafe DEF NkPoolFree
<1>4. ASSUME NEW a \in live, QuerySize(a)
      PROVE  Safe'
  BY <1>4, QuerySizeSafe
<1>5. CASE Shutdown
  BY <1>5, ShutdownSafe
<1>6. CASE UNCHANGED vars
  BY <1>6, StutterSafe
<1> QED BY <1>1, <1>2, <1>3, <1>4, <1>5, <1>6 DEF Next

(***************************************************************************)
(* The first free index of a pool.                                         *)
(***************************************************************************)

(* f is the lowest unmarked index, or the "no index" value when all blocks *)
(* are marked.                                                             *)
LowestFree(f, hd, count) ==
  \/ f = UINT32_MAX /\ \A k \in 0 .. (count - 1) : hd[k].flags # {}
  \/ /\ f \in 0 .. (count - 1) /\ hd[f].flags = {}
     /\ \A k \in 0 .. (f - 1) : hd[k].flags # {}

(* An index fits below the "no index" value, so NkPoolFree always lowers   *)
(* the index of a full pool.                                               *)
FreeIndexed ==
  up => \A p \in Used :
    /\ memPools[p].blockCount <= UINT32_MAX
    /\ LowestFree(memPools[p].fFreeInd, heads[memPools[p].blockPtr], memPools[p].blockCount)

(* The scan from an index below which all is marked finds the lowest.      *)
LEMMA FirstFreeLowest ==
  ASSUME NEW hd, NEW from \in Nat, NEW count \in Nat,
         \A k \in 0 .. (from - 1) : k < count => hd[k].flags # {}
  PROVE  LowestFree(FirstFree(hd, from, count), hd, count)
<1>s. PICK S : S = {k \in from .. (count - 1) : hd[k].flags = {}}
  OBVIOUS
<1>f. PICK f : f = FirstFree(hd, from, count)
  OBVIOUS
<1>1. f = IF S = {} THEN UINT32_MAX ELSE First(S)
  BY <1>s, <1>f DEF FirstFree
<1>2. CASE S = {}
  <2>1. \A k \in 0 .. (count - 1) : hd[k].flags # {}
    BY <1>2, <1>s
  <2> QED BY <1>1, <1>2, <1>f, <2>1 DEF LowestFree
<1>3. CASE S # {}
  <2>1. S \subseteq Nat
    BY <1>s
  <2>2. f \in S /\ \A k \in S : f <= k
    BY <1>1, <1>3, <2>1, FirstIsMember
  <2>3. f \in 0 .. (count - 1) /\ hd[f].flags = {} /\ f >= from
    BY <1>s, <2>2
  <2>4. ASSUME NEW k \in 0 .. (f - 1), hd[k].flags = {} PROVE FALSE
    <3>1. k \in Nat /\ k < f /\ k < count
      BY <2>3
    <3>2. k >= from
      BY <2>4, <3>1
    <3>3. k \in S
      BY <1>s, <2>4, <3>1, <3>2
    <3> QED BY <2>2, <2>3, <3>1, <3>3
  <2> QED BY <1>f, <2>3, <2>4 DEF LowestFree
<1> QED BY <1>2, <1>3

(* There is one lowest index.                                              *)
LEMMA LowestIsFirst ==
  ASSUME NEW hd, NEW count \in Nat, count <= UINT32_MAX, NEW f,
         LowestFree(f, hd, count)
  PROVE  f = FirstFree(hd, 0, count)
<1>z. PICK z \in Nat : z = 0
  OBVIOUS
<1>g. PICK g : g = FirstFree(hd, z, count)
  OBVIOUS
<1>1. LowestFree(g, hd, count)
  BY <1>z, <1>g, FirstFreeLowest
<1>2. f = g
  BY <1>1, PoolAssumption DEF LowestFree
<1> QED BY <1>2, <1>z, <1>g

(* Marking a window that starts at the lowest free index.                  *)
LEMMA TakeKeepsLowest ==
  ASSUME NEW pool \in Pool, NEW hd \in [0 .. (pool.blockCount - 1) -> Head], NEW n \in Nat,
         NEW idx \in Nat, idx = pool.fFreeInd,
         LowestFree(idx, hd, pool.blockCount), idx < pool.blockCount,
         NEW hd2, hd2 = MarkBlocks(hd, idx, n)
  PROVE  LowestFree(TakeBlocks(pool, hd2, idx, n).fFreeInd, hd2, pool.blockCount)
<1>1. pool.blockCount \in Nat
  BY DEF Pool
<1>2. \A k \in 0 .. (idx - 1) : hd[k].flags # {}
  BY PoolAssumption, <1>1 DEF LowestFree
<1>3. \A k \in 0 .. (idx - 1) : k < pool.blockCount => hd2[k].flags # {}
  <2> SUFFICES ASSUME NEW k \in 0 .. (idx - 1), k < pool.blockCount PROVE hd2[k].flags # {}
    OBVIOUS
  <2>1. k \in DOMAIN hd /\ k \notin idx .. (idx + n - 1)
    BY <1>1
  <2>2. hd2[k] = hd[k]
    BY <2>1 DEF MarkBlocks
  <2> QED BY <1>2, <2>2
<1>f. PICK f : f = FirstFree(hd2, idx, pool.blockCount)
  OBVIOUS
<1>4. LowestFree(f, hd2, pool.blockCount)
  BY <1>1, <1>3, <1>f, FirstFreeLowest
<1>5. TakeBlocks(pool, hd2, idx, n)
        = [pool EXCEPT !.nAllocBlocks = @ + n, !.fFreeInd = f]
  BY <1>f DEF TakeBlocks, Pool
<1>6. TakeBlocks(pool, hd2, idx, n).fFreeInd = f
  BY <1>5 DEF Pool
<1> QED BY <1>4, <1>6

(* Clearing blocks and lowering the index.                                 *)
LEMMA GiveKeepsLowest ==
  ASSUME NEW pool \in Pool, NEW hd \in [0 .. (pool.blockCount - 1) -> Head],
         NEW idx \in Nat, NEW n \in Nat, n > 0, idx + n <= pool.blockCount,
         pool.blockCount <= UINT32_MAX,
         LowestFree(pool.fFreeInd, hd, pool.blockCount),
         NEW hd2, hd2 = ClearBlocks(hd, idx, n)
  PROVE  LowestFree(GiveBlocks(pool, idx, n).fFreeInd, hd2, pool.blockCount)
<1>f. PICK f : f = pool.fFreeInd
  OBVIOUS
<1>g. PICK g : g = IF f > idx THEN idx ELSE f
  OBVIOUS
<1>1. f \in Nat /\ pool.blockCount \in Nat /\ UINT32_MAX \in Nat
  BY <1>f, PoolAssumption DEF Pool
<1>2. GiveBlocks(pool, idx, n) = [pool EXCEPT !.nAllocBlocks = @ - n, !.fFreeInd = g]
  BY <1>f, <1>g DEF GiveBlocks, Pool
<1>3. GiveBlocks(pool, idx, n).fFreeInd = g
  BY <1>2 DEF Pool
<1>4. \A k \in 0 .. (pool.blockCount - 1) :
        hd2[k] = IF k \in idx .. (idx + n - 1) THEN FreeHead ELSE hd[k]
  BY DEF ClearBlocks
<1>5. FreeHead.flags = {}
  BY DEF FreeHead
<1>6. CASE f > idx
  <2>1. idx \in 0 .. (pool.blockCount - 1) /\ hd2[idx].flags = {}
    BY <1>1, <1>4, <1>5
  <2>2. \A k \in 0 .. (idx - 1) : hd[k].flags # {}
    BY <1>1, <1>6, <1>f DEF LowestFree
  <2>3. \A k \in 0 .. (idx - 1) : hd2[k].flags # {}
    BY <1>1, <1>4, <2>2
  <2> QED BY <1>3, <1>6, <1>g, <2>1, <2>3 DEF LowestFree
<1>7. CASE ~(f > idx)
  <2>1. f <= idx /\ f # UINT32_MAX /\ g = f
    BY <1>1, <1>7, <1>g
  <2>2. /\ f \in 0 .. (pool.blockCount - 1) /\ hd[f].flags = {}
        /\ \A k \in 0 .. (f - 1) : hd[k].flags # {}
    BY <1>f, <2>1 DEF LowestFree
  <2>3. hd2[f].flags = {} /\ \A k \in 0 .. (f - 1) : hd2[k].flags # {}
    BY <1>1, <1>4, <1>5, <2>1, <2>2
  <2> QED BY <1>3, <2>1, <2>2, <2>3 DEF LowestFree
<1> QED BY <1>6, <1>7

(* A step that changes one pool and the headers of one region.             *)
LEMMA FreeFrame ==
  ASSUME Safe, FreeIndexed, up, NEW p, NEW r,
         \A q \in Used' : q # p => /\ q \in Used /\ memPools'[q] = memPools[q]
                                   /\ memPools[q].blockPtr # r,
         \A x \in Regions : x # r => heads'[x] = heads[x],
         p \in Used' => /\ memPools'[p].blockCount <= UINT32_MAX
                        /\ LowestFree(memPools'[p].fFreeInd, heads'[memPools'[p].blockPtr],
                                      memPools'[p].blockCount)
  PROVE  FreeIndexed'
<1>1. ASSUME NEW q \in Used'
      PROVE  /\ memPools'[q].blockCount <= UINT32_MAX
             /\ LowestFree(memPools'[q].fFreeInd, heads'[memPools'[q].blockPtr],
                           memPools'[q].blockCount)
  <2>1. CASE q = p
    BY <2>1
  <2>2. CASE q # p
    <3>1. q \in Used /\ memPools'[q] = memPools[q] /\ memPools[q].blockPtr # r
      BY <2>2
    <3>2. memPools[q].blockPtr \in Regions
      BY <3>1, PoolFacts
    <3>3. heads'[memPools[q].blockPtr] = heads[memPools[q].blockPtr]
      BY <3>1, <3>2
    <3> QED BY <3>1, <3>3 DEF FreeIndexed
  <2> QED BY <2>1, <2>2
<1> QED BY <1>1 DEF FreeIndexed

LEMMA AllocInPoolIndexed ==
  ASSUME Safe, FreeIndexed, NEW size \in BlockSizes, NEW n \in 1 .. MaxRequest,
         AllocInPool(size, n)
  PROVE  FreeIndexed'
<1>p. PICK p : p = First(Fitting(size, n))
  OBVIOUS
<1>o. PICK pool : pool = memPools[p]
  OBVIOUS
<1>r. PICK r : r = pool.blockPtr
  OBVIOUS
<1>i. PICK idx : idx = FindRangeInPool(p, n)
  OBVIOUS
<1>h. PICK hd : hd = heads[r]
  OBVIOUS
<1>g. PICK hd2 : hd2 = MarkBlocks(hd, idx, n)
  OBVIOUS
<1>q. PICK pool2 : pool2 = TakeBlocks(pool, hd2, idx, n)
  OBVIOUS
<1>2. /\ up /\ up' = up /\ Fitting(size, n) # {}
      /\ heads' = [heads EXCEPT ![r] = hd2]
      /\ memPools' = [memPools EXCEPT ![p] = pool2]
  BY <1>p, <1>r, <1>i, <1>h, <1>g, <1>o, <1>q DEF AllocInPool
<1>3. p \in Fitting(size, n)
  <2>1. Fitting(size, n) \subseteq Nat
    BY PoolAssumption DEF Fitting, Scanned, Used, PoolIdx
  <2> QED BY <2>1, <1>2, <1>p, FirstIsMember
<1>4. p \in Used /\ idx # UINT32_MAX
  BY <1>3, <1>i DEF Fitting, Scanned
<1>5. /\ p \in PoolIdx /\ pool \in Pool /\ r \in Regions
      /\ hd \in [0 .. (pool.blockCount - 1) -> Head]
  BY <1>2, <1>4, <1>o, <1>h, <1>r, PoolFacts
<1>6. idx = pool.fFreeInd
  BY <1>4, <1>i, <1>o DEF FindRangeInPool
<1>7. pool.blockCount <= UINT32_MAX /\ LowestFree(idx, hd, pool.blockCount)
  BY <1>2, <1>4, <1>6, <1>o, <1>r, <1>h DEF FreeIndexed
<1>8. idx \in Nat /\ idx < pool.blockCount /\ n \in Nat
  BY <1>4, <1>5, <1>7 DEF LowestFree, Pool
<1>9. LowestFree(pool2.fFreeInd, hd2, pool.blockCount)
  BY <1>5, <1>6, <1>7, <1>8, <1>g, <1>q, TakeKeepsLowest
<1>10. pool2.blockSize = pool.blockSize
       /\ pool2.blockCount = pool.blockCount /\ pool2.blockPtr = r
  BY <1>5, <1>8, <1>q, <1>r, TakeBlocksType
<1>11. memPools \in [PoolIdx -> Pool] /\ DOMAIN heads = Regions
  BY DEF Safe, TypeOK
<1>12. /\ memPools'[p] = pool2 /\ heads'[r] = hd2
       /\ \A q \in PoolIdx : q # p => memPools'[q] = memPools[q]
       /\ \A x \in Regions : x # r => heads'[x] = heads[x]
  BY <1>2, <1>5, <1>11
<1>13. \A q \in Used' : q # p => q \in Used /\ memPools'[q] = memPools[q]
  BY <1>12 DEF Used
<1>14. \A q \in Used : q # p => memPools[q].blockPtr # r
  BY <1>2, <1>4, <1>o, <1>r DEF Safe, TableRegions
<1> QED BY <1>2, <1>7, <1>9, <1>10, <1>12, <1>13, <1>14, FreeFrame

(* A new pool, in a slot that may have been in use.                        *)
LEMMA PlaceIndexed ==
  ASSUME Safe, FreeIndexed, up, up' = up, firstFreePool # UINT32_MAX,
         NEW r \in Regions, r \notin heap,
         NEW pool \in Pool, pool.blockPtr = r, pool.blockCount <= UINT32_MAX,
         NEW hd, LowestFree(pool.fFreeInd, hd, pool.blockCount),
         heads' = [heads EXCEPT ![r] = hd],
         memPools' = [memPools EXCEPT ![firstFreePool] = pool]
  PROVE  FreeIndexed'
<1>f. PICK f : f = firstFreePool
  OBVIOUS
<1>1. f \in PoolIdx /\ memPools \in [PoolIdx -> Pool] /\ DOMAIN heads = Regions
  BY <1>f DEF Safe, TypeOK
<1>2. /\ memPools'[f] = pool /\ heads'[r] = hd
      /\ \A q \in PoolIdx : q # f => memPools'[q] = memPools[q]
      /\ \A x \in Regions : x # r => heads'[x] = heads[x]
  BY <1>1, <1>f
<1>3. \A q \in Used' : q # f => q \in Used /\ memPools'[q] = memPools[q]
  BY <1>2 DEF Used
<1>4. \A q \in Used : memPools[q].blockPtr # r
  BY DEF Safe, TableRegions
<1>5. /\ \A q \in Used' : q # f => /\ q \in Used /\ memPools'[q] = memPools[q]
                                   /\ memPools[q].blockPtr # r
      /\ memPools'[f].blockCount <= UINT32_MAX
      /\ LowestFree(memPools'[f].fFreeInd, heads'[memPools'[f].blockPtr],
                    memPools'[f].blockCount)
  BY <1>2, <1>3, <1>4
<1> QED BY <1>2, <1>5, FreeFrame

LEMMA NewPoolIndexed ==
  ASSUME NEW size \in BlockSizes, NEW count \in ReserveCounts \cup {DefBlockCount},
         NEW r \in Regions
  PROVE  LET pool == NewPool(count, size, r)
             hd   == NewHeads(count, size)
         IN  /\ pool.blockCount <= UINT32_MAX /\ pool.fFreeInd = 0
             /\ LowestFree(0, hd, pool.blockCount)
<1>c. PICK c : c = AdjustedBlockCount(count, size)
  OBVIOUS
<1>1. c \in Nat /\ c >= count /\ c <= UINT32_MAX
  BY <1>c, MetricsAssumption
<1>2. count \in Nat /\ count > 0
  BY PoolAssumption
<1>3. NewHeads(count, size) = [k \in 0 .. (c - 1) |-> FreeHead]
  BY <1>c DEF NewHeads
<1>4. NewPool(count, size, r).blockCount = c /\ NewPool(count, size, r).fFreeInd = 0
  BY <1>c DEF NewPool
<1>5. 0 \in 0 .. (c - 1) /\ NewHeads(count, size)[0].flags = {}
  BY <1>1, <1>2, <1>3 DEF FreeHead
<1>6. LowestFree(0, NewHeads(count, size), c)
  BY <1>5 DEF LowestFree
<1> QED BY <1>1, <1>4, <1>6

LEMMA ReservePoolIndexed ==
  ASSUME Safe, FreeIndexed, NEW size \in BlockSizes, NEW count \in ReserveCounts,
         NEW r \in Regions, ReservePool(size, count, r)
  PROVE  FreeIndexed'
<1>p. PICK pool : pool = NewPool(count, size, r)
  OBVIOUS
<1>h. PICK hd : hd = NewHeads(count, size)
  OBVIOUS
<1>1. pool \in Pool /\ pool.blockPtr = r
  BY <1>p, FreshPool
<1>2. pool.blockCount <= UINT32_MAX /\ LowestFree(pool.fFreeInd, hd, pool.blockCount)
  BY <1>p, <1>h, NewPoolIndexed
<1>3. /\ up /\ up' = up /\ firstFreePool # UINT32_MAX /\ r \notin heap
      /\ heads' = [heads EXCEPT ![r] = hd]
      /\ memPools' = [memPools EXCEPT ![firstFreePool] = pool]
  BY <1>p, <1>h DEF ReservePool
<1> QED BY <1>1, <1>2, <1>3, PlaceIndexed

LEMMA AllocInNewPoolIndexed ==
  ASSUME Safe, FreeIndexed, NEW size \in BlockSizes, NEW n \in 1 .. MaxRequest,
         NEW r \in Regions, AllocInNewPool(size, n, r)
  PROVE  FreeIndexed'
<1>o. PICK pool : pool = NewPool(DefBlockCount, size, r)
  OBVIOUS
<1>h. PICK hd : hd = NewHeads(DefBlockCount, size)
  OBVIOUS
<1>z. PICK z \in Nat : z = 0
  OBVIOUS
<1>g. PICK hd2 : hd2 = MarkBlocks(hd, z, n)
  OBVIOUS
<1>q. PICK pool2 : pool2 = TakeBlocks(pool, hd2, z, n)
  OBVIOUS
<1>d. DefBlockCount \in ReserveCounts \cup {DefBlockCount}
  OBVIOUS
<1>1. /\ pool \in Pool /\ pool.blockPtr = r
      /\ hd \in [0 .. (pool.blockCount - 1) -> Head]
      /\ pool.blockCount \in Nat /\ pool.blockCount >= DefBlockCount
  BY <1>o, <1>h, <1>d, FreshPool
<1>2. /\ pool.blockCount <= UINT32_MAX /\ z = pool.fFreeInd
      /\ LowestFree(z, hd, pool.blockCount)
  BY <1>o, <1>h, <1>d, <1>z, NewPoolIndexed
<1>3. n \in Nat /\ z < pool.blockCount
  BY <1>1, <1>z, PoolAssumption
<1>4. LowestFree(pool2.fFreeInd, hd2, pool.blockCount)
  BY <1>1, <1>2, <1>3, <1>g, <1>q, TakeKeepsLowest
<1>5. pool2 \in Pool /\ pool2.blockCount = pool.blockCount /\ pool2.blockPtr = r
  BY <1>1, <1>3, <1>q, TakeBlocksType
<1>6. /\ up /\ up' = up /\ firstFreePool # UINT32_MAX /\ r \notin heap
      /\ heads' = [heads EXCEPT ![r] = hd2]
      /\ memPools' = [memPools EXCEPT ![firstFreePool] = pool2]
  BY <1>o, <1>h, <1>z, <1>g, <1>q DEF AllocInNewPool
<1> QED BY <1>2, <1>4, <1>5, <1>6, PlaceIndexed

LEMMA FreeKnownIndexed ==
  ASSUME Safe, FreeIndexed, NEW a \in live, FreeKnown(a)
  PROVE  FreeIndexed'
<1>p. PICK p : p = LocateBlock(a.reg)
  OBVIOUS
<1>o. PICK pool : pool = memPools[p]
  OBVIOUS
<1>h. PICK hd : hd = heads[a.reg]
  OBVIOUS
<1>1. up /\ up' = up /\ p \in Used /\ pool.blockPtr = a.reg
  BY <1>p, <1>o, LocateFinds DEF FreeKnown
<1>2. /\ p \in PoolIdx /\ pool \in Pool /\ a.reg \in Regions
      /\ hd \in [0 .. (pool.blockCount - 1) -> Head]
      /\ Describes(pool, hd, HeldIn(a.reg, live))
      /\ \A b \in HeldIn(a.reg, live) : IsAllocation(b)
      /\ pool.nAllocBlocks = Cardinality(Marked(pool, hd))
  BY <1>1, <1>o, <1>h, PoolFacts
<1>3. a \in HeldIn(a.reg, live)
  BY DEF HeldIn
<1>4. GetHeaderForBlock(hd, a.idx) = a.idx /\ BlocksOf(hd[a.idx]) = a.n
  BY <1>2, <1>3, HeaderFound
<1>5. IF pool.nAllocBlocks - a.n > 0
      THEN /\ heads' = [heads EXCEPT ![a.reg] = ClearBlocks(hd, a.idx, a.n)]
           /\ memPools' = [memPools EXCEPT ![p] = GiveBlocks(pool, a.idx, a.n)]
      ELSE /\ heads' = [heads EXCEPT ![a.reg] = <<>>]
           /\ memPools' = [memPools EXCEPT ![p] = EmptyPool]
  BY <1>p, <1>o, <1>h, <1>4 DEF FreeKnown
<1>6. /\ a.idx \in Nat /\ a.n \in Nat /\ a.n > 0 /\ a.idx + a.n <= pool.blockCount
  BY <1>2, <1>3 DEF IsAllocation, Describes
<1>7. pool.blockCount <= UINT32_MAX /\ LowestFree(pool.fFreeInd, hd, pool.blockCount)
  BY <1>1, <1>o, <1>h DEF FreeIndexed
<1>8. memPools \in [PoolIdx -> Pool] /\ DOMAIN heads = Regions
  BY DEF Safe, TypeOK
<1>9. /\ \A q \in PoolIdx : q # p => memPools'[q] = memPools[q]
      /\ \A x \in Regions : x # a.reg => heads'[x] = heads[x]
  BY <1>2, <1>5, <1>8
<1>10. \A q \in Used' : q # p => q \in Used /\ memPools'[q] = memPools[q]
  BY <1>9 DEF Used
<1>11. \A q \in Used : q # p => memPools[q].blockPtr # a.reg
  BY <1>1, <1>o DEF Safe, TableRegions
<1>12. CASE pool.nAllocBlocks - a.n > 0
  <2>g. PICK hd2 : hd2 = ClearBlocks(hd, a.idx, a.n)
    OBVIOUS
  <2>q. PICK pool2 : pool2 = GiveBlocks(pool, a.idx, a.n)
    OBVIOUS
  <2>1. memPools'[p] = pool2 /\ heads'[a.reg] = hd2
    BY <1>2, <1>5, <1>8, <1>12, <2>g, <2>q
  <2>2. LowestFree(pool2.fFreeInd, hd2, pool.blockCount)
    BY <1>2, <1>6, <1>7, <2>g, <2>q, GiveKeepsLowest
  <2>3. a.n <= pool.nAllocBlocks
    BY <1>2, <1>6, <1>12 DEF Pool
  <2>4. pool2.blockCount = pool.blockCount /\ pool2.blockPtr = a.reg
    BY <1>1, <1>2, <1>6, <2>3, <2>q, GiveBlocksType
  <2> QED BY <1>1, <1>7, <1>9, <1>10, <1>11, <2>1, <2>2, <2>4, FreeFrame
<1>13. CASE ~(pool.nAllocBlocks - a.n > 0)
  <2>1. memPools'[p].blockSize = 0
    BY <1>2, <1>5, <1>8, <1>13 DEF EmptyPool
  <2>2. p \notin Used'
    BY <2>1 DEF Used
  <2>r. PICK r : r = a.reg
    OBVIOUS
  <2>3. /\ \A q \in Used' : q # p => /\ q \in Used /\ memPools'[q] = memPools[q]
                                     /\ memPools[q].blockPtr # r
        /\ \A x \in Regions : x # r => heads'[x] = heads[x]
    BY <1>9, <1>10, <1>11, <2>r
  <2> QED BY <1>1, <2>2, <2>3, FreeFrame
<1> QED BY <1>12, <1>13

(* Every operation of the allocator keeps the first free index right.      *)
LEMMA IndexedStep == Safe /\ FreeIndexed /\ [Next]_vars => FreeIndexed'
<1> SUFFICES ASSUME Safe, FreeIndexed, [Next]_vars PROVE FreeIndexed'
  OBVIOUS
<1>u. ASSUME UNCHANGED <<memPools, heads, up>> PROVE FreeIndexed'
  <2>1. Used' = Used
    BY <1>u DEF Used
  <2> QED BY <1>u, <2>1 DEF FreeIndexed
<1>1. ASSUME NEW size \in BlockSizes, NEW n \in 1 .. MaxRequest, NkPoolAlloc(size, n)
      PROVE  FreeIndexed'
  <2>1. CASE AllocInPool(size, n)
    BY <2>1, AllocInPoolIndexed
  <2>2. CASE \E r \in Regions : AllocInNewPool(size, n, r)
    BY <2>2, AllocInNewPoolIndexed
  <2>3. CASE AllocFails(size, n)
    BY <2>3, <1>u DEF AllocFails, vars
  <2> QED BY <1>1, <2>1, <2>2, <2>3 DEF NkPoolAlloc
<1>2. ASSUME NEW size \in BlockSizes, NEW count \in ReserveCounts,
             NkPoolReserve(size, count)
      PROVE  FreeIndexed'
  <2>1. CASE ReserveFails
    BY <2>1, <1>u DEF ReserveFails, vars
  <2>2. CASE \E r \in Regions : ReservePool(size, count, r)
    BY <2>2, ReservePoolIndexed
  <2> QED BY <1>2, <2>1, <2>2 DEF NkPoolReserve
<1>3. ASSUME NEW a \in live, NkPoolFree(a)
      PROVE  FreeIndexed'
  <2>1. CASE FreeUnknown(a)
    BY <2>1, <1>u DEF FreeUnknown
  <2>2. CASE FreeKnown(a)
    BY <2>2, FreeKnownIndexed
  <2> QED BY <1>3, <2>1, <2>2 DEF NkPoolFree
<1>4. ASSUME NEW a \in live, QuerySize(a)
      PROVE  FreeIndexed'
  BY <1>4, <1>u DEF QuerySize
<1>5. CASE Shutdown
  BY <1>5 DEF Shutdown, FreeIndexed
<1>6. CASE UNCHANGED vars
  BY <1>6, <1>u DEF vars
<1> QED BY <1>1, <1>2, <1>3, <1>4, <1>5, <1>6 DEF Next

(***************************************************************************)
(* The theorems.                                                           *)
(***************************************************************************)

(* The conjunction of everything below is an invariant of alloc.c's pools. *)
THEOREM PoolSafe == Spec => []Safe
BY SafeInit, SafeStep, PTL DEF Spec

(* The counters and table entries of alloc.c keep their types, and the     *)
(* pool counter never passes gl_MaxPools.                                  *)
THEOREM PoolTypeOK == Spec => []TypeOK
<1>1. Safe => TypeOK
  BY DEF Safe
<1> QED BY <1>1, PoolSafe, PTL

(* NkPoolAlloc never hands out a block that a client still holds.          *)
THEOREM PoolLiveDisjoint == Spec => []LiveDisjoint
<1>1. Safe => LiveDisjoint
  BY DEF Safe
<1> QED BY <1>1, PoolSafe, PTL

(* NkPoolFree never gives back a region with an allocation still in it.    *)
THEOREM PoolLiveInHeap == Spec => []LiveInHeap
<1>1. Safe => LiveInHeap
  BY DEF Safe
<1> QED BY <1>1, PoolSafe, PTL

(* Every pool of m_memPools has a region of its own with a header for each *)
(* of its blocks.                                                          *)
THEOREM PoolTableRegions == Spec => []TableRegions
<1>1. Safe => TableRegions
  BY DEF Safe
<1> QED BY <1>1, PoolSafe, PTL

(* The block headers describe exactly the allocations the clients hold.    *)
THEOREM PoolHeadersExact == Spec => []HeadersExact
<1>1. Safe => HeadersExact
  BY DEF Safe
<1> QED BY <1>1, PoolSafe, PTL

(* m_nAllocBlocks and m_fFreeInd of every pool agree with its headers,     *)
(* after any order of allocations and frees.                               *)
THEOREM PoolCountersExact == Spec => []PoolCounters
<1>1. Init => FreeIndexed
  BY DEF Init, FreeIndexed, Used, EmptyPool
<1>2. Safe /\ FreeIndexed => PoolCounters
  <2> SUFFICES ASSUME Safe, FreeIndexed, up, NEW p \in Used
               PROVE  /\ memPools[p].nAllocBlocks
                           = Cardinality(Marked(memPools[p], heads[memPools[p].blockPtr]))
                      /\ memPools[p].fFreeInd
                           = FirstFree(heads[memPools[p].blockPtr], 0, memPools[p].blockCount)
    BY DEF PoolCounters
  <2>1. /\ memPools[p].nAllocBlocks
             = Cardinality(Marked(memPools[p], heads[memPools[p].blockPtr]))
        /\ memPools[p] \in Pool
    BY PoolFacts
  <2>2. memPools[p].blockCount \in Nat
    BY <2>1 DEF Pool
  <2>3. /\ memPools[p].blockCount <= UINT32_MAX
        /\ LowestFree(memPools[p].fFreeInd, heads[memPools[p].blockPtr], memPools[p].blockCount)
    BY DEF FreeIndexed
  <2> QED BY <2>1, <2>2, <2>3, LowestIsFirst
<1> QED BY <1>1, <1>2, PoolSafe, IndexedStep, PTL DEF Spec

(* The walk back from any block of an allocation ends at its first header. *)
LEMMA HeaderFoundFrom ==
  ASSUME NEW pool \in Pool, NEW hd, NEW held,
         \A b \in held : IsAllocation(b),
         Describes(pool, hd, held), NEW a \in held, NEW k \in Blocks(a)
  PROVE  GetHeaderForBlock(hd, k) = a.idx
<1>1. a.idx \in Nat /\ a.n \in Nat /\ a.n > 0 /\ k \in Nat /\ a.idx <= k
  BY DEF IsAllocation, Blocks
<1> DEFINE stop(x) == \/ "PartOfMulti" \notin hd[x].flags
                      \/ "StartOfMulti" \in hd[x].flags
                      \/ x = 0
<1>2. \A x \in Blocks(a) : hd[x].flags = FlagsFor(a.idx, a.n, x)
  <2>1. \A x \in Blocks(a) : hd[x] = HeadOf(a, x)
    BY DEF Describes
  <2>2. \A x \in Blocks(a) : HeadOf(a, x).flags = FlagsFor(a.idx, a.n, x)
    BY DEF HeadOf
  <2> QED BY <2>1, <2>2
<1>3. stop(a.idx)
  <2>1. a.idx \in Blocks(a)
    BY <1>1 DEF Blocks
  <2> QED BY <1>2, <2>1 DEF FlagsFor
<1>4. \A x \in (a.idx + 1) .. k : ~stop(x)
  <2> SUFFICES ASSUME NEW x \in (a.idx + 1) .. k PROVE ~stop(x)
    OBVIOUS
  <2>1. x \in Blocks(a) /\ x # a.idx /\ x # 0 /\ a.n # 1
    BY <1>1 DEF Blocks
  <2>2. hd[x].flags = {"PartOfMulti"}
    BY <1>2, <2>1 DEF FlagsFor
  <2> QED BY <2>1, <2>2
<1>5. \A x \in 0 .. k : stop(x) /\ (\A y \in (x + 1) .. k : ~stop(y)) <=> x = a.idx
  <2> HIDE DEF stop
  <2> QED BY <1>1, <1>3, <1>4
<1>6. GetHeaderForBlock(hd, k)
        = CHOOSE x \in 0 .. k : stop(x) /\ \A y \in (x + 1) .. k : ~stop(y)
  BY DEF GetHeaderForBlock
<1>7. a.idx \in 0 .. k
  BY <1>1
<1> HIDE DEF stop
<1> QED BY <1>5, <1>6, <1>7

(* The size queries report what was asked for, from the address of any     *)
(* block of an allocation the table still knows.                           *)
THEOREM PoolSizesReported == Spec => []SizesReported
<1>1. Safe => SizesReported
  <2> SUFFICES ASSUME Safe, up, NEW a \in live, InTable(a.reg)
               PROVE  /\ NkPoolGetBlockSize(a.reg) = a.size
                      /\ \A k \in Blocks(a) : NkPoolGetAllocSize(a.reg, k) = a.n * a.size
    BY DEF SizesReported
  <2>p. PICK p : p = LocateBlock(a.reg)
    OBVIOUS
  <2>h. PICK hd : hd = heads[a.reg]
    OBVIOUS
  <2>1. p # UINT32_MAX
    BY <2>p, LocateMisses
  <2>2. p \in Used /\ memPools[p].blockPtr = a.reg
    BY <2>p, <2>1, LocateFinds
  <2>3. /\ memPools[p] \in Pool /\ Describes(memPools[p], hd, HeldIn(a.reg, live))
        /\ \A b \in HeldIn(a.reg, live) : IsAllocation(b)
    BY <2>2, <2>h, PoolFacts
  <2>4. a \in HeldIn(a.reg, live)
    BY DEF HeldIn
  <2>5. memPools[p].blockSize = a.size /\ BlocksOf(hd[a.idx]) = a.n
    BY <2>3, <2>4, HeaderFound DEF Describes
  <2>6. NkPoolGetBlockSize(a.reg) = a.size
    BY <2>p, <2>1, <2>5 DEF NkPoolGetBlockSize
  <2>7. ASSUME NEW k \in Blocks(a) PROVE NkPoolGetAllocSize(a.reg, k) = a.n * a.size
    <3>1. GetHeaderForBlock(hd, k) = a.idx
      BY <2>3, <2>4, HeaderFoundFrom
    <3>2. NkPoolGetAllocSize(a.reg, k) = memPools[p].blockSize * BlocksOf(hd[a.idx])
      BY <2>p, <2>h, <2>1, <3>1 DEF NkPoolGetAllocSize
    <3>3. a.n \in Int /\ a.size \in Int
      BY <2>3, <2>4 DEF IsAllocation
    <3>4. a.size * a.n = a.n * a.size
      BY <3>3
    <3> QED BY <2>5, <3>2, <3>4
  <2> QED BY <2>6, <2>7
<1> QED BY <1>1, PoolSafe, PTL

(* The scans that stop after m_nAllocPools used slots reach every pool.    *)
THEOREM PoolScansComplete == Spec => []ScansComplete
<1>1. Safe => ScansComplete
  BY ScansReachAll, PoolAssumption DEF Safe, TypeOK, ScansComplete
<1> QED BY <1>1, PoolSafe, PTL

(* m_mtxLock is left locked only by a size query for an address whose pool *)
(* was overwritten in the table.                                           *)
THEOREM PoolLockLeak == Spec => LockLeakOnlyWhenLost
<1>1. Safe /\ [Next]_vars => [lockHeld' # lockHeld => \E a \in live : ~InTable(a.reg)]_vars
  <2> SUFFICES ASSUME Safe, Next, lockHeld' # lockHeld
               PROVE  \E a \in live : ~InTable(a.reg)
    OBVIOUS
  <2>1. PICK a \in live : QuerySize(a)
    BY DEF Next, NkPoolAlloc, AllocInPool, AllocInNewPool, AllocFails, NkPoolReserve,
           ReserveFails, ReservePool, NkPoolFree, FreeUnknown, FreeKnown, Shutdown, vars
  <2>2. LocateBlock(a.reg) = UINT32_MAX
    BY <2>1 DEF QuerySize, Safe, TypeOK
  <2>3. ~InTable(a.reg)
    BY <2>2, LocateMisses
  <2> QED BY <2>3
<1> QED BY <1>1, PoolSafe, PTL DEF Spec, LockLeakOnlyWhenLost

(* The shutdown callback gives back the region of every pool in the table. *)
THEOREM PoolShutdownReleases == Spec => []ShutdownReleasesTable
<1>1. Init => ShutdownReleasesTable
  BY DEF Init, ShutdownReleasesTable
<1>2. Safe /\ ShutdownReleasesTable /\ [Next]_vars => ShutdownReleasesTable'
  <2> SUFFICES ASSUME Safe, ShutdownReleasesTable, [Next]_vars
               PROVE  ShutdownReleasesTable'
    OBVIOUS
  <2>1. CASE Shutdown
    <3>1. Scanned = Used
      BY ScansReachAll, PoolAssumption DEF Safe, TypeOK
    <3>2. Used' = Used
      BY <2>1 DEF Shutdown, Used
    <3> QED BY <2>1, <3>1, <3>2 DEF Shutdown, ShutdownReleasesTable
  <2>2. CASE Next /\ ~Shutdown
    <3>1. up /\ up' = up
      BY <2>2 DEF Next, NkPoolAlloc, AllocInPool, AllocInNewPool, AllocFails,
         NkPoolReserve, ReserveFails, ReservePool, NkPoolFree, FreeUnknown, FreeKnown,
         QuerySize, vars
    <3> QED BY <3>1 DEF ShutdownReleasesTable
  <2>3. CASE UNCHANGED vars
    <3>1. Used' = Used
      BY <2>3 DEF Used, vars
    <3> QED BY <2>3, <3>1 DEF ShutdownReleasesTable, vars
  <2> QED BY <2>1, <2>2, <2>3
<1> QED BY <1>1, <1>2, PoolSafe, PTL DEF Spec

(***************************************************************************)
(* Refinement.                                                             *)
(***************************************************************************)

(* A step that adds allocation a is a step of the block store.             *)
LEMMA AllocRefines ==
  ASSUME Safe, Safe', NEW a, live' = live \cup {a}, heap' = heap \cup {a.reg}
  PROVE  [Store!Next]_<<heap, live>>
<1>1. CASE a \in live
  <2>1. a.reg \in heap
    BY <1>1 DEF Safe, LiveInHeap
  <2>2. live' = live /\ heap' = heap
    BY <1>1, <2>1
  <2> QED BY <2>2
<1>2. CASE a \notin live
  <2>1. IsAllocation(a) /\ a \in live'
    BY DEF Safe, TypeOK
  <2>2. a \in Store!Allocation
    BY <2>1 DEF IsAllocation, Store!Allocation
  <2>3. \A b \in live : a.reg # b.reg \/ Blocks(a) \cap Blocks(b) = {}
    BY <1>2 DEF Safe, LiveDisjoint
  <2>4. \A b \in live : ~Store!Overlap(a, b)
    BY <2>3 DEF Store!Overlap, Store!Blocks, Blocks
  <2>5. Store!Alloc(a)
    BY <2>2, <2>4 DEF Store!Alloc
  <2> QED BY <2>1, <2>5 DEF Store!Next
<1> QED BY <1>1, <1>2

LEMMA StepRefines ==
  ASSUME Safe, Safe', Next
  PROVE  [Store!Next]_<<heap, live>>
<1>1. ASSUME NEW size \in BlockSizes, NEW n \in 1 .. MaxRequest, AllocInPool(size, n)
      PROVE  [Store!Next]_<<heap, live>>
  <2>1. PICK a : live' = live \cup {a} /\ heap' = heap
    BY <1>1 DEF AllocInPool
  <2>2. a.reg \in heap
    BY <2>1 DEF Safe, LiveInHeap
  <2>3. heap' = heap \cup {a.reg}
    BY <2>1, <2>2
  <2> QED BY <2>1, <2>3, AllocRefines
<1>2. ASSUME NEW size \in BlockSizes, NEW n \in 1 .. MaxRequest, NEW r \in Regions,
             AllocInNewPool(size, n, r)
      PROVE  [Store!Next]_<<heap, live>>
  <2>a. PICK a : a = [reg |-> r, idx |-> 0, n |-> n, size |-> size]
    OBVIOUS
  <2>1. live' = live \cup {a} /\ heap' = heap \cup {a.reg}
    BY <1>2, <2>a DEF AllocInNewPool
  <2> QED BY <2>1, AllocRefines
<1>3. ASSUME NEW size \in BlockSizes, NEW count \in ReserveCounts, NEW r \in Regions,
             ReservePool(size, count, r)
      PROVE  [Store!Next]_<<heap, live>>
  <2>1. Store!Reserve(r)
    BY <1>3 DEF ReservePool, Store!Reserve
  <2> QED BY <2>1 DEF Store!Next
<1>4. ASSUME NEW a \in live, NkPoolFree(a)
      PROVE  [Store!Next]_<<heap, live>>
  <2>1. live' = live \ {a} /\ (heap' = heap \/ heap' = heap \ {a.reg})
    BY <1>4 DEF NkPoolFree, FreeUnknown, FreeKnown
  <2>2. \A b \in live' : b.reg \in heap'
    BY DEF Safe, LiveInHeap
  <2>3. Store!Free(a)
    BY <2>1, <2>2 DEF Store!Free
  <2> QED BY <2>3 DEF Store!Next
<1>5. ASSUME NEW a \in live, QuerySize(a)
      PROVE  [Store!Next]_<<heap, live>>
  BY <1>5 DEF QuerySize
<1>6. CASE Shutdown
  <2>1. Store!Shutdown
    BY <1>6 DEF Shutdown, Store!Shutdown
  <2> QED BY <2>1 DEF Store!Next
<1>7. CASE UNCHANGED vars
  BY <1>7 DEF vars
<1> QED BY <1>1, <1>2, <1>3, <1>4, <1>5, <1>6, <1>7
        DEF Next, NkPoolAlloc, AllocFails, NkPoolReserve, ReserveFails

(* The pools of alloc.c implement the block store their clients rely on.   *)
THEOREM PoolImplementsBlockStore == Spec => ImplementsBlockStore
<1>1. Init => Store!Init
  BY DEF Init, Store!Init
<1>2. Safe /\ Safe' /\ [Next]_vars => [Store!Next]_<<heap, live>>
  <2>1. CASE UNCHANGED vars
    BY <2>1 DEF vars
  <2> QED BY <2>1, StepRefines
<1> QED BY <1>1, <1>2, PoolSafe, PTL DEF Spec, ImplementsBlockStore, Store!Spec
=============================================================================
