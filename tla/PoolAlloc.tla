----------------------------- MODULE PoolAlloc ------------------------------
(***************************************************************************)
(* The pool allocator of src/Noriko/alloc.c.                               *)
(*                                                                         *)
(* A fixed table of pools; a pool is one region obtained with NkGPAlloc    *)
(* that starts with one header per block.  An address inside a pool is the *)
(* pair of a region and a block index.  Every operation runs under         *)
(* m_mtxLock, so it is one action; lockHeld is TRUE once an operation has  *)
(* returned without unlocking it.  live is a history variable: what the    *)
(* clients hold, whatever the table says.                                  *)
(***************************************************************************)
EXTENDS Integers, FiniteSets

CONSTANTS
  MaxPools,       (* gl_MaxPools                                           *)
  DefBlockCount,  (* gl_DefBlockCount                                      *)
  PageSize,       (* gl_PageSize                                           *)
  BlockAlign,     (* gl_BlockAlign                                         *)
  HeadSize,       (* sizeof(__NkInt_PoolAllocBlockHead)                    *)
  UINT32_MAX,     (* "no index": larger than any pool or block index       *)
  Regions,        (* the regions NkGPAlloc can return                      *)
  NULL,           (* the null pointer                                      *)
  BlockSizes,     (* the block sizes the clients ask for                   *)
  ReserveCounts,  (* the block counts given to NkPoolReserve               *)
  MaxRequest      (* bound: the most blocks one NkPoolAlloc asks for       *)

PoolIdx == 0 .. (MaxPools - 1)

(***************************************************************************)
(* Pool metrics: header area (padded), total size, size rounded up to a    *)
(* page and the number of blocks that then fit.                            *)
(***************************************************************************)
CalcPoolHeadSize(count) == (count * HeadSize) + ((count * HeadSize) % BlockAlign)

CalcPoolSize(count, size) == CalcPoolHeadSize(count) + size * count

RoundToPage(bytes) ==
  bytes + (IF bytes % PageSize # 0 THEN PageSize - (bytes % PageSize) ELSE 0)

AdjustedBlockCount(count, size) ==
  RoundToPage(CalcPoolSize(count, size)) \div (size + HeadSize)

ASSUME PoolAssumption ==
  /\ MaxPools \in Nat \ {0} /\ DefBlockCount \in Nat \ {0}
  /\ UINT32_MAX \in Nat /\ MaxPools <= UINT32_MAX
  /\ NULL \notin Regions
  /\ BlockSizes \subseteq Nat \ {0}
  /\ ReserveCounts \subseteq Nat \ {0}
  /\ MaxRequest \in Nat \ {0}

(* A pool gets at least the blocks asked for, and an index fits 32 bits.   *)
ASSUME MetricsAssumption ==
  \A size \in BlockSizes, count \in ReserveCounts \cup {DefBlockCount} :
    /\ AdjustedBlockCount(count, size) \in Nat
    /\ AdjustedBlockCount(count, size) >= count
    /\ AdjustedBlockCount(count, size) <= UINT32_MAX

(* No client asks for more blocks than a default pool holds.               *)
ASSUME RequestAssumption == MaxRequest <= DefBlockCount

VARIABLES
  nAllocPools,    (* m_nAllocPools                                         *)
  firstFreePool,  (* m_firstFreePool                                       *)
  memPools,       (* m_memPools                                            *)
  heads,          (* the block headers at the start of each region         *)
  heap,           (* the regions obtained from NkGPAlloc and not freed     *)
  lockHeld,       (* m_mtxLock was left locked                             *)
  up,             (* the component has not been shut down                  *)
  live            (* history: the allocations the clients hold             *)

vars == <<nAllocPools, firstFreePool, memPools, heads, heap, lockHeld, up, live>>

Flag == {"Single", "StartOfMulti", "PartOfMulti"}
FreeHead == [flags |-> {}, nMulti |-> 0]
EmptyPool == [blockSize |-> 0, blockCount |-> 0, nAllocBlocks |-> 0,
              fFreeInd |-> 0, blockPtr |-> NULL]

Blocks(a) == a.idx .. (a.idx + a.n - 1)

(***************************************************************************)
(* Searching.                                                              *)
(***************************************************************************)
Used == {p \in PoolIdx : memPools[p].blockSize # 0}

(* The table scans stop after nAllocPools used slots.                      *)
Scanned == {p \in Used : Cardinality({q \in Used : q < p}) < nAllocPools}

(* Fault: the upper end of the pool is not tested, and p lies below r.     *)
IsInsidePool_NoEnd(r, p) == TRUE

IsInsidePool(r, p) == memPools[p].blockPtr = r

First(S) == CHOOSE p \in S : \A q \in S : p <= q

(* Fault: the scan starts at the second slot.                              *)
LocateBlock_FromOne(r) ==
  LET here == {p \in Scanned : p > 0 /\ memPools[p].blockPtr = r}
  IN  IF here = {} THEN UINT32_MAX ELSE First(here)

LocateBlock(r) ==
  LET here == {p \in Scanned : IsInsidePool(r, p)}
  IN  IF here = {} THEN UINT32_MAX ELSE First(here)

(* Fault: no walk back to the first block.                                 *)
GetHeaderForBlock_NoWalk(hd, k) == k

(* Walk back from a part of a multi-block allocation to its first block.   *)
GetHeaderForBlock(hd, k) ==
  LET stop(j) == \/ "PartOfMulti" \notin hd[j].flags
                 \/ "StartOfMulti" \in hd[j].flags
                 \/ j = 0
  IN  CHOOSE j \in 0 .. k : stop(j) /\ \A i \in (j + 1) .. k : ~stop(i)

BlocksOf(head) == IF "Single" \in head.flags THEN 1 ELSE head.nMulti

(* Fault: only the room left is tested, not the blocks of the window.      *)
FindRangeInPool_RoomOnly(p, n) ==
  IF \/ memPools[p].fFreeInd = UINT32_MAX
     \/ memPools[p].blockCount - memPools[p].fFreeInd < n
  THEN UINT32_MAX
  ELSE memPools[p].fFreeInd

(* The search gives up at the first used block of the window: the loop     *)
(* that should skip used blocks tests the same header over and over.       *)
FindRangeInPool(p, n) ==
  LET f == memPools[p].fFreeInd
  IN  IF \/ f = UINT32_MAX
         \/ memPools[p].blockCount - f < n
         \/ \E k \in f .. (f + n - 1) : heads[memPools[p].blockPtr][k].flags # {}
      THEN UINT32_MAX
      ELSE f

FirstFree(hd, from, count) ==
  LET free == {k \in from .. (count - 1) : hd[k].flags = {}}
  IN  IF free = {} THEN UINT32_MAX ELSE First(free)

Init ==
  /\ nAllocPools = 0
  /\ firstFreePool = 0
  /\ memPools = [p \in PoolIdx |-> EmptyPool]
  /\ heads = [r \in Regions |-> <<>>]
  /\ heap = {}
  /\ lockHeld = FALSE
  /\ up = TRUE
  /\ live = {}

(***************************************************************************)
(* The pieces of the operations.                                           *)
(***************************************************************************)
NewPool(count, size, r) ==
  [blockSize |-> size, blockCount |-> AdjustedBlockCount(count, size),
   nAllocBlocks |-> 0, fFreeInd |-> 0, blockPtr |-> r]

NewHeads(count, size) ==
  [k \in 0 .. (AdjustedBlockCount(count, size) - 1) |-> FreeHead]

(* Fault: the table is not closed when it is full.                         *)
NextFreePool_NeverFull(table) ==
  LET free == {p \in PoolIdx : p >= firstFreePool /\ table[p].blockSize = 0}
  IN  IF free = {} THEN firstFreePool ELSE First(free)

(* Where the next pool goes once the one at firstFreePool is in the table: *)
(* the scan only looks upwards and may find nothing.                       *)
NextFreePool(table) ==
  LET free == {p \in PoolIdx : p >= firstFreePool /\ table[p].blockSize = 0}
  IN  IF nAllocPools + 1 = MaxPools THEN UINT32_MAX
      ELSE IF free = {} THEN firstFreePool
      ELSE First(free)

(* Fault: the last block of a multi-block allocation is not marked.        *)
MarkBlocks_OffByOne(hd, idx, n) ==
  [k \in DOMAIN hd |->
     IF k = idx
     THEN [flags  |-> IF n = 1 THEN {"Single"} ELSE {"StartOfMulti", "PartOfMulti"},
           nMulti |-> IF n = 1 THEN 0 ELSE n]
     ELSE IF k \in idx .. (idx + n - 2) THEN [flags |-> {"PartOfMulti"}, nMulti |-> 0]
     ELSE hd[k]]

FlagsFor(idx, n, k) ==
  IF n = 1 THEN {"Single"}
  ELSE IF k = idx THEN {"StartOfMulti", "PartOfMulti"}
  ELSE {"PartOfMulti"}

MarkBlocks(hd, idx, n) ==
  [k \in DOMAIN hd |->
     IF k \notin idx .. (idx + n - 1) THEN hd[k]
     ELSE [flags  |-> hd[k].flags \cup FlagsFor(idx, n, k),
           nMulti |-> IF n > 1 /\ k = idx THEN n ELSE hd[k].nMulti]]

ClearBlocks(hd, idx, n) ==
  [k \in DOMAIN hd |-> IF k \in idx .. (idx + n - 1) THEN FreeHead ELSE hd[k]]

(* Fault: allocations are counted instead of blocks.                       *)
TakeBlocks_CountsCalls(pool, hd, idx, n) ==
  [pool EXCEPT
     !.nAllocBlocks = @ + 1,
     !.fFreeInd = IF idx = @ THEN FirstFree(hd, @, pool.blockCount) ELSE @]

(* lbl_ALLOCBLOCK: hd are the headers after MarkBlocks.                    *)
TakeBlocks(pool, hd, idx, n) ==
  [pool EXCEPT
     !.nAllocBlocks = @ + n,
     !.fFreeInd = IF idx = @ THEN FirstFree(hd, @, pool.blockCount) ELSE @]

(* Fault: the first free index is not lowered.                             *)
GiveBlocks_KeepsIndex(pool, idx, n) == [pool EXCEPT !.nAllocBlocks = @ - n]

GiveBlocks(pool, idx, n) ==
  [pool EXCEPT
     !.nAllocBlocks = @ - n,
     !.fFreeInd = IF @ > idx THEN idx ELSE @]

(* The scan of NkPoolFree has no break and the emptied pool p still counts *)
(* as used, so the last free slot above p is taken, if there is one.       *)
FreePoolAfterFree(p) ==
  LET free == {q \in PoolIdx : q >= p /\ memPools[q].blockSize = 0}
  IN  IF free = {} THEN firstFreePool
      ELSE CHOOSE q \in free : \A s \in free : s <= q

(***************************************************************************)
(* NkPoolAlloc.                                                            *)
(***************************************************************************)
Fitting(size, n) ==
  {p \in Scanned : memPools[p].blockSize = size /\ FindRangeInPool(p, n) # UINT32_MAX}

AllocInPool(size, n) ==
  /\ up /\ ~lockHeld
  /\ Fitting(size, n) # {}
  /\ LET p   == First(Fitting(size, n))
         r   == memPools[p].blockPtr
         idx == FindRangeInPool(p, n)
         hd  == MarkBlocks(heads[r], idx, n)
     IN  /\ heads' = [heads EXCEPT ![r] = hd]
         /\ memPools' = [memPools EXCEPT ![p] = TakeBlocks(@, hd, idx, n)]
         /\ live' = live \cup {[reg |-> r, idx |-> idx, n |-> n, size |-> size]}
  /\ UNCHANGED <<nAllocPools, firstFreePool, heap, lockHeld, up>>

AllocInNewPool(size, n, r) ==
  /\ up /\ ~lockHeld
  /\ Fitting(size, n) = {}
  /\ firstFreePool # UINT32_MAX
  /\ r \notin heap
  /\ LET hd   == MarkBlocks(NewHeads(DefBlockCount, size), 0, n)
         pool == TakeBlocks(NewPool(DefBlockCount, size, r), hd, 0, n)
     IN  /\ heads' = [heads EXCEPT ![r] = hd]
         /\ memPools' = [memPools EXCEPT ![firstFreePool] = pool]
         /\ firstFreePool' = NextFreePool(memPools')
         /\ live' = live \cup {[reg |-> r, idx |-> 0, n |-> n, size |-> size]}
  /\ nAllocPools' = nAllocPools + 1
  /\ heap' = heap \cup {r}
  /\ UNCHANGED <<lockHeld, up>>

(* No slot is left, or NkGPAlloc fails: the lock is released, the pointer  *)
(* set to NULL and an error returned.                                      *)
AllocFails(size, n) ==
  /\ up /\ ~lockHeld
  /\ Fitting(size, n) = {}
  /\ UNCHANGED vars

NkPoolAlloc(size, n) ==
  \/ AllocInPool(size, n)
  \/ \E r \in Regions : AllocInNewPool(size, n, r)
  \/ AllocFails(size, n)

(***************************************************************************)
(* NkPoolReserve.                                                          *)
(***************************************************************************)
ReserveFails == up /\ ~lockHeld /\ UNCHANGED vars

(* Fault: the new pool is not counted.                                     *)
ReservePool_NotCounted(size, count, r) ==
  /\ up /\ ~lockHeld
  /\ firstFreePool # UINT32_MAX
  /\ r \notin heap
  /\ heads' = [heads EXCEPT ![r] = NewHeads(count, size)]
  /\ memPools' = [memPools EXCEPT ![firstFreePool] = NewPool(count, size, r)]
  /\ firstFreePool' = NextFreePool(memPools')
  /\ heap' = heap \cup {r}
  /\ UNCHANGED <<nAllocPools, lockHeld, up, live>>

ReservePool(size, count, r) ==
  /\ up /\ ~lockHeld
  /\ firstFreePool # UINT32_MAX
  /\ r \notin heap
  /\ heads' = [heads EXCEPT ![r] = NewHeads(count, size)]
  /\ memPools' = [memPools EXCEPT ![firstFreePool] = NewPool(count, size, r)]
  /\ firstFreePool' = NextFreePool(memPools')
  /\ nAllocPools' = nAllocPools + 1
  /\ heap' = heap \cup {r}
  /\ UNCHANGED <<lockHeld, up, live>>

NkPoolReserve(size, count) ==
  ReserveFails \/ \E r \in Regions : ReservePool(size, count, r)

(***************************************************************************)
(* NkPoolFree, called with the address an NkPoolAlloc returned.            *)
(***************************************************************************)
FreeUnknown(a) ==
  /\ up /\ ~lockHeld
  /\ LocateBlock(a.reg) = UINT32_MAX
  /\ live' = live \ {a}
  /\ UNCHANGED <<nAllocPools, firstFreePool, memPools, heads, heap, lockHeld, up>>

FreeKnown(a) ==
  /\ up /\ ~lockHeld
  /\ LocateBlock(a.reg) # UINT32_MAX
  /\ LET p   == LocateBlock(a.reg)
         idx == GetHeaderForBlock(heads[a.reg], a.idx)
         n   == BlocksOf(heads[a.reg][idx])
     IN  IF memPools[p].nAllocBlocks - n > 0
         THEN /\ heads' = [heads EXCEPT ![a.reg] = ClearBlocks(@, idx, n)]
              /\ memPools' = [memPools EXCEPT ![p] = GiveBlocks(@, idx, n)]
              /\ UNCHANGED <<nAllocPools, firstFreePool, heap>>
         ELSE /\ heads' = [heads EXCEPT ![a.reg] = <<>>]
              /\ memPools' = [memPools EXCEPT ![p] = EmptyPool]
              /\ firstFreePool' = FreePoolAfterFree(p)
              /\ nAllocPools' = nAllocPools - 1
              /\ heap' = heap \ {a.reg}
  /\ live' = live \ {a}
  /\ UNCHANGED <<lockHeld, up>>

NkPoolFree(a) == FreeUnknown(a) \/ FreeKnown(a)

(***************************************************************************)
(* NkPoolGetBlockSize and NkPoolGetAllocSize: an address no pool holds     *)
(* makes them return 0 from inside NK_SYNCHRONIZED, with the lock taken.   *)
(***************************************************************************)
NkPoolGetBlockSize(r) ==
  IF LocateBlock(r) = UINT32_MAX THEN 0 ELSE memPools[LocateBlock(r)].blockSize

NkPoolGetAllocSize(r, k) ==
  IF LocateBlock(r) = UINT32_MAX THEN 0
  ELSE memPools[LocateBlock(r)].blockSize
         * BlocksOf(heads[r][GetHeaderForBlock(heads[r], k)])

QuerySize(a) ==
  /\ up /\ ~lockHeld
  /\ lockHeld' = (LocateBlock(a.reg) = UINT32_MAX)
  /\ UNCHANGED <<nAllocPools, firstFreePool, memPools, heads, heap, up, live>>

(***************************************************************************)
(* The shutdown callback gives back the region of every pool it scans and  *)
(* leaves the table as it is.                                              *)
(***************************************************************************)
Shutdown ==
  /\ up
  /\ up' = FALSE
  /\ heap' = heap \ {memPools[p].blockPtr : p \in Scanned}
  /\ live' = {}
  /\ UNCHANGED <<nAllocPools, firstFreePool, memPools, heads, lockHeld>>

Next ==
  \/ \E size \in BlockSizes, n \in 1 .. MaxRequest : NkPoolAlloc(size, n)
  \/ \E size \in BlockSizes, count \in ReserveCounts : NkPoolReserve(size, count)
  \/ \E a \in live : NkPoolFree(a)
  \/ \E a \in live : QuerySize(a)
  \/ Shutdown

Spec == Init /\ [][Next]_vars
-----------------------------------------------------------------------------
InTable(r) == \E p \in Used : memPools[p].blockPtr = r

Head == [flags : SUBSET Flag, nMulti : Nat]

Pool == [blockSize : Nat, blockCount : Nat, nAllocBlocks : Nat,
         fFreeInd : Nat, blockPtr : Regions \cup {NULL}]

IsAllocation(a) ==
  /\ a \in [reg : Regions, idx : Nat, n : Nat, size : Nat]
  /\ a.n > 0 /\ a.size > 0

(* The fields of alloc.c hold what their declarations say; the number of   *)
(* pools never exceeds the table, and reaching its size closes the table.  *)
TypeOK ==
  /\ nAllocPools \in 0 .. MaxPools
  /\ firstFreePool \in PoolIdx \cup {UINT32_MAX}
  /\ nAllocPools = MaxPools => firstFreePool = UINT32_MAX
  /\ memPools \in [PoolIdx -> Pool]
  /\ DOMAIN heads = Regions
  /\ heap \subseteq Regions
  /\ lockHeld \in BOOLEAN /\ up \in BOOLEAN
  /\ \A a \in live : IsAllocation(a)

(* NkPoolAlloc never hands out a block a client still holds, whatever      *)
(* pools were reused or overwritten in between.                            *)
LiveDisjoint ==
  \A a, b \in live :
    a # b => a.reg # b.reg \/ Blocks(a) \cap Blocks(b) = {}

(* NkPoolFree gives a region back to the heap only when nothing in it is   *)
(* held: no client is left with memory that was freed under it.            *)
LiveInHeap == \A a \in live : a.reg \in heap

(* While the allocator is up every pool of the table has its own region,   *)
(* still allocated, with one header per block.                             *)
TableRegions ==
  up => \A p \in Used :
    /\ memPools[p].blockPtr \in heap
    /\ heads[memPools[p].blockPtr]
         \in [0 .. (memPools[p].blockCount - 1) -> Head]
    /\ \A q \in Used : memPools[q].blockPtr = memPools[p].blockPtr => q = p

(* The header a block k of allocation a carries.                           *)
HeadOf(a, k) ==
  [flags  |-> FlagsFor(a.idx, a.n, k),
   nMulti |-> IF a.n > 1 /\ k = a.idx THEN a.n ELSE 0]

Describes(pool, hd, held) ==
  /\ \A a \in held :
       /\ a.idx + a.n <= pool.blockCount
       /\ a.size = pool.blockSize
       /\ \A k \in Blocks(a) : hd[k] = HeadOf(a, k)
  /\ \A k \in 0 .. (pool.blockCount - 1) :
       hd[k] = FreeHead \/ \E a \in held : k \in Blocks(a)

HeldIn(r, held) == {a \in held : a.reg = r}

(* The headers of a pool describe exactly the allocations the clients hold *)
(* in it: first block and length of each, and no block marked besides.     *)
HeadersExact ==
  up => \A p \in Used :
    Describes(memPools[p], heads[memPools[p].blockPtr],
              HeldIn(memPools[p].blockPtr, live))

Marked(pool, hd) == {k \in 0 .. (pool.blockCount - 1) : hd[k].flags # {}}

(* m_nAllocBlocks counts the marked headers and m_fFreeInd is the lowest   *)
(* unmarked one, after any order of allocations and frees.                 *)
PoolCounters ==
  up => \A p \in Used :
    LET pool == memPools[p]
        hd   == heads[pool.blockPtr]
    IN  /\ pool.nAllocBlocks = Cardinality(Marked(pool, hd))
        /\ pool.fFreeInd = FirstFree(hd, 0, pool.blockCount)

(* The scans that stop after m_nAllocPools used slots reach every pool,    *)
(* although an overwritten slot makes that counter run too high.           *)
ScansComplete == Scanned = Used

(* NkPoolGetBlockSize and NkPoolGetAllocSize report the size asked for,    *)
(* from the address of any block of an allocation the table still knows.   *)
SizesReported ==
  up => \A a \in live : InTable(a.reg) =>
    /\ NkPoolGetBlockSize(a.reg) = a.size
    /\ \A k \in Blocks(a) : NkPoolGetAllocSize(a.reg, k) = a.n * a.size

(* m_mtxLock is left locked only by a size query for an address whose pool *)
(* was overwritten in the table, never by one for a known address.         *)
LockLeakOnlyWhenLost ==
  [][lockHeld' # lockHeld => \E a \in live : ~InTable(a.reg)]_vars

(* The shutdown callback frees the region of every pool of the table.      *)
ShutdownReleasesTable ==
  ~up => \A p \in Used : memPools[p].blockPtr \notin heap

(* The refinement mapping: the regions and the allocations are the same.   *)
Store == INSTANCE BlockStore WITH Regions <- Regions, heap <- heap, live <- live

(* The pools implement the block store the clients rely on.                *)
ImplementsBlockStore == Store!Spec

(* NkPoolFree can find every allocation a client holds.                    *)
LiveLocatable == up => \A a \in live : LocateBlock(a.reg) # UINT32_MAX
=============================================================================
