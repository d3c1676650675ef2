----------------------------- MODULE Hashtable ------------------------------
(***************************************************************************)
(* The Robin Hood hash table of src/Noriko/dstruct/htable.c.               *)
(*                                                                         *)
(* One table and the one call that is running on it.  The probe loop and   *)
(* the rebuild of the array are modelled step by step: between two steps a *)
(* pair is in flight, in tmpPair and in no slot.  mp_elemArray is the      *)
(* function from the used slots to their entries; a slot whose m_isUsed is *)
(* false is outside its domain.  A key hashes to any slot: the hash is     *)
(* seeded at random, and for UUID keys it is taken over the pointer and    *)
(* the bytes behind it.  dict is a history variable: the pairs the calls   *)
(* have put into the table.                                                *)
(***************************************************************************)
EXTENDS Integers, FiniteSets, Sequences

CONSTANTS
  Keys, Values,   (* what the clients store                                *)
  InitCap,        (* m_initCap                                             *)
  MinCap,         (* m_minCap                                              *)
  MaxCap,         (* m_maxCap                                              *)
  Uint32Range,    (* 2^32: the counters of the probe loop wrap at it       *)
  MaxBatch        (* bound: the most pairs one NkHashtableInsertMulti adds *)

ASSUME CapAssumption ==
  /\ InitCap \in Nat \ {0} /\ MinCap \in Nat \ {0} /\ MaxCap \in Nat
  /\ MinCap <= MaxCap /\ InitCap <= MaxCap
  /\ Uint32Range \in Nat /\ MaxCap < Uint32Range
  /\ MaxBatch \in Nat \ {0}

VARIABLES
  pc,             (* where the running call is                             *)
  op,             (* which call that is                                    *)
  elemArray,      (* mp_elemArray                                          *)
  currCap,        (* m_currCap                                             *)
  elemCount,      (* m_elemCount                                           *)
  newArray,       (* mp_elemArray of the table AdjustCapacity builds       *)
  newCap,         (* its capacity, 0 when none is being built              *)
  src,            (* the slot AdjustCapacity copies next                   *)
  copied,         (* how many pairs it has copied                          *)
  tmpPair,        (* the pair in flight                                    *)
  pos,            (* the slot the probe loop looks at                      *)
  currPsa,        (* how far tmpPair is from its home                      *)
  batch,          (* the pairs NkHashtableInsertMulti has still to insert  *)
  actAdded,       (* how many it has inserted                              *)
  dict            (* history: the pairs in the table                       *)

tableVars == <<elemArray, currCap, elemCount>>
buildVars == <<newArray, newCap, src, copied>>
probeVars == <<tmpPair, pos, currPsa>>
batchVars == <<batch, actAdded>>
vars == <<pc, op, tableVars, buildVars, probeVars, batchVars, dict>>

NoPair == [key |-> "none"]
Pair == [key : Keys, val : Values]
Entry == [key : Keys, val : Values, home : Nat, off : Nat]
Batches == UNION {[1 .. n -> Pair] : n \in 1 .. MaxBatch}

PairsOf(a) == {[key |-> a[i].key, val |-> a[i].val] : i \in DOMAIN a}
Plain(e) == [key |-> e.key, val |-> e.val]

(***************************************************************************)
(* Slots.                                                                  *)
(***************************************************************************)
Store(a, i, e) == [k \in DOMAIN a \cup {i} |-> IF k = i THEN e ELSE a[k]]

Release(a, i) == [k \in DOMAIN a \ {i} |-> a[k]]

EntryOf(p, psa) == [key |-> p.key, val |-> p.val, home |-> p.home, off |-> psa]
Carried(e) == [key |-> e.key, val |-> e.val, home |-> e.home]

(* Fault: the last slot is skipped when the probe wraps.                   *)
NextSlot_Short(i, cap) == IF i >= cap - 2 THEN 0 ELSE i + 1

NextSlot(i, cap) == IF i >= cap - 1 THEN 0 ELSE i + 1

(* What __NkInt_HashtableHash, taken modulo the capacity, may return.      *)
Homes(cap) == 0 .. (cap - 1)

(* Every slot is scanned, so the key is found wherever it hashes to.       *)
LocKey(k) == {i \in DOMAIN elemArray : elemArray[i].key = k}

NkHashtableContains(k) == LocKey(k) # {}

(***************************************************************************)
(* When the array is rebuilt, and how large it then is.                    *)
(***************************************************************************)
NeedsRebuild(count) == 4 * count >= 3 * currCap

(* Fault: the maximum capacity is not applied.                             *)
TargetCap_Unclamped(count) == (count * 20) \div 7

TargetCap(count) ==
  LET want == (count * 20) \div 7
      top  == IF want > MaxCap THEN MaxCap ELSE want
  IN  IF top > MinCap THEN top ELSE MinCap

(***************************************************************************)
(* Creating and destroying.                                                *)
(***************************************************************************)
NoCall == op' = "none" /\ UNCHANGED <<buildVars, probeVars, batchVars>>

Init ==
  /\ pc = "absent" /\ op = "none"
  /\ elemArray = <<>> /\ currCap = 0 /\ elemCount = 0
  /\ newArray = <<>> /\ newCap = 0 /\ src = 0 /\ copied = 0
  /\ tmpPair = NoPair /\ pos = 0 /\ currPsa = 0
  /\ batch = <<>> /\ actAdded = 0
  /\ dict = {}

NkHashtableCreate ==
  /\ pc = "absent"
  /\ pc' = "idle"
  /\ elemArray' = <<>> /\ currCap' = InitCap /\ elemCount' = 0
  /\ dict' = {}
  /\ NoCall

NkHashtableDestroy ==
  /\ pc = "idle"
  /\ pc' = "absent"
  /\ elemArray' = <<>> /\ currCap' = 0 /\ elemCount' = 0
  /\ dict' = {}
  /\ NoCall

(***************************************************************************)
(* NkHashtableInsertMulti, up to the loop over the pairs.  NkGPAlloc may   *)
(* fail; then, as when the limit is exceeded, nothing has been changed.    *)
(***************************************************************************)
InsertRefused(ps) ==
  /\ pc = "idle"
  /\ elemCount + Len(ps) > MaxCap \/ NeedsRebuild(elemCount + Len(ps))
  /\ UNCHANGED vars

InsertInPlace(ps) ==
  /\ pc = "idle"
  /\ elemCount + Len(ps) <= MaxCap
  /\ ~NeedsRebuild(elemCount + Len(ps))
  /\ pc' = "batch" /\ op' = "insert"
  /\ batch' = ps /\ actAdded' = 0
  /\ UNCHANGED <<tableVars, buildVars, probeVars, dict>>

(* Fault: the rebuild is sized for the elements already there.             *)
InsertRebuild_OldCount(ps) ==
  /\ pc = "idle"
  /\ elemCount + Len(ps) <= MaxCap
  /\ NeedsRebuild(elemCount + Len(ps))
  /\ pc' = "copy" /\ op' = "insert"
  /\ newArray' = <<>> /\ newCap' = TargetCap(elemCount)
  /\ src' = 0 /\ copied' = 0
  /\ batch' = ps /\ actAdded' = 0
  /\ UNCHANGED <<tableVars, probeVars, dict>>

InsertRebuild(ps) ==
  /\ pc = "idle"
  /\ elemCount + Len(ps) <= MaxCap
  /\ NeedsRebuild(elemCount + Len(ps))
  /\ pc' = "copy" /\ op' = "insert"
  /\ newArray' = <<>> /\ newCap' = TargetCap(elemCount + Len(ps))
  /\ src' = 0 /\ copied' = 0
  /\ batch' = ps /\ actAdded' = 0
  /\ UNCHANGED <<tableVars, probeVars, dict>>

NkHashtableInsertMulti(ps) ==
  InsertRefused(ps) \/ InsertInPlace(ps) \/ InsertRebuild(ps)

(***************************************************************************)
(* The copy loop of AdjustCapacity.                                        *)
(***************************************************************************)
CopyContinues == src < currCap /\ copied < elemCount

CopySkip ==
  /\ pc = "copy" /\ CopyContinues
  /\ src \notin DOMAIN elemArray
  /\ src' = src + 1
  /\ UNCHANGED <<pc, op, tableVars, newArray, newCap, copied, probeVars, batchVars, dict>>

CopyPair(home) ==
  /\ pc = "copy" /\ CopyContinues
  /\ src \in DOMAIN elemArray
  /\ tmpPair' = [key |-> elemArray[src].key, val |-> elemArray[src].val, home |-> home]
  /\ pos' = home /\ currPsa' = 0
  /\ pc' = "probe"
  /\ UNCHANGED <<op, tableVars, buildVars, batchVars, dict>>

(* The new array replaces the old one; NkHashtableClear then zeroes it.    *)
CopyDone ==
  /\ pc = "copy" /\ ~CopyContinues
  /\ currCap' = newCap
  /\ newArray' = <<>> /\ newCap' = 0 /\ src' = 0 /\ copied' = 0
  /\ IF op = "clear"
     THEN /\ elemArray' = <<>> /\ elemCount' = 0 /\ dict' = {}
          /\ pc' = "idle" /\ op' = "none"
     ELSE /\ elemArray' = newArray /\ pc' = "batch"
          /\ UNCHANGED <<elemCount, dict, op>>
  /\ UNCHANGED <<probeVars, batchVars>>

(***************************************************************************)
(* The probe loop of RobinHoodInsertSingle, on the table being built or,   *)
(* when there is none, on the table itself.                                *)
(***************************************************************************)
Building == newCap > 0
Target == IF Building THEN newArray ELSE elemArray
TargetSlots == IF Building THEN newCap ELSE currCap

PutTarget(a) ==
  /\ newArray' = IF Building THEN a ELSE newArray
  /\ elemArray' = IF Building THEN elemArray ELSE a

(* The free slot takes the pair and the loop ends.                         *)
ProbePlace ==
  /\ pc = "probe" /\ pos \notin DOMAIN Target
  /\ PutTarget(Store(Target, pos, EntryOf(tmpPair, currPsa)))
  /\ tmpPair' = NoPair /\ pos' = 0 /\ currPsa' = 0
  /\ IF Building
     THEN pc' = "copy" /\ src' = src + 1 /\ copied' = copied + 1 /\ UNCHANGED actAdded
     ELSE pc' = "batch" /\ actAdded' = actAdded + 1 /\ UNCHANGED <<src, copied>>
  /\ UNCHANGED <<op, currCap, elemCount, newCap, batch, dict>>

ProbeWalk ==
  /\ pc = "probe" /\ pos \in DOMAIN Target
  /\ currPsa <= Target[pos].off
  /\ currPsa' = (currPsa + 1) % Uint32Range
  /\ pos' = NextSlot(pos, TargetSlots)
  /\ UNCHANGED <<pc, op, tableVars, buildVars, tmpPair, batchVars, dict>>

(* Fault: the pair in flight keeps its own distance after the swap.        *)
ProbeSwap_KeepsPsa ==
  /\ pc = "probe" /\ pos \in DOMAIN Target
  /\ currPsa > Target[pos].off
  /\ PutTarget(Store(Target, pos, EntryOf(tmpPair, currPsa)))
  /\ tmpPair' = Carried(Target[pos])
  /\ currPsa' = (currPsa + 1) % Uint32Range
  /\ pos' = NextSlot(pos, TargetSlots)
  /\ UNCHANGED <<pc, op, currCap, elemCount, newCap, src, copied, batchVars, dict>>

(* Fault: the displaced pair is dropped.                                   *)
ProbeSwap_Drops ==
  /\ pc = "probe" /\ pos \in DOMAIN Target
  /\ currPsa > Target[pos].off
  /\ PutTarget(Store(Target, pos, EntryOf(tmpPair, currPsa)))
  /\ currPsa' = (Target[pos].off + 1) % Uint32Range
  /\ pos' = NextSlot(pos, TargetSlots)
  /\ UNCHANGED <<pc, op, currCap, elemCount, newCap, src, copied, tmpPair, batchVars, dict>>

(* A pair closer to its home gives its slot up and is carried on.          *)
ProbeSwap ==
  /\ pc = "probe" /\ pos \in DOMAIN Target
  /\ currPsa > Target[pos].off
  /\ PutTarget(Store(Target, pos, EntryOf(tmpPair, currPsa)))
  /\ tmpPair' = Carried(Target[pos])
  /\ currPsa' = (Target[pos].off + 1) % Uint32Range
  /\ pos' = NextSlot(pos, TargetSlots)
  /\ UNCHANGED <<pc, op, currCap, elemCount, newCap, src, copied, batchVars, dict>>

(***************************************************************************)
(* The loop of NkHashtableInsertMulti over its pairs.                      *)
(***************************************************************************)
(* Fault: a pair that is skipped is counted as added.                      *)
BatchSkip_Counts ==
  /\ pc = "batch" /\ batch # <<>>
  /\ NkHashtableContains(Head(batch).key)
  /\ batch' = Tail(batch)
  /\ actAdded' = actAdded + 1
  /\ UNCHANGED <<pc, op, tableVars, buildVars, probeVars, dict>>

BatchSkip ==
  /\ pc = "batch" /\ batch # <<>>
  /\ NkHashtableContains(Head(batch).key)
  /\ batch' = Tail(batch)
  /\ UNCHANGED <<pc, op, tableVars, buildVars, probeVars, actAdded, dict>>

(* Fault: the keys already there are not looked up.                        *)
BatchInsert_NoLookup(home) ==
  /\ pc = "batch" /\ batch # <<>>
  /\ tmpPair' = [key |-> Head(batch).key, val |-> Head(batch).val, home |-> home]
  /\ pos' = home /\ currPsa' = 0
  /\ batch' = Tail(batch)
  /\ dict' = dict \cup {Head(batch)}
  /\ pc' = "probe"
  /\ UNCHANGED <<op, tableVars, buildVars, actAdded>>

BatchInsert(home) ==
  /\ pc = "batch" /\ batch # <<>>
  /\ ~NkHashtableContains(Head(batch).key)
  /\ tmpPair' = [key |-> Head(batch).key, val |-> Head(batch).val, home |-> home]
  /\ pos' = home /\ currPsa' = 0
  /\ batch' = Tail(batch)
  /\ dict' = dict \cup {Head(batch)}
  /\ pc' = "probe"
  /\ UNCHANGED <<op, tableVars, buildVars, actAdded>>

BatchDone ==
  /\ pc = "batch" /\ batch = <<>>
  /\ elemCount' = elemCount + actAdded
  /\ pc' = "idle" /\ op' = "none" /\ actAdded' = 0
  /\ UNCHANGED <<elemArray, currCap, buildVars, probeVars, batch, dict>>

(***************************************************************************)
(* NkHashtableErase and NkHashtableExtract: the slot becomes free and      *)
(* nothing is moved back.  They differ in what mp_fnElemFree destroys.     *)
(***************************************************************************)
EraseSlot(k) ==
  \E i \in LocKey(k) :
    /\ elemArray' = Release(elemArray, i)
    /\ elemCount' = elemCount - 1
    /\ dict' = dict \ {Plain(elemArray[i])}
    /\ UNCHANGED <<pc, op, currCap, buildVars, probeVars, batchVars>>

NkHashtableErase(k) ==
  /\ pc = "idle"
  /\ \/ EraseSlot(k)
     \/ ~NkHashtableContains(k) /\ UNCHANGED vars

NkHashtableExtract(k) ==
  /\ pc = "idle"
  /\ \/ EraseSlot(k)
     \/ ~NkHashtableContains(k) /\ UNCHANGED vars

(***************************************************************************)
(* NkHashtableClear rebuilds the array at the minimum capacity with the    *)
(* old elements still in it; if NkGPAlloc fails the old array is zeroed.   *)
(***************************************************************************)
ClearRebuild ==
  /\ pc = "idle"
  /\ pc' = "copy" /\ op' = "clear"
  /\ newArray' = <<>> /\ newCap' = MinCap /\ src' = 0 /\ copied' = 0
  /\ UNCHANGED <<tableVars, probeVars, batchVars, dict>>

ClearInPlace ==
  /\ pc = "idle"
  /\ elemArray' = <<>> /\ elemCount' = 0 /\ dict' = {}
  /\ UNCHANGED <<pc, op, currCap, buildVars, probeVars, batchVars>>

NkHashtableClear == ClearRebuild \/ ClearInPlace

(* The steps of the call that is running.                                  *)
Running ==
  \/ CopySkip
  \/ \E home \in Homes(newCap) : CopyPair(home)
  \/ CopyDone
  \/ ProbePlace \/ ProbeWalk \/ ProbeSwap
  \/ BatchSkip
  \/ \E home \in Homes(currCap) : BatchInsert(home)
  \/ BatchDone

Next ==
  \/ NkHashtableCreate \/ NkHashtableDestroy
  \/ \E ps \in Batches : NkHashtableInsertMulti(ps)
  \/ \E k \in Keys : NkHashtableErase(k) \/ NkHashtableExtract(k)
  \/ NkHashtableClear
  \/ Running

(* A call that has been made keeps running: its thread is scheduled.       *)
Spec == Init /\ [][Next]_vars /\ WF_vars(Running)
-----------------------------------------------------------------------------
InFlight == IF tmpPair = NoPair THEN {} ELSE {Plain(tmpPair)}

(* The fields hold what the declarations in htable.c say.                  *)
TypeOK ==
  /\ pc \in {"absent", "idle", "batch", "copy", "probe"}
  /\ op \in {"none", "insert", "clear"}
  /\ currCap \in 0 .. MaxCap /\ newCap \in 0 .. MaxCap
  /\ DOMAIN elemArray \subseteq 0 .. (currCap - 1)
  /\ \A i \in DOMAIN elemArray : elemArray[i] \in Entry
  /\ DOMAIN newArray \subseteq 0 .. (newCap - 1)
  /\ \A i \in DOMAIN newArray : newArray[i] \in Entry
  /\ elemCount \in 0 .. MaxCap /\ src \in 0 .. MaxCap
  /\ copied \in Nat /\ actAdded \in Nat
  /\ pc = "probe" <=> tmpPair # NoPair
  /\ pos \in 0 .. MaxCap /\ currPsa \in 0 .. (Uint32Range - 1)
  /\ dict \subseteq Pair

(* No pair is lost while pairs are displaced: what the calls have put into *)
(* the table is in its slots, but for the one in flight.                   *)
Conserved == dict = PairsOf(elemArray) \cup (IF Building THEN {} ELSE InFlight)

(* No key is in two places, in the table or in flight, although the probe  *)
(* loop never compares keys.                                               *)
KeysUnique ==
  /\ \A i, j \in DOMAIN elemArray : elemArray[i].key = elemArray[j].key => i = j
  /\ \A p, q \in dict : p.key = q.key => p = q

(* m_elemCount, with what the running call has added, counts the slots in  *)
(* use: the loops bounded by it reach every element.                       *)
CountExact == Cardinality(DOMAIN elemArray) = elemCount + actAdded

(* m_offset is the distance of an entry from the slot its key hashed to.   *)
OffsetIsDistance ==
  pc \in {"idle", "batch"} =>
    \A i \in DOMAIN elemArray :
      elemArray[i].off = (i - elemArray[i].home) % currCap

(* The probe loop of an insertion finds a free slot: it has no other way   *)
(* to end, since its counter j is never incremented.                       *)
RoomLeft ==
  pc = "probe" /\ op = "insert" => Cardinality(DOMAIN Target) < TargetSlots

(* Every insertion returns.                                                *)
InsertTerminates == (op = "insert") ~> (pc = "idle")

(* Clearing the table returns.                                             *)
ClearTerminates == (op = "clear") ~> (pc = "idle")
=============================================================================
