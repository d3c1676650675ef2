--------------------------- MODULE HashtableProofs --------------------------
(***************************************************************************)
(* Proofs about Hashtable, for any keys, values and capacities.            *)
(***************************************************************************)
EXTENDS Hashtable, FiniteSetTheorems, TLAPS

(***************************************************************************)
(* Arrays                                                                  *)
(***************************************************************************)
(* The slots in use lie inside the array and hold entries.                 *)
Slots(a, cap) == DOMAIN a \subseteq 0 .. (cap - 1) /\ \A i \in DOMAIN a : a[i] \in Entry

Keyed(a) == \A i, j \in DOMAIN a : a[i].key = a[j].key => i = j

Missing(a, k) == \A i \in DOMAIN a : a[i].key # k

(* How far slot i is from slot h, walking upwards.                         *)
Dist(i, h, cap) == IF i >= h THEN i - h ELSE i - h + cap

Placed(a, cap) ==
  \A i \in DOMAIN a : a[i].home \in 0 .. (cap - 1) /\ a[i].off = Dist(i, a[i].home, cap)

(* The pair in flight has passed only slots in use since its home.         *)
Passed(a, cap, p, i, psa) ==
  /\ p.home \in 0 .. (cap - 1) /\ psa = Dist(i, p.home, cap)
  /\ \A k \in 0 .. (cap - 1) : Dist(k, p.home, cap) < psa => k \in DOMAIN a

CarriedType == [key : Keys, val : Values, home : Nat]

(***************************************************************************)
(* The inductive invariant                                                 *)
(***************************************************************************)
(* Where the call is, and what it then uses.                               *)
PhaseInv ==
  /\ pc \in {"absent", "idle", "batch", "copy", "probe"}
  /\ pc \in {"absent", "idle"} => op = "none" /\ batch = <<>>
  /\ pc = "batch" => op = "insert"
  /\ pc \in {"copy", "probe"} => op \in {"insert", "clear"}
  /\ pc \in {"absent", "idle", "batch"} => newCap = 0
  /\ pc \in {"absent", "idle"} => actAdded = 0
  /\ pc = "copy" => newCap > 0
  /\ newCap > 0 => actAdded = 0
  /\ newCap = 0 => src = 0 /\ copied = 0
  /\ op = "clear" => newCap > 0 /\ batch = <<>>
  /\ pc # "absent" => currCap > 0
  /\ batch \in Seq(Pair)

ArrayInv ==
  /\ currCap \in 0 .. MaxCap /\ newCap \in 0 .. MaxCap
  /\ elemCount \in Nat /\ actAdded \in Nat /\ copied \in Nat /\ src \in 0 .. currCap
  /\ Slots(elemArray, currCap) /\ Keyed(elemArray)
  /\ Slots(newArray, newCap) /\ Keyed(newArray)
  /\ Cardinality(DOMAIN elemArray) = elemCount + actAdded
  /\ op = "insert" =>
       elemCount + actAdded + Len(batch) + (IF pc = "probe" /\ ~Building THEN 1 ELSE 0)
         <= TargetSlots

(* The pair in flight: nobody else has its key.                            *)
FlightInv ==
  /\ pos \in Nat /\ currPsa \in 0 .. (Uint32Range - 1)
  /\ pc # "probe" => tmpPair = NoPair /\ pos = 0
  /\ pc = "probe" => tmpPair \in CarriedType /\ pos \in 0 .. (TargetSlots - 1)
                     /\ Missing(Target, tmpPair.key)

(* Offsets are distances, also of the pair in flight.                      *)
PlaceInv ==
  /\ Placed(elemArray, currCap)
  /\ op = "insert" => Placed(newArray, newCap)
  /\ pc = "probe" /\ op = "insert" => Passed(Target, TargetSlots, tmpPair, pos, currPsa)

Upto(n) == {i \in DOMAIN elemArray : i < n}
PairsIn(S) == {Plain(elemArray[i]) : i \in S}

(* The new array and the pair in flight are what was copied so far.        *)
CopyInv ==
  Building =>
    /\ Cardinality(DOMAIN newArray) = copied /\ Cardinality(Upto(src)) = copied
    /\ pc = "probe" => src \in DOMAIN elemArray /\ copied < elemCount
    /\ PairsOf(newArray) \cup InFlight = PairsIn(Upto(IF pc = "probe" THEN src + 1 ELSE src))

DictInv == dict \subseteq Pair /\ Conserved

TableInv == PhaseInv /\ ArrayInv /\ FlightInv /\ CopyInv /\ DictInv
HashInv == TableInv /\ PlaceInv

(***************************************************************************)
(* Arithmetic                                                              *)
(***************************************************************************)
LEMMA ModSmall ==
  ASSUME NEW x \in Nat, NEW m \in Nat \ {0}
  PROVE  x % m \in 0 .. (m - 1) /\ (x < m => x % m = x)
OBVIOUS

(* The distance is what m_offset is said to be.                            *)
LEMMA DistMod ==
  ASSUME NEW cap \in Nat \ {0}, NEW i \in 0 .. (cap - 1), NEW h \in 0 .. (cap - 1)
  PROVE  Dist(i, h, cap) = (i - h) % cap /\ Dist(i, h, cap) \in 0 .. (cap - 1)
BY DEF Dist

LEMMA DistNext ==
  ASSUME NEW cap \in Nat \ {0}, NEW i \in 0 .. (cap - 1), NEW h \in 0 .. (cap - 1)
  PROVE  /\ NextSlot(i, cap) \in 0 .. (cap - 1)
         /\ Dist(i, h, cap) + 1 < cap => Dist(NextSlot(i, cap), h, cap) = Dist(i, h, cap) + 1
         /\ Dist(h, h, cap) = 0
BY DEF Dist, NextSlot

LEMMA TargetRoom ==
  ASSUME NEW n \in Nat, n <= MaxCap
  PROVE  TargetCap(n) \in 1 .. MaxCap /\ n <= TargetCap(n)
BY CapAssumption DEF TargetCap

LEMMA PairFacts ==
  /\ \A p \in CarriedType : p # NoPair /\ Plain(p) \in Pair
  /\ \A p \in Pair : p = Plain(p)
  /\ \A p \in Pair, h \in Nat : [key |-> p.key, val |-> p.val, home |-> h] \in CarriedType
BY DEF CarriedType, NoPair, Pair, Plain

(***************************************************************************)
(* What the probe loop does to an array                                    *)
(***************************************************************************)
LEMMA EntryFacts ==
  /\ \A p \in CarriedType, psa \in Nat :
       /\ EntryOf(p, psa) \in Entry /\ EntryOf(p, psa).key = p.key
       /\ EntryOf(p, psa).home = p.home /\ EntryOf(p, psa).off = psa
       /\ Plain(EntryOf(p, psa)) = Plain(p)
  /\ \A e \in Entry : /\ Carried(e) \in CarriedType /\ Carried(e).key = e.key
                      /\ Carried(e).home = e.home
                      /\ Plain(Carried(e)) = Plain(e) /\ Plain(e) \in Pair
                      /\ Plain(e).key = e.key /\ e.off \in Nat
BY DEF CarriedType, Entry, EntryOf, Carried, Plain, Pair

LEMMA SlotsFinite ==
  ASSUME NEW a, NEW cap \in Nat, Slots(a, cap)
  PROVE  IsFiniteSet(DOMAIN a) /\ Cardinality(DOMAIN a) \in 0 .. cap
<1>1. IsFiniteSet(0 .. (cap - 1)) /\ Cardinality(0 .. (cap - 1)) = cap
  <2>1. 0 \in Int /\ cap - 1 \in Int
    OBVIOUS
  <2> QED BY <2>1, FS_Interval
<1>2. PICK S : S = DOMAIN a
  OBVIOUS
<1>3. S \subseteq 0 .. (cap - 1)
  BY <1>2 DEF Slots
<1>4. IsFiniteSet(S) /\ Cardinality(S) <= cap /\ Cardinality(S) \in Nat
  BY <1>1, <1>3, FS_Subset, FS_CardinalityType
<1> QED BY <1>2, <1>4

(* A free slot takes the pair.                                             *)
LEMMA PlaceFacts ==
  ASSUME NEW a, NEW cap \in Nat, Slots(a, cap), Keyed(a), NEW p \in CarriedType, Missing(a, p.key),
         NEW i \in 0 .. (cap - 1), i \notin DOMAIN a, NEW psa \in Nat,
         NEW b, b = Store(a, i, EntryOf(p, psa))
  PROVE  /\ Slots(b, cap) /\ Keyed(b)
         /\ PairsOf(b) = PairsOf(a) \cup {Plain(p)}
         /\ Cardinality(DOMAIN b) = Cardinality(DOMAIN a) + 1
<1>1. PICK e \in Entry : e = EntryOf(p, psa) /\ e.key = p.key /\ Plain(e) = Plain(p)
  BY EntryFacts
<1>2. DOMAIN b = DOMAIN a \cup {i} /\ b[i] = e /\ \A k \in DOMAIN a : b[k] = a[k]
  <2>1. b = Store(a, i, e)
    BY <1>1
  <2> QED BY <2>1 DEF Store
<1>3. Slots(b, cap)
  BY <1>2 DEF Slots
<1>4. Keyed(b)
  BY <1>1, <1>2 DEF Keyed, Missing
<1>5. PairsOf(b) = PairsOf(a) \cup {Plain(e)}
  BY <1>2 DEF PairsOf, Plain
<1>6. PICK S : S = DOMAIN a
  OBVIOUS
<1>7. IsFiniteSet(S) /\ i \notin S
  BY <1>6, SlotsFinite
<1>8. Cardinality(S \cup {i}) = Cardinality(S) + 1
  BY <1>7, FS_AddElement
<1> QED BY <1>1, <1>2, <1>3, <1>4, <1>5, <1>6, <1>8

(* A pair in flight and an entry change places.                            *)
LEMMA SwapFacts ==
  ASSUME NEW a, NEW cap, Slots(a, cap), Keyed(a), NEW p \in CarriedType, Missing(a, p.key),
         NEW i \in DOMAIN a, NEW psa \in Nat,
         NEW b, b = Store(a, i, EntryOf(p, psa)), NEW q, q = Carried(a[i])
  PROVE  /\ Slots(b, cap) /\ Keyed(b) /\ DOMAIN b = DOMAIN a
         /\ q \in CarriedType /\ Missing(b, q.key) /\ q.home = a[i].home
         /\ PairsOf(b) \cup {Plain(q)} = PairsOf(a) \cup {Plain(p)}
<1>1. PICK e \in Entry : e = EntryOf(p, psa) /\ e.key = p.key /\ Plain(e) = Plain(p)
  BY EntryFacts
<1>2. DOMAIN b = DOMAIN a /\ b[i] = e /\ \A k \in DOMAIN a : k # i => b[k] = a[k]
  <2>1. b = Store(a, i, e)
    BY <1>1
  <2> QED BY <2>1 DEF Store
<1>3. a[i] \in Entry
  BY DEF Slots
<1>4. q \in CarriedType /\ q.home = a[i].home /\ q.key = a[i].key /\ Plain(q) = Plain(a[i])
  BY <1>3, EntryFacts
<1>5. Slots(b, cap)
  BY <1>2 DEF Slots
<1>6. Keyed(b) /\ Missing(b, q.key)
  BY <1>1, <1>2, <1>4 DEF Keyed, Missing
<1>7. PairsOf(b) \cup {Plain(a[i])} = PairsOf(a) \cup {Plain(e)}
  <2>1. PairsOf(a) = {Plain(a[k]) : k \in DOMAIN a} /\ PairsOf(b) = {Plain(b[k]) : k \in DOMAIN b}
    BY DEF PairsOf, Plain
  <2> QED BY <1>2, <2>1
<1> QED BY <1>1, <1>2, <1>4, <1>5, <1>6, <1>7

LEMMA StorePlaced ==
  ASSUME NEW a, NEW cap \in Nat \ {0}, Placed(a, cap), NEW p \in CarriedType,
         NEW i \in 0 .. (cap - 1), NEW psa \in Nat, Passed(a, cap, p, i, psa),
         NEW b, b = Store(a, i, EntryOf(p, psa))
  PROVE  Placed(b, cap)
<1>1. PICK e \in Entry : e = EntryOf(p, psa) /\ e.home = p.home /\ e.off = psa
  BY EntryFacts
<1>2. DOMAIN b = DOMAIN a \cup {i} /\ b[i] = e /\ \A k \in DOMAIN a : k # i => b[k] = a[k]
  <2>1. b = Store(a, i, e)
    BY <1>1
  <2> QED BY <2>1 DEF Store
<1>3. e.home \in 0 .. (cap - 1) /\ e.off = Dist(i, e.home, cap)
  BY <1>1 DEF Passed
<1> QED BY <1>2, <1>3 DEF Placed

(* With a free slot left, the walk does not come back to where it began.   *)
LEMMA WalkPassed ==
  ASSUME NEW a, NEW cap \in Nat \ {0}, Slots(a, cap), Cardinality(DOMAIN a) < cap,
         NEW p, NEW i \in DOMAIN a, NEW psa \in Nat, Passed(a, cap, p, i, psa)
  PROVE  psa + 1 < cap /\ Passed(a, cap, p, NextSlot(i, cap), psa + 1)
<1>1. PICK h \in 0 .. (cap - 1) : h = p.home
  BY DEF Passed
<1>2. i \in 0 .. (cap - 1)
  BY DEF Slots
<1>3. psa = Dist(i, h, cap) /\ \A k \in 0 .. (cap - 1) : Dist(k, h, cap) < psa => k \in DOMAIN a
  BY <1>1 DEF Passed
<1>4. psa + 1 < cap
  <2> SUFFICES ASSUME psa + 1 >= cap PROVE FALSE
    OBVIOUS
  <2>1. psa = cap - 1
    <3>1. Dist(i, h, cap) \in 0 .. (cap - 1)
      BY <1>2, DistMod
    <3> QED BY <1>3, <3>1
  <2>2. \A k \in 0 .. (cap - 1) : k \in DOMAIN a
    <3> TAKE k \in 0 .. (cap - 1)
    <3>1. CASE k = i
      BY <3>1
    <3>2. CASE k # i
      BY <1>2, <1>3, <2>1, <3>2 DEF Dist
    <3> QED BY <3>1, <3>2
  <2>3. IsFiniteSet(0 .. (cap - 1)) /\ Cardinality(0 .. (cap - 1)) = cap
    <3>1. 0 \in Int /\ cap - 1 \in Int
      OBVIOUS
    <3> QED BY <3>1, FS_Interval
  <2>4. DOMAIN a = 0 .. (cap - 1)
    BY <2>2 DEF Slots
  <2> QED BY <2>3, <2>4
<1>5. Dist(NextSlot(i, cap), h, cap) = psa + 1
  BY <1>2, <1>3, <1>4, DistNext
<1>6. \A k \in 0 .. (cap - 1) : Dist(k, h, cap) < psa + 1 => k \in DOMAIN a
  <2> TAKE k \in 0 .. (cap - 1)
  <2>1. CASE Dist(k, h, cap) < psa
    BY <1>3, <2>1
  <2>2. CASE ~(Dist(k, h, cap) < psa)
    BY <1>2, <1>3, <2>2 DEF Dist
  <2> QED BY <2>1, <2>2
<1> QED BY <1>1, <1>4, <1>5, <1>6 DEF Passed

(* An entry that is displaced was nearer to its home than the pair that    *)
(* takes its slot, which has passed all slots in between.                  *)
LEMMA SwapPassed ==
  ASSUME NEW a, NEW cap \in Nat \ {0}, Slots(a, cap), Placed(a, cap),
         NEW p, NEW i \in DOMAIN a, NEW psa \in Nat, Passed(a, cap, p, i, psa), psa > a[i].off,
         NEW b, DOMAIN b = DOMAIN a, NEW q, q.home = a[i].home
  PROVE  a[i].off + 1 < cap /\ Passed(b, cap, q, NextSlot(i, cap), a[i].off + 1)
<1>1. PICK h \in 0 .. (cap - 1) : h = p.home
  BY DEF Passed
<1>2. i \in 0 .. (cap - 1)
  BY DEF Slots
<1>3. psa = Dist(i, h, cap) /\ \A k \in 0 .. (cap - 1) : Dist(k, h, cap) < psa => k \in DOMAIN a
  BY <1>1 DEF Passed
<1>4. PICK g \in 0 .. (cap - 1), m \in 0 .. (cap - 1) :
        g = q.home /\ m = a[i].off /\ m = Dist(i, g, cap)
  BY <1>2, DistMod DEF Placed
<1>5. m + 1 < cap
  BY <1>2, <1>3, <1>4, DistMod
<1>6. Dist(NextSlot(i, cap), g, cap) = m + 1
  BY <1>2, <1>4, <1>5, DistNext
<1>7. \A k \in 0 .. (cap - 1) : Dist(k, g, cap) < m + 1 => k \in DOMAIN b
  <2> SUFFICES ASSUME NEW k \in 0 .. (cap - 1), Dist(k, g, cap) < m + 1 PROVE k \in DOMAIN a
    OBVIOUS
  <2>1. CASE k = i
    BY <2>1
  <2>2. CASE k # i
    <3>1. Dist(k, h, cap) < psa
      BY <1>2, <1>3, <1>4, <2>2 DEF Dist
    <3> QED BY <1>3, <3>1
  <2> QED BY <2>1, <2>2
<1> QED BY <1>4, <1>5, <1>6, <1>7 DEF Passed

(***************************************************************************)
(* Calls that begin, and calls of one step                                 *)
(***************************************************************************)
LEMMA EmptyArray ==
  /\ DOMAIN <<>> = {} /\ Cardinality(DOMAIN <<>>) = 0
  /\ \A cap : Slots(<<>>, cap) /\ Placed(<<>>, cap)
  /\ Keyed(<<>>) /\ PairsOf(<<>>) = {}
<1>1. DOMAIN <<>> = {}
  OBVIOUS
<1> QED BY <1>1, FS_EmptySet DEF Slots, Placed, Keyed, PairsOf

LEMMA HashInit == Init => HashInv
<1> SUFFICES ASSUME Init PROVE HashInv
  OBVIOUS
<1>1. /\ pc = "absent" /\ op = "none"
      /\ elemArray = <<>> /\ currCap = 0 /\ elemCount = 0
      /\ newArray = <<>> /\ newCap = 0 /\ src = 0 /\ copied = 0
      /\ tmpPair = NoPair /\ pos = 0 /\ currPsa = 0
      /\ batch = <<>> /\ actAdded = 0 /\ dict = {}
  BY DEF Init
<1>2. PhaseInv
  BY <1>1 DEF PhaseInv
<1>3. ArrayInv
  BY <1>1, EmptyArray, CapAssumption DEF ArrayInv
<1>4. FlightInv
  BY <1>1, CapAssumption DEF FlightInv
<1>5. PlaceInv
  BY <1>1, EmptyArray DEF PlaceInv
<1>6. CopyInv /\ DictInv
  BY <1>1, EmptyArray DEF CopyInv, DictInv, Conserved, Building, InFlight
<1> QED BY <1>2, <1>3, <1>4, <1>5, <1>6 DEF HashInv, TableInv

(* Between two calls: an empty table of any capacity.                      *)
LEMMA ResetStep ==
  ASSUME HashInv, pc \in {"absent", "idle"}, pc' \in {"absent", "idle"},
         elemArray' = <<>>, elemCount' = 0, dict' = {}, op' = "none",
         currCap' \in 0 .. MaxCap, pc' = "idle" => currCap' > 0,
         UNCHANGED <<buildVars, probeVars, batchVars>>
  PROVE  HashInv'
<1>0. UNCHANGED <<newArray, newCap, src, copied, tmpPair, pos, currPsa, batch, actAdded>>
  BY DEF buildVars, probeVars, batchVars
<1>1. PhaseInv /\ ArrayInv /\ FlightInv
  BY DEF HashInv, TableInv
<1>2. newCap = 0 /\ actAdded = 0 /\ src = 0 /\ tmpPair = NoPair
  BY <1>1 DEF PhaseInv, FlightInv
<1>3. PhaseInv'
  BY <1>0, <1>1 DEF PhaseInv
<1>4. ArrayInv'
  BY <1>0, <1>1, <1>2, EmptyArray DEF ArrayInv
<1>5. FlightInv'
  BY <1>0, <1>1 DEF FlightInv
<1>6. PlaceInv'
  BY <1>0, EmptyArray DEF PlaceInv
<1>7. CopyInv' /\ DictInv'
  BY <1>0, <1>2, EmptyArray DEF CopyInv, DictInv, Conserved, Building, InFlight
<1> QED BY <1>3, <1>4, <1>5, <1>6, <1>7 DEF HashInv, TableInv

LEMMA BatchType ==
  ASSUME NEW ps \in Batches
  PROVE  ps \in Seq(Pair) /\ Len(ps) \in Nat /\ Len(ps) >= 1
<1>1. PICK n \in 1 .. MaxBatch : ps \in [1 .. n -> Pair]
  BY DEF Batches
<1>2. n \in Nat /\ n >= 1
  BY CapAssumption
<1> QED BY <1>1, <1>2

LEMMA InsertInPlaceStep ==
  ASSUME HashInv, NEW ps \in Batches, InsertInPlace(ps)
  PROVE  HashInv'
<1>0. /\ pc = "idle" /\ pc' = "batch" /\ op' = "insert" /\ batch' = ps /\ actAdded' = 0
      /\ elemCount + Len(ps) <= MaxCap /\ ~NeedsRebuild(elemCount + Len(ps))
      /\ UNCHANGED <<elemArray, currCap, elemCount, newArray, newCap, src, copied,
                     tmpPair, pos, currPsa, dict>>
  BY DEF InsertInPlace, tableVars, buildVars, probeVars
<1>1. PhaseInv /\ ArrayInv /\ FlightInv /\ CopyInv /\ DictInv /\ PlaceInv
  BY DEF HashInv, TableInv
<1>2. newCap = 0 /\ actAdded = 0 /\ tmpPair = NoPair
  BY <1>0, <1>1 DEF PhaseInv, FlightInv
<1>3. PhaseInv'
  BY <1>0, <1>1, BatchType DEF PhaseInv
<1>4. elemCount + Len(ps) <= currCap
  <2>1. elemCount \in Nat /\ currCap \in Nat /\ Len(ps) \in Nat
    BY <1>1, BatchType, CapAssumption DEF ArrayInv
  <2>2. ~(4 * (elemCount + Len(ps)) >= 3 * currCap)
    BY <1>0 DEF NeedsRebuild
  <2> QED BY <2>1, <2>2
<1>5. ArrayInv'
  <2>1. elemCount \in Nat /\ Len(ps) \in Nat
    BY <1>1, BatchType DEF ArrayInv
  <2>2. (elemCount + actAdded + Len(batch) + (IF pc = "probe" /\ ~Building THEN 1 ELSE 0)
         <= TargetSlots)'
    BY <1>0, <1>2, <1>4, <2>1 DEF TargetSlots, Building
  <2> QED BY <1>0, <1>1, <1>2, <2>2 DEF ArrayInv
<1>6. FlightInv'
  BY <1>0, <1>1 DEF FlightInv
<1>7. PlaceInv'
  <2>1. Placed(newArray, newCap)
    BY <1>1, <1>2 DEF ArrayInv, Slots, Placed
  <2> QED BY <1>0, <1>1, <2>1 DEF PlaceInv
<1>8. CopyInv' /\ DictInv'
  BY <1>0, <1>1, <1>2 DEF CopyInv, DictInv, Conserved, Building, InFlight
<1> QED BY <1>3, <1>5, <1>6, <1>7, <1>8 DEF HashInv, TableInv

(* AdjustCapacity begins with an empty array.                              *)
LEMMA RebuildStep ==
  ASSUME HashInv, pc = "idle", pc' = "copy", op' \in {"insert", "clear"},
         newArray' = <<>>, newCap' \in 1 .. MaxCap, src' = 0, copied' = 0,
         batch' \in Seq(Pair), actAdded' = 0, op' = "insert" => elemCount + Len(batch') <= newCap',
         op' = "clear" => batch' = <<>>,
         UNCHANGED <<tableVars, probeVars, dict>>
  PROVE  HashInv'
<1>0. UNCHANGED <<elemArray, currCap, elemCount, tmpPair, pos, currPsa, dict>>
  BY DEF tableVars, probeVars
<1>1. PhaseInv /\ ArrayInv /\ FlightInv /\ CopyInv /\ DictInv /\ PlaceInv
  BY DEF HashInv, TableInv
<1>2. newCap = 0 /\ actAdded = 0 /\ tmpPair = NoPair
  BY <1>1 DEF PhaseInv, FlightInv
<1>3. PhaseInv'
  BY <1>0, <1>1, CapAssumption DEF PhaseInv
<1>4. ArrayInv'
  <2>1. elemCount \in Nat /\ currCap \in Nat /\ Len(batch') \in Nat /\ newCap' \in Nat /\ newCap' > 0
    BY <1>1, CapAssumption DEF ArrayInv
  <2>2. op' = "insert" =>
         (elemCount + actAdded + Len(batch) + (IF pc = "probe" /\ ~Building THEN 1 ELSE 0)
         <= TargetSlots)'
    BY <1>0, <2>1 DEF TargetSlots, Building
  <2> QED BY <1>0, <1>1, <1>2, <2>1, <2>2, EmptyArray DEF ArrayInv
<1>5. FlightInv'
  BY <1>0, <1>1 DEF FlightInv
<1>6. PlaceInv'
  BY <1>0, <1>1, EmptyArray DEF PlaceInv
<1>7. CopyInv'
  <2>1. Upto(0)' = {}
    BY <1>0, <1>1 DEF Upto, ArrayInv, Slots
  <2>2. PairsIn({})' = {}
    BY DEF PairsIn
  <2>3. InFlight' = {}
    BY <1>0, <1>2 DEF InFlight
  <2> QED BY <2>1, <2>2, <2>3, EmptyArray, FS_EmptySet DEF CopyInv
<1>8. DictInv'
  BY <1>0, <1>1, <1>2, CapAssumption DEF DictInv, Conserved, Building, InFlight
<1> QED BY <1>3, <1>4, <1>5, <1>6, <1>7, <1>8 DEF HashInv, TableInv

LEMMA CallBegins ==
  ASSUME HashInv,
         \/ NkHashtableCreate \/ NkHashtableDestroy \/ NkHashtableClear
         \/ \E ps \in Batches : NkHashtableInsertMulti(ps)
  PROVE  HashInv'
<1>1. CASE NkHashtableCreate \/ NkHashtableDestroy \/ ClearInPlace
  <2>1. /\ pc \in {"absent", "idle"} /\ pc' \in {"absent", "idle"}
        /\ elemArray' = <<>> /\ elemCount' = 0 /\ dict' = {} /\ op' = "none"
        /\ currCap' \in 0 .. MaxCap /\ (pc' = "idle" => currCap' > 0)
    BY <1>1, CapAssumption DEF NkHashtableCreate, NkHashtableDestroy, ClearInPlace, NoCall,
                               HashInv, TableInv, PhaseInv, ArrayInv
  <2>2. UNCHANGED <<buildVars, probeVars, batchVars>>
    BY <1>1 DEF NkHashtableCreate, NkHashtableDestroy, ClearInPlace, NoCall
  <2> QED BY <2>1, <2>2, ResetStep
<1>2. CASE ClearRebuild
  <2>1. MinCap \in 1 .. MaxCap
    BY CapAssumption
  <2>2. batch' = <<>> /\ actAdded' = 0 /\ batch' \in Seq(Pair)
    BY <1>2 DEF ClearRebuild, batchVars, HashInv, TableInv, PhaseInv
  <2> QED BY <1>2, <2>1, <2>2, RebuildStep DEF ClearRebuild
<1>3. ASSUME NEW ps \in Batches, InsertRefused(ps)
      PROVE  HashInv'
  BY <1>3 DEF InsertRefused, vars, tableVars, buildVars, probeVars, batchVars,
              HashInv, TableInv, PhaseInv, ArrayInv, FlightInv, CopyInv, DictInv, PlaceInv,
              Conserved, Building, InFlight, Target, TargetSlots, Upto, PairsIn
<1>4. ASSUME NEW ps \in Batches, InsertRebuild(ps)
      PROVE  HashInv'
  <2>1. /\ pc = "idle" /\ elemCount + Len(ps) <= MaxCap /\ newCap' = TargetCap(elemCount + Len(ps))
        /\ pc' = "copy" /\ op' = "insert" /\ newArray' = <<>> /\ src' = 0 /\ copied' = 0
        /\ batch' = ps /\ actAdded' = 0 /\ UNCHANGED <<tableVars, probeVars, dict>>
    BY <1>4 DEF InsertRebuild
  <2>2. elemCount + Len(ps) \in Nat
    BY BatchType DEF HashInv, TableInv, ArrayInv
  <2>3. newCap' \in 1 .. MaxCap /\ elemCount + Len(ps) <= newCap'
    BY <2>1, <2>2, TargetRoom
  <2> QED BY <2>1, <2>3, BatchType, RebuildStep
<1> QED BY <1>1, <1>2, <1>3, <1>4, InsertInPlaceStep DEF NkHashtableClear, NkHashtableInsertMulti

(***************************************************************************)
(* The copy loop                                                           *)
(***************************************************************************)
LEMMA CopySkipStep ==
  ASSUME HashInv, CopySkip
  PROVE  HashInv'
<1>0. /\ pc = "copy" /\ src < currCap /\ src \notin DOMAIN elemArray /\ src' = src + 1
      /\ UNCHANGED <<pc, op, elemArray, currCap, elemCount, newArray, newCap, copied,
                     tmpPair, pos, currPsa, batch, actAdded, dict>>
  BY DEF CopySkip, CopyContinues, tableVars, probeVars, batchVars
<1>1. PhaseInv /\ ArrayInv /\ FlightInv /\ CopyInv /\ DictInv /\ PlaceInv
  BY DEF HashInv, TableInv
<1>2. newCap > 0 /\ src \in Nat /\ currCap \in Nat /\ newCap \in Nat
  BY <1>0, <1>1, CapAssumption DEF PhaseInv, ArrayInv
<1>3. PhaseInv'
  BY <1>0, <1>1, <1>2 DEF PhaseInv
<1>4. ArrayInv'
  BY <1>0, <1>1, <1>2 DEF ArrayInv, TargetSlots, Building
<1>5. FlightInv' /\ PlaceInv'
  BY <1>0, <1>1 DEF FlightInv, PlaceInv
<1>6. Upto(src + 1) = Upto(src)
  BY <1>0, <1>1, <1>2 DEF Upto, ArrayInv, Slots
<1>7. CopyInv'
  <2>1. Upto(src)' = Upto(src)
    BY <1>0, <1>6 DEF Upto
  <2>2. PairsIn(Upto(src))' = PairsIn(Upto(src)) /\ InFlight' = InFlight
    BY <1>0, <2>1 DEF PairsIn, InFlight
  <2> QED BY <1>0, <1>1, <1>2, <2>1, <2>2 DEF CopyInv, Building
<1>8. DictInv'
  BY <1>0, <1>1 DEF DictInv, Conserved, Building, InFlight
<1> QED BY <1>3, <1>4, <1>5, <1>7, <1>8 DEF HashInv, TableInv

LEMMA CopyPairStep ==
  ASSUME HashInv, NEW home \in Homes(newCap), CopyPair(home)
  PROVE  HashInv'
<1>0. /\ pc = "copy" /\ src < currCap /\ copied < elemCount /\ src \in DOMAIN elemArray
      /\ tmpPair' = [key |-> elemArray[src].key, val |-> elemArray[src].val, home |-> home]
      /\ pos' = home /\ currPsa' = 0 /\ pc' = "probe"
      /\ UNCHANGED <<op, elemArray, currCap, elemCount, newArray, newCap, src, copied,
                     batch, actAdded, dict>>
  BY DEF CopyPair, CopyContinues, tableVars, buildVars, batchVars
<1>1. PhaseInv /\ ArrayInv /\ FlightInv /\ CopyInv /\ DictInv /\ PlaceInv
  BY DEF HashInv, TableInv
<1>2. /\ newCap > 0 /\ src \in Nat /\ currCap \in Nat /\ newCap \in Nat \ {0}
      /\ home \in 0 .. (newCap - 1) /\ tmpPair = NoPair
  BY <1>0, <1>1, CapAssumption DEF PhaseInv, ArrayInv, Homes, FlightInv
<1>3. elemArray[src] \in Entry /\ Keyed(elemArray)
  BY <1>0, <1>1 DEF ArrayInv, Slots
<1>4. PICK e \in Entry : e = elemArray[src]
  BY <1>3
<1>5. /\ tmpPair' \in CarriedType /\ tmpPair'.key = e.key /\ tmpPair'.home = home
      /\ Plain(tmpPair') = Plain(e)
  BY <1>0, <1>2, <1>4 DEF CarriedType, Entry, Plain
<1>6. PairsOf(newArray) = PairsIn(Upto(src))
  BY <1>0, <1>1, <1>2 DEF CopyInv, Building, InFlight
<1>7. Missing(newArray, e.key)
  <2> SUFFICES ASSUME NEW k \in DOMAIN newArray, newArray[k].key = e.key PROVE FALSE
    BY DEF Missing
  <2>1. newArray[k] \in Entry
    BY <1>1 DEF ArrayInv, Slots
  <2>2. Plain(newArray[k]) \in PairsIn(Upto(src))
    BY <1>6 DEF PairsOf, Plain
  <2>3. PICK m \in Upto(src) : Plain(newArray[k]) = Plain(elemArray[m])
    BY <2>2 DEF PairsIn
  <2>4. m \in DOMAIN elemArray /\ m < src /\ elemArray[m] \in Entry
    BY <1>1 DEF Upto, ArrayInv, Slots
  <2>5. elemArray[m].key = newArray[k].key
    BY <2>1, <2>3, <2>4, EntryFacts
  <2>6. m = src
    BY <1>0, <1>3, <1>4, <2>4, <2>5 DEF Keyed
  <2> QED BY <1>2, <2>4, <2>6
<1>8. PhaseInv'
  BY <1>0, <1>1, <1>2 DEF PhaseInv
<1>9. ArrayInv'
  BY <1>0, <1>1, <1>2 DEF ArrayInv, TargetSlots, Building
<1>10. FlightInv'
  BY <1>0, <1>2, <1>5, <1>7, CapAssumption DEF FlightInv, Target, TargetSlots, Building
<1>11. PlaceInv'
  <2>1. Dist(home, home, newCap) = 0 /\ \A k \in 0 .. (newCap - 1) : ~(Dist(k, home, newCap) < 0)
    BY <1>2 DEF Dist
  <2>2. Passed(Target, TargetSlots, tmpPair, pos, currPsa)'
    BY <1>0, <1>2, <1>5, <2>1 DEF Passed, Target, TargetSlots, Building
  <2> QED BY <1>0, <1>1, <2>2 DEF PlaceInv
<1>12. CopyInv'
  <2>1. /\ Upto(src)' = Upto(src) /\ Upto(src + 1) = Upto(src) \cup {src}
        /\ Upto(src + 1)' = Upto(src + 1)
    BY <1>0, <1>1, <1>2 DEF Upto, ArrayInv, Slots
  <2>2. PairsIn(Upto(src + 1))' = PairsIn(Upto(src)) \cup {Plain(e)}
    BY <1>0, <1>4, <2>1 DEF PairsIn
  <2>3. InFlight' = {Plain(e)}
    BY <1>5, PairFacts DEF InFlight
  <2>4. PairsOf(newArray)' = PairsIn(Upto(src))
    BY <1>0, <1>6 DEF PairsOf
  <2> QED BY <1>0, <1>1, <1>2, <2>1, <2>2, <2>3, <2>4 DEF CopyInv, Building
<1>13. DictInv'
  BY <1>0, <1>1, <1>2 DEF DictInv, Conserved, Building
<1> QED BY <1>8, <1>9, <1>10, <1>11, <1>12, <1>13 DEF HashInv, TableInv

(* When the loop ends every pair has been copied: no used slot is left, or *)
(* as many pairs were copied as there are.                                 *)
LEMMA AllCopied ==
  ASSUME HashInv, pc = "copy", ~CopyContinues
  PROVE  copied = elemCount /\ PairsOf(newArray) = PairsOf(elemArray)
<1>1. PhaseInv /\ ArrayInv /\ FlightInv /\ CopyInv
  BY DEF HashInv, TableInv
<1>2. /\ Building /\ actAdded = 0 /\ tmpPair = NoPair
      /\ src \in 0 .. currCap /\ currCap \in Nat /\ copied \in Nat /\ elemCount \in Nat
  BY <1>1, CapAssumption DEF PhaseInv, ArrayInv, FlightInv, Building
<1>3. Cardinality(Upto(src)) = copied /\ PairsOf(newArray) = PairsIn(Upto(src))
  BY <1>1, <1>2 DEF CopyInv, InFlight
<1>4. PICK S : S = DOMAIN elemArray
  OBVIOUS
<1>5. IsFiniteSet(S) /\ Cardinality(S) = elemCount
  BY <1>1, <1>2, <1>4, SlotsFinite DEF ArrayInv
<1>6. Upto(src) \subseteq S
  BY <1>4 DEF Upto
<1>7. Upto(src) = S
  <2>1. CASE src >= currCap
    <3>1. S \subseteq 0 .. (currCap - 1) /\ src = currCap
      BY <1>1, <1>2, <1>4, <2>1 DEF ArrayInv, Slots
    <3>2. \A k \in S : k < src
      BY <1>2, <3>1
    <3> QED BY <1>4, <3>2 DEF Upto
  <2>2. CASE copied >= elemCount
    BY <1>2, <1>3, <1>5, <1>6, <2>2, FS_Subset
  <2> QED BY <1>2, <2>1, <2>2 DEF CopyContinues
<1>8. PairsIn(S) = PairsOf(elemArray)
  BY <1>4 DEF PairsIn, PairsOf, Plain
<1> QED BY <1>3, <1>5, <1>7, <1>8

LEMMA CopyDoneStep ==
  ASSUME HashInv, CopyDone
  PROVE  HashInv'
<1>0. /\ pc = "copy" /\ ~CopyContinues /\ currCap' = newCap
      /\ newArray' = <<>> /\ newCap' = 0 /\ src' = 0 /\ copied' = 0
      /\ UNCHANGED <<tmpPair, pos, currPsa, batch, actAdded>>
  BY DEF CopyDone, probeVars, batchVars
<1>1. PhaseInv /\ ArrayInv /\ FlightInv /\ CopyInv /\ DictInv /\ PlaceInv
  BY DEF HashInv, TableInv
<1>2. /\ newCap > 0 /\ newCap \in Nat /\ actAdded = 0 /\ tmpPair = NoPair /\ Building
      /\ op \in {"insert", "clear"} /\ elemCount \in Nat /\ newCap \in 0 .. MaxCap
  BY <1>0, <1>1, CapAssumption DEF PhaseInv, ArrayInv, FlightInv, Building
<1>3. InFlight' = {} /\ ~Building'
  BY <1>0, <1>2 DEF InFlight, Building
<1>4. FlightInv'
  BY <1>0, <1>1, <1>2 DEF FlightInv, CopyDone
<1>5. CopyInv'
  BY <1>3 DEF CopyInv
<1>6. CASE op = "clear"
  <2>1. elemArray' = <<>> /\ elemCount' = 0 /\ dict' = {} /\ pc' = "idle" /\ op' = "none"
    BY <1>6 DEF CopyDone
  <2>2. batch = <<>>
    BY <1>1, <1>6 DEF PhaseInv
  <2>3. PhaseInv'
    BY <1>0, <1>2, <2>1, <2>2 DEF PhaseInv
  <2>4. ArrayInv' /\ PlaceInv'
    BY <1>0, <1>2, <2>1, EmptyArray, CapAssumption DEF ArrayInv, PlaceInv
  <2>5. DictInv'
    BY <1>3, <2>1, EmptyArray DEF DictInv, Conserved
  <2> QED BY <1>4, <1>5, <2>3, <2>4, <2>5 DEF HashInv, TableInv
<1>7. CASE op = "insert"
  <2>1. elemArray' = newArray /\ pc' = "batch" /\ UNCHANGED <<elemCount, dict, op>>
    BY <1>7 DEF CopyDone
  <2>2. copied = elemCount /\ PairsOf(newArray) = PairsOf(elemArray)
    BY <1>0, AllCopied
  <2>3. Cardinality(DOMAIN newArray) = elemCount
    BY <1>1, <1>2, <2>2 DEF CopyInv
  <2>4. PhaseInv'
    BY <1>0, <1>1, <1>2, <1>7, <2>1 DEF PhaseInv
  <2>5. ArrayInv'
    <3>1. Len(batch) \in Nat /\ elemCount + Len(batch) <= newCap
      BY <1>0, <1>1, <1>2, <1>7 DEF ArrayInv, PhaseInv, TargetSlots
    <3>2. (elemCount + actAdded + Len(batch) + (IF pc = "probe" /\ ~Building THEN 1 ELSE 0)
           <= TargetSlots)'
      BY <1>0, <1>2, <2>1, <3>1 DEF TargetSlots, Building
    <3> QED BY <1>0, <1>1, <1>2, <2>1, <2>3, <3>2, EmptyArray, CapAssumption DEF ArrayInv
  <2>6. PlaceInv'
    BY <1>0, <1>1, <1>7, <2>1, EmptyArray DEF PlaceInv
  <2>7. DictInv'
    BY <1>1, <1>2, <1>3, <2>1, <2>2 DEF DictInv, Conserved
  <2> QED BY <1>4, <1>5, <2>4, <2>5, <2>6, <2>7 DEF HashInv, TableInv
<1> QED BY <1>2, <1>6, <1>7

(***************************************************************************)
(* The probe loop                                                          *)
(***************************************************************************)
(* What is known of the array the loop works on.                           *)
LEMMA TargetFacts ==
  ASSUME HashInv, pc = "probe"
  PROVE  /\ TargetSlots \in Nat \ {0} /\ TargetSlots <= MaxCap
         /\ Slots(Target, TargetSlots) /\ Keyed(Target)
         /\ tmpPair \in CarriedType /\ tmpPair # NoPair /\ InFlight = {Plain(tmpPair)}
         /\ pos \in 0 .. (TargetSlots - 1) /\ Missing(Target, tmpPair.key)
         /\ currPsa \in 0 .. (Uint32Range - 1)
         /\ op = "insert" => /\ Placed(Target, TargetSlots)
                             /\ Passed(Target, TargetSlots, tmpPair, pos, currPsa)
                             /\ Cardinality(DOMAIN Target) < TargetSlots
<1>1. PhaseInv /\ ArrayInv /\ FlightInv /\ CopyInv /\ DictInv /\ PlaceInv
  BY DEF HashInv, TableInv
<1>2. TargetSlots \in Nat \ {0} /\ TargetSlots <= MaxCap
  BY <1>1, CapAssumption DEF PhaseInv, ArrayInv, TargetSlots, Building
<1>3. Slots(Target, TargetSlots) /\ Keyed(Target)
  BY <1>1 DEF ArrayInv, Target, TargetSlots
<1>4. /\ tmpPair \in CarriedType /\ pos \in 0 .. (TargetSlots - 1)
      /\ Missing(Target, tmpPair.key) /\ currPsa \in 0 .. (Uint32Range - 1)
  BY <1>1 DEF FlightInv
<1>5. tmpPair # NoPair
  BY <1>4, PairFacts
<1>6. op = "insert" => /\ Placed(Target, TargetSlots)
                       /\ Passed(Target, TargetSlots, tmpPair, pos, currPsa)
  BY <1>1 DEF PlaceInv, Target, TargetSlots
<1>7. ASSUME op = "insert" PROVE Cardinality(DOMAIN Target) < TargetSlots
  <2>0. Len(batch) \in Nat /\ elemCount \in Nat /\ actAdded \in Nat /\ copied \in Nat
    BY <1>1 DEF PhaseInv, ArrayInv
  <2>1. CASE Building
    <3>1. /\ Cardinality(DOMAIN Target) = copied /\ copied < elemCount /\ actAdded = 0
          /\ elemCount + actAdded + Len(batch) + 0 <= TargetSlots
      BY <1>1, <1>7, <2>1 DEF CopyInv, PhaseInv, ArrayInv, Building, Target
    <3> QED BY <1>2, <2>0, <3>1
  <2>2. CASE ~Building
    <3>1. /\ Cardinality(DOMAIN Target) = elemCount + actAdded
          /\ elemCount + actAdded + Len(batch) + 1 <= TargetSlots
      BY <1>1, <1>7, <2>2 DEF ArrayInv, Target
    <3> QED BY <1>2, <2>0, <3>1
  <2> QED BY <2>1, <2>2
<1> QED BY <1>2, <1>3, <1>4, <1>5, <1>6, <1>7 DEF InFlight

(* The loop goes on with a pair q at slot i, and nothing but the contents  *)
(* of the array changes.                                                   *)
LEMMA ProbeOn ==
  ASSUME HashInv, pc = "probe", NEW b, PutTarget(b), DOMAIN b = DOMAIN Target,
         Slots(b, TargetSlots), Keyed(b), NEW q \in CarriedType, tmpPair' = q,
         Missing(b, q.key), PairsOf(b) \cup {Plain(q)} = PairsOf(Target) \cup {Plain(tmpPair)},
         pos' \in 0 .. (TargetSlots - 1), currPsa' \in 0 .. (Uint32Range - 1),
         op = "insert" => Placed(b, TargetSlots) /\ Passed(b, TargetSlots, q, pos', currPsa'),
         UNCHANGED <<pc, op, currCap, elemCount, newCap, src, copied, batchVars, dict>>
  PROVE  HashInv'
<1>0. UNCHANGED <<batch, actAdded>>
  BY DEF batchVars
<1>1. PhaseInv /\ ArrayInv /\ FlightInv /\ CopyInv /\ DictInv /\ PlaceInv
  BY DEF HashInv, TableInv
<1>2. /\ tmpPair # NoPair /\ q # NoPair /\ InFlight = {Plain(tmpPair)} /\ InFlight' = {Plain(q)}
  BY TargetFacts, PairFacts DEF InFlight
<1>3. Building' = Building /\ TargetSlots' = TargetSlots
  BY DEF Building, TargetSlots
<1>4. PhaseInv'
  BY <1>0, <1>1 DEF PhaseInv
<1>5. CASE Building
  <2>1. newArray' = b /\ elemArray' = elemArray /\ Target = newArray /\ Target' = b
        /\ TargetSlots = newCap
    BY <1>3, <1>5 DEF PutTarget, Target, TargetSlots
  <2>2. ArrayInv'
    BY <1>0, <1>1, <1>3, <1>5, <2>1 DEF ArrayInv
  <2>3. FlightInv'
    BY <1>3, <2>1 DEF FlightInv
  <2>4. PlaceInv'
    BY <1>1, <1>3, <2>1 DEF PlaceInv
  <2>5. CopyInv'
    <3>1. \A n : PairsIn(Upto(n))' = PairsIn(Upto(n)) /\ Upto(n)' = Upto(n)
      BY <2>1 DEF PairsIn, Upto
    <3> QED BY <1>1, <1>2, <1>3, <1>5, <2>1, <3>1 DEF CopyInv
  <2>6. DictInv'
    BY <1>1, <1>3, <1>5, <2>1 DEF DictInv, Conserved
  <2> QED BY <1>4, <2>2, <2>3, <2>4, <2>5, <2>6 DEF HashInv, TableInv
<1>6. CASE ~Building
  <2>1. newArray' = newArray /\ elemArray' = b /\ Target = elemArray /\ Target' = b
        /\ TargetSlots = currCap
    BY <1>3, <1>6 DEF PutTarget, Target, TargetSlots
  <2>2. ArrayInv'
    BY <1>0, <1>1, <1>3, <1>6, <2>1 DEF ArrayInv
  <2>3. FlightInv'
    BY <1>3, <2>1 DEF FlightInv
  <2>4. op = "insert"
    BY <1>1, <1>6 DEF PhaseInv, Building, ArrayInv
  <2>5. PlaceInv'
    BY <1>1, <1>3, <2>1, <2>4 DEF PlaceInv
  <2>6. CopyInv'
    BY <1>3, <1>6 DEF CopyInv
  <2>7. DictInv'
    BY <1>1, <1>2, <1>3, <1>6, <2>1 DEF DictInv, Conserved
  <2> QED BY <1>4, <2>2, <2>3, <2>5, <2>6, <2>7 DEF HashInv, TableInv
<1> QED BY <1>5, <1>6

LEMMA ProbeWalkStep ==
  ASSUME HashInv, ProbeWalk
  PROVE  HashInv'
<1>0. /\ pc = "probe" /\ pos \in DOMAIN Target
      /\ currPsa' = (currPsa + 1) % Uint32Range /\ pos' = NextSlot(pos, TargetSlots)
      /\ UNCHANGED <<pc, op, elemArray, currCap, elemCount, newArray, newCap, src, copied,
                     tmpPair, batchVars, dict>>
  BY DEF ProbeWalk, tableVars, buildVars
<1>1. PutTarget(Target)
  BY <1>0 DEF PutTarget, Target
<1>2. /\ TargetSlots \in Nat \ {0} /\ TargetSlots <= MaxCap /\ currPsa \in Nat
      /\ Uint32Range \in Nat \ {0} /\ MaxCap < Uint32Range /\ MaxCap \in Nat
      /\ pos \in 0 .. (TargetSlots - 1)
  BY <1>0, TargetFacts, CapAssumption
<1>3. pos' \in 0 .. (TargetSlots - 1)
  BY <1>0, <1>2, DistNext
<1>4. currPsa' \in 0 .. (Uint32Range - 1)
  <2>1. currPsa + 1 \in Nat
    BY <1>2
  <2> QED BY <1>0, <1>2, <2>1, ModSmall
<1>5. ASSUME op = "insert"
      PROVE  Placed(Target, TargetSlots) /\ Passed(Target, TargetSlots, tmpPair, pos', currPsa')
  <2>1. /\ Placed(Target, TargetSlots) /\ Passed(Target, TargetSlots, tmpPair, pos, currPsa)
        /\ Cardinality(DOMAIN Target) < TargetSlots /\ Slots(Target, TargetSlots)
    BY <1>0, <1>5, TargetFacts
  <2>2. /\ currPsa + 1 < TargetSlots
        /\ Passed(Target, TargetSlots, tmpPair, NextSlot(pos, TargetSlots), currPsa + 1)
    BY <1>0, <1>2, <2>1, WalkPassed
  <2>3. currPsa + 1 \in Nat /\ currPsa + 1 < Uint32Range
    BY <1>2, <2>2
  <2>4. currPsa' = currPsa + 1
    BY <1>0, <1>2, <2>3, ModSmall
  <2> QED BY <1>0, <2>1, <2>2, <2>4
<1> QED BY <1>0, <1>1, <1>3, <1>4, <1>5, TargetFacts, ProbeOn

LEMMA ProbeSwapStep ==
  ASSUME HashInv, ProbeSwap
  PROVE  HashInv'
<1>0. /\ pc = "probe" /\ pos \in DOMAIN Target /\ currPsa > Target[pos].off
      /\ PutTarget(Store(Target, pos, EntryOf(tmpPair, currPsa)))
      /\ tmpPair' = Carried(Target[pos])
      /\ currPsa' = (Target[pos].off + 1) % Uint32Range /\ pos' = NextSlot(pos, TargetSlots)
      /\ UNCHANGED <<pc, op, currCap, elemCount, newCap, src, copied, batchVars, dict>>
  BY DEF ProbeSwap
<1>1. /\ TargetSlots \in Nat \ {0} /\ TargetSlots <= MaxCap /\ currPsa \in Nat
      /\ Uint32Range \in Nat \ {0} /\ MaxCap < Uint32Range /\ MaxCap \in Nat
      /\ pos \in 0 .. (TargetSlots - 1)
      /\ Slots(Target, TargetSlots) /\ Keyed(Target)
      /\ tmpPair \in CarriedType /\ Missing(Target, tmpPair.key)
  BY <1>0, TargetFacts, CapAssumption
<1>2. PICK b : b = Store(Target, pos, EntryOf(tmpPair, currPsa))
  OBVIOUS
<1>3. PICK q : q = Carried(Target[pos])
  OBVIOUS
<1>4. PICK m \in Nat : m = Target[pos].off
  BY <1>0, <1>1, EntryFacts DEF Slots
<1>5. /\ Slots(b, TargetSlots) /\ Keyed(b) /\ DOMAIN b = DOMAIN Target
      /\ q \in CarriedType /\ Missing(b, q.key) /\ q.home = Target[pos].home
      /\ PairsOf(b) \cup {Plain(q)} = PairsOf(Target) \cup {Plain(tmpPair)}
  BY <1>0, <1>1, <1>2, <1>3, SwapFacts
<1>6. pos' \in 0 .. (TargetSlots - 1)
  BY <1>0, <1>1, DistNext
<1>7. currPsa' \in 0 .. (Uint32Range - 1)
  <2>1. m + 1 \in Nat
    OBVIOUS
  <2> QED BY <1>0, <1>1, <1>4, <2>1, ModSmall
<1>8. ASSUME op = "insert"
      PROVE  Placed(b, TargetSlots) /\ Passed(b, TargetSlots, q, pos', currPsa')
  <2>1. Placed(Target, TargetSlots) /\ Passed(Target, TargetSlots, tmpPair, pos, currPsa)
    BY <1>0, <1>8, TargetFacts
  <2>2. Placed(b, TargetSlots)
    BY <1>1, <1>2, <2>1, StorePlaced
  <2>3. m + 1 < TargetSlots /\ Passed(b, TargetSlots, q, NextSlot(pos, TargetSlots), m + 1)
    BY <1>0, <1>1, <1>4, <1>5, <2>1, SwapPassed
  <2>4. m + 1 \in Nat /\ m + 1 < Uint32Range
    BY <1>1, <2>3
  <2>5. currPsa' = m + 1
    BY <1>0, <1>1, <1>4, <2>4, ModSmall
  <2> QED BY <1>0, <2>2, <2>3, <2>5
<1>9. PutTarget(b) /\ tmpPair' = q
  BY <1>0, <1>2, <1>3
<1> QED BY <1>0, <1>5, <1>6, <1>7, <1>8, <1>9, ProbeOn

LEMMA ProbePlaceStep ==
  ASSUME HashInv, ProbePlace
  PROVE  HashInv'
<1>0. /\ pc = "probe" /\ pos \notin DOMAIN Target
      /\ PutTarget(Store(Target, pos, EntryOf(tmpPair, currPsa)))
      /\ tmpPair' = NoPair /\ pos' = 0 /\ currPsa' = 0
      /\ UNCHANGED <<op, currCap, elemCount, newCap, batch, dict>>
  BY DEF ProbePlace
<1>1. PhaseInv /\ ArrayInv /\ FlightInv /\ CopyInv /\ DictInv /\ PlaceInv
  BY DEF HashInv, TableInv
<1>2. PICK b : b = Store(Target, pos, EntryOf(tmpPair, currPsa))
  OBVIOUS
<1>3. /\ TargetSlots \in Nat \ {0} /\ currPsa \in Nat /\ pos \in 0 .. (TargetSlots - 1)
      /\ Slots(Target, TargetSlots) /\ Keyed(Target) /\ InFlight = {Plain(tmpPair)}
      /\ tmpPair \in CarriedType /\ Missing(Target, tmpPair.key)
  BY <1>0, TargetFacts, CapAssumption
<1>4. /\ Slots(b, TargetSlots) /\ Keyed(b) /\ PairsOf(b) = PairsOf(Target) \cup {Plain(tmpPair)}
      /\ Cardinality(DOMAIN b) = Cardinality(DOMAIN Target) + 1
  BY <1>0, <1>2, <1>3, PlaceFacts
<1>5. op = "insert" => Placed(b, TargetSlots)
  BY <1>0, <1>2, <1>3, TargetFacts, StorePlaced
<1>6. InFlight' = {} /\ Building' = Building /\ TargetSlots' = TargetSlots
  BY <1>0 DEF InFlight, Building, TargetSlots
<1>7. Len(batch) \in Nat /\ elemCount \in Nat /\ actAdded \in Nat /\ copied \in Nat
      /\ src \in Nat /\ currCap \in Nat
  BY <1>1, CapAssumption DEF PhaseInv, ArrayInv
<1>8. CASE Building
  <2>1. /\ newArray' = b /\ elemArray' = elemArray /\ Target = newArray /\ TargetSlots = newCap
        /\ pc' = "copy" /\ src' = src + 1 /\ copied' = copied + 1 /\ actAdded' = actAdded
    BY <1>0, <1>2, <1>8 DEF PutTarget, Target, TargetSlots, ProbePlace
  <2>2. /\ src \in DOMAIN elemArray /\ Cardinality(DOMAIN newArray) = copied
        /\ Cardinality(Upto(src)) = copied
        /\ PairsOf(newArray) \cup InFlight = PairsIn(Upto(src + 1))
    BY <1>0, <1>1, <1>8 DEF CopyInv
  <2>3. src < currCap
    BY <1>1, <1>7, <2>2 DEF ArrayInv, Slots
  <2>4. PhaseInv'
    BY <1>0, <1>1, <1>8, <2>1 DEF PhaseInv, Building
  <2>5. ArrayInv'
    BY <1>0, <1>1, <1>4, <1>6, <1>7, <1>8, <2>1, <2>3 DEF ArrayInv
  <2>6. FlightInv'
    BY <1>0, <2>1, CapAssumption DEF FlightInv
  <2>7. PlaceInv'
    BY <1>0, <1>1, <1>5, <2>1 DEF PlaceInv
  <2>8. CopyInv'
    <3>1. PICK S : S = Upto(src)
      OBVIOUS
    <3>2. Upto(src + 1) = S \cup {src} /\ src \notin S
      BY <1>1, <1>7, <2>2, <3>1 DEF Upto, ArrayInv, Slots
    <3>3. IsFiniteSet(S)
      <4>1. PICK D : D = DOMAIN elemArray
        OBVIOUS
      <4>2. IsFiniteSet(D)
        BY <1>1, <1>7, <4>1, SlotsFinite DEF ArrayInv
      <4>3. S \subseteq D
        BY <3>1, <4>1 DEF Upto
      <4> QED BY <4>2, <4>3, FS_Subset
    <3>4. Cardinality(S \cup {src}) = Cardinality(S) + 1
      BY <3>2, <3>3, FS_AddElement
    <3>5. Cardinality(Upto(src + 1)) = copied + 1
      BY <2>2, <3>1, <3>2, <3>4
    <3>6. Upto(src)' = Upto(src + 1)
      BY <2>1 DEF Upto
    <3>7. PairsIn(Upto(src))' = PairsIn(Upto(src + 1))
      BY <2>1, <3>6 DEF PairsIn
    <3>8. Cardinality(DOMAIN newArray') = copied + 1
      BY <1>4, <2>1, <2>2
    <3>9. PairsOf(newArray') = PairsIn(Upto(src + 1))
      BY <1>3, <1>4, <2>1, <2>2
    <3> QED BY <1>6, <2>1, <3>5, <3>6, <3>7, <3>8, <3>9 DEF CopyInv
  <2>9. DictInv'
    BY <1>0, <1>1, <1>6, <1>8, <2>1 DEF DictInv, Conserved
  <2> QED BY <2>4, <2>5, <2>6, <2>7, <2>8, <2>9 DEF HashInv, TableInv
<1>9. CASE ~Building
  <2>1. /\ newArray' = newArray /\ elemArray' = b /\ Target = elemArray /\ TargetSlots = currCap
        /\ pc' = "batch" /\ actAdded' = actAdded + 1 /\ src' = src /\ copied' = copied
    BY <1>0, <1>2, <1>9 DEF PutTarget, Target, TargetSlots, ProbePlace
  <2>2. newCap = 0 /\ op = "insert"
    BY <1>0, <1>1, <1>9, CapAssumption DEF PhaseInv, ArrayInv, Building
  <2>3. PhaseInv'
    BY <1>0, <1>1, <2>1, <2>2 DEF PhaseInv
  <2>4. ArrayInv'
    <3>1. elemCount + actAdded + Len(batch) + 1 <= TargetSlots
      BY <1>0, <1>1, <1>9, <2>2 DEF ArrayInv
    <3>2. (elemCount + actAdded + Len(batch) + (IF pc = "probe" /\ ~Building THEN 1 ELSE 0)
           <= TargetSlots)'
      BY <1>0, <1>3, <1>6, <1>7, <2>1, <3>1
    <3> QED BY <1>0, <1>1, <1>4, <1>7, <2>1, <3>2 DEF ArrayInv
  <2>5. FlightInv'
    BY <1>0, <2>1, CapAssumption DEF FlightInv
  <2>6. PlaceInv'
    BY <1>0, <1>1, <1>5, <2>1, <2>2 DEF PlaceInv
  <2>7. CopyInv'
    BY <1>6, <1>9 DEF CopyInv
  <2>8. DictInv'
    BY <1>0, <1>1, <1>3, <1>4, <1>6, <1>9, <2>1 DEF DictInv, Conserved
  <2> QED BY <2>3, <2>4, <2>5, <2>6, <2>7, <2>8 DEF HashInv, TableInv
<1> QED BY <1>8, <1>9

(***************************************************************************)
(* The loop over a batch, and erasing                                      *)
(***************************************************************************)
LEMMA BatchFacts ==
  ASSUME HashInv, pc = "batch"
  PROVE  /\ op = "insert" /\ newCap = 0 /\ ~Building /\ tmpPair = NoPair /\ InFlight = {}
         /\ Target = elemArray /\ TargetSlots = currCap /\ batch \in Seq(Pair)
         /\ elemCount \in Nat /\ actAdded \in Nat /\ currCap \in Nat \ {0}
         /\ elemCount + actAdded + Len(batch) <= currCap
         /\ Cardinality(DOMAIN elemArray) = elemCount + actAdded
         /\ dict = PairsOf(elemArray)
<1>1. PhaseInv /\ ArrayInv /\ FlightInv /\ DictInv
  BY DEF HashInv, TableInv
<1>2. op = "insert" /\ newCap = 0 /\ ~Building /\ tmpPair = NoPair /\ batch \in Seq(Pair)
  BY <1>1 DEF PhaseInv, FlightInv, Building
<1>3. InFlight = {} /\ Target = elemArray /\ TargetSlots = currCap
  BY <1>2 DEF InFlight, Target, TargetSlots
<1>4. elemCount \in Nat /\ actAdded \in Nat /\ currCap \in Nat \ {0}
  BY <1>1, CapAssumption DEF ArrayInv, PhaseInv
<1>5. elemCount + actAdded + Len(batch) + 0 <= currCap
  BY <1>1, <1>2, <1>3 DEF ArrayInv
<1>6. Cardinality(DOMAIN elemArray) = elemCount + actAdded
  BY <1>1 DEF ArrayInv
<1>7. dict = PairsOf(elemArray)
  BY <1>1, <1>2, <1>3 DEF DictInv, Conserved
<1> QED BY <1>2, <1>3, <1>4, <1>5, <1>6, <1>7

LEMMA BatchSkipStep ==
  ASSUME HashInv, BatchSkip
  PROVE  HashInv'
<1>0. /\ pc = "batch" /\ batch # <<>> /\ batch' = Tail(batch)
      /\ UNCHANGED <<pc, op, elemArray, currCap, elemCount, newArray, newCap, src, copied,
                     tmpPair, pos, currPsa, actAdded, dict>>
  BY DEF BatchSkip, tableVars, buildVars, probeVars
<1>1. PhaseInv /\ ArrayInv /\ FlightInv /\ CopyInv /\ DictInv /\ PlaceInv
  BY DEF HashInv, TableInv
<1>2. /\ op = "insert" /\ newCap = 0 /\ batch \in Seq(Pair) /\ elemCount \in Nat /\ actAdded \in Nat
      /\ currCap \in Nat /\ elemCount + actAdded + Len(batch) <= currCap
  BY <1>0, BatchFacts
<1>3. batch' \in Seq(Pair) /\ Len(batch') = Len(batch) - 1 /\ Len(batch) \in Nat
  BY <1>0, <1>2
<1>4. PhaseInv'
  BY <1>0, <1>1, <1>2, <1>3 DEF PhaseInv
<1>5. ArrayInv'
  <2>1. (elemCount + actAdded + Len(batch) + (IF pc = "probe" /\ ~Building THEN 1 ELSE 0)
         <= TargetSlots)'
    BY <1>0, <1>2, <1>3 DEF TargetSlots, Building
  <2> QED BY <1>0, <1>1, <2>1 DEF ArrayInv
<1>6. FlightInv' /\ PlaceInv'
  BY <1>0, <1>1 DEF FlightInv, PlaceInv
<1>7. CopyInv' /\ DictInv'
  BY <1>0, <1>1, <1>2 DEF CopyInv, DictInv, Conserved, Building, InFlight
<1> QED BY <1>4, <1>5, <1>6, <1>7 DEF HashInv, TableInv

LEMMA BatchInsertStep ==
  ASSUME HashInv, NEW home \in Homes(currCap), BatchInsert(home)
  PROVE  HashInv'
<1>0. /\ pc = "batch" /\ batch # <<>> /\ batch' = Tail(batch)
      /\ ~NkHashtableContains(Head(batch).key)
      /\ tmpPair' = [key |-> Head(batch).key, val |-> Head(batch).val, home |-> home]
      /\ pos' = home /\ currPsa' = 0 /\ pc' = "probe"
      /\ dict' = dict \cup {Head(batch)}
      /\ UNCHANGED <<op, elemArray, currCap, elemCount, newArray, newCap, src, copied, actAdded>>
  BY DEF BatchInsert, tableVars, buildVars
<1>1. PhaseInv /\ ArrayInv /\ FlightInv /\ CopyInv /\ DictInv /\ PlaceInv
  BY DEF HashInv, TableInv
<1>2. /\ op = "insert" /\ newCap = 0 /\ ~Building /\ batch \in Seq(Pair)
      /\ elemCount \in Nat /\ actAdded \in Nat
      /\ currCap \in Nat \ {0} /\ elemCount + actAdded + Len(batch) <= currCap
      /\ dict = PairsOf(elemArray)
  BY <1>0, BatchFacts
<1>3. batch' \in Seq(Pair) /\ Len(batch') = Len(batch) - 1 /\ Len(batch) \in Nat
  BY <1>0, <1>2
<1>4. PICK p \in Pair : p = Head(batch)
  BY <1>0, <1>2
<1>5. home \in 0 .. (currCap - 1)
  BY DEF Homes
<1>6. tmpPair' \in CarriedType /\ Plain(tmpPair') = p /\ tmpPair'.key = p.key /\ tmpPair'.home = home
  <2>1. tmpPair' = [key |-> p.key, val |-> p.val, home |-> home]
    BY <1>0, <1>4
  <2> QED BY <1>5, <2>1 DEF CarriedType, Pair, Plain
<1>7. InFlight' = {p}
  BY <1>6, PairFacts DEF InFlight
<1>8. ~Building' /\ Target' = elemArray /\ TargetSlots' = currCap
  BY <1>0, <1>2 DEF Building, Target, TargetSlots
<1>9. Missing(elemArray, p.key)
  BY <1>0, <1>4 DEF Missing, NkHashtableContains, LocKey
<1>10. PhaseInv'
  BY <1>0, <1>1, <1>2, <1>3 DEF PhaseInv
<1>11. ArrayInv'
  <2>1. (elemCount + actAdded + Len(batch) + (IF pc = "probe" /\ ~Building THEN 1 ELSE 0)
         <= TargetSlots)'
    BY <1>0, <1>2, <1>3, <1>8
  <2> QED BY <1>0, <1>1, <2>1 DEF ArrayInv
<1>12. FlightInv'
  BY <1>0, <1>5, <1>6, <1>8, <1>9, CapAssumption DEF FlightInv
<1>13. PlaceInv'
  <2>1. Dist(home, home, currCap) = 0 /\ \A k \in 0 .. (currCap - 1) : ~(Dist(k, home, currCap) < 0)
    BY <1>2, <1>5 DEF Dist
  <2>2. Passed(Target, TargetSlots, tmpPair, pos, currPsa)'
    BY <1>0, <1>5, <1>6, <1>8, <2>1 DEF Passed
  <2> QED BY <1>0, <1>1, <2>2 DEF PlaceInv
<1>14. CopyInv'
  BY <1>8 DEF CopyInv
<1>15. DictInv'
  BY <1>0, <1>1, <1>2, <1>4, <1>7, <1>8 DEF DictInv, Conserved
<1> QED BY <1>10, <1>11, <1>12, <1>13, <1>14, <1>15 DEF HashInv, TableInv

LEMMA BatchDoneStep ==
  ASSUME HashInv, BatchDone
  PROVE  HashInv'
<1>0. /\ pc = "batch" /\ batch = <<>> /\ elemCount' = elemCount + actAdded
      /\ pc' = "idle" /\ op' = "none" /\ actAdded' = 0
      /\ UNCHANGED <<elemArray, currCap, newArray, newCap, src, copied, tmpPair, pos, currPsa,
                     batch, dict>>
  BY DEF BatchDone, buildVars, probeVars
<1>1. PhaseInv /\ ArrayInv /\ FlightInv /\ CopyInv /\ DictInv /\ PlaceInv
  BY DEF HashInv, TableInv
<1>2. newCap = 0 /\ elemCount \in Nat /\ actAdded \in Nat
  BY <1>0, BatchFacts
<1>3. PhaseInv'
  BY <1>0, <1>1, <1>2 DEF PhaseInv
<1>4. ArrayInv'
  BY <1>0, <1>1, <1>2 DEF ArrayInv
<1>5. FlightInv' /\ PlaceInv'
  BY <1>0, <1>1 DEF FlightInv, PlaceInv
<1>6. CopyInv' /\ DictInv'
  BY <1>0, <1>1, <1>2 DEF CopyInv, DictInv, Conserved, Building, InFlight
<1> QED BY <1>3, <1>4, <1>5, <1>6 DEF HashInv, TableInv

LEMMA EraseStep ==
  ASSUME HashInv, pc = "idle", NEW k \in Keys, EraseSlot(k)
  PROVE  HashInv'
<1>0. PICK i \in DOMAIN elemArray :
        /\ elemArray' = Release(elemArray, i) /\ elemCount' = elemCount - 1
        /\ dict' = dict \ {Plain(elemArray[i])}
        /\ UNCHANGED <<pc, op, currCap, newArray, newCap, src, copied, tmpPair, pos, currPsa,
                       batch, actAdded>>
  BY DEF EraseSlot, LocKey, buildVars, probeVars, batchVars
<1>1. PhaseInv /\ ArrayInv /\ FlightInv /\ CopyInv /\ DictInv /\ PlaceInv
  BY DEF HashInv, TableInv
<1>2. newCap = 0 /\ actAdded = 0 /\ tmpPair = NoPair /\ elemCount \in Nat /\ currCap \in Nat
      /\ op = "none"
  BY <1>1, CapAssumption DEF PhaseInv, FlightInv, ArrayInv
<1>3. PICK a, b : a = elemArray /\ b = elemArray'
  OBVIOUS
<1>4. DOMAIN b = DOMAIN a \ {i} /\ \A n \in DOMAIN b : b[n] = a[n]
  BY <1>0, <1>3 DEF Release
<1>5. Slots(a, currCap) /\ Keyed(a) /\ Placed(a, currCap) /\ i \in DOMAIN a
  BY <1>0, <1>1, <1>3 DEF ArrayInv, PlaceInv
<1>6. Slots(b, currCap) /\ Keyed(b) /\ Placed(b, currCap)
  BY <1>4, <1>5 DEF Slots, Keyed, Placed
<1>7. Cardinality(DOMAIN b) = elemCount - 1 /\ elemCount - 1 \in Nat
  <2>1. PICK S : S = DOMAIN a
    OBVIOUS
  <2>2. IsFiniteSet(S) /\ i \in S /\ Cardinality(S) = elemCount
    BY <1>1, <1>2, <1>3, <1>5, <2>1, SlotsFinite DEF ArrayInv
  <2>3. Cardinality(S \ {i}) = Cardinality(S) - 1 /\ Cardinality(S \ {i}) \in Nat
    BY <2>2, FS_RemoveElement, FS_CardinalityType
  <2> QED BY <1>4, <2>1, <2>2, <2>3
<1>8. PairsOf(b) = PairsOf(a) \ {Plain(a[i])}
  <2>1. \A n \in DOMAIN a : n # i => Plain(a[n]) # Plain(a[i])
    BY <1>5, EntryFacts DEF Slots, Keyed
  <2>2. PairsOf(a) = {Plain(a[n]) : n \in DOMAIN a} /\ PairsOf(b) = {Plain(b[n]) : n \in DOMAIN b}
    BY DEF PairsOf, Plain
  <2> QED BY <1>4, <1>5, <2>1, <2>2
<1>9. PhaseInv'
  BY <1>0, <1>1 DEF PhaseInv
<1>10. ArrayInv'
  <2>1. /\ currCap' \in 0 .. MaxCap /\ newCap' \in 0 .. MaxCap /\ elemCount' \in Nat
        /\ actAdded' \in Nat /\ copied' \in Nat /\ src' \in 0 .. currCap'
    BY <1>0, <1>1, <1>7 DEF ArrayInv
  <2>2. Cardinality(DOMAIN elemArray') = elemCount' + actAdded'
    BY <1>0, <1>2, <1>3, <1>7
  <2>3. Slots(newArray', newCap') /\ Keyed(newArray') /\ op' # "insert"
    BY <1>0, <1>1, <1>2 DEF ArrayInv
  <2> QED BY <1>0, <1>3, <1>6, <2>1, <2>2, <2>3 DEF ArrayInv
<1>11. FlightInv'
  BY <1>0, <1>1 DEF FlightInv
<1>12. PlaceInv'
  BY <1>0, <1>2, <1>3, <1>6 DEF PlaceInv
<1>13. CopyInv' /\ DictInv'
  <2>1. dict = PairsOf(a) /\ dict \subseteq Pair
    BY <1>1, <1>2, <1>3 DEF DictInv, Conserved, Building, InFlight
  <2>2. dict' = PairsOf(b)
    BY <1>0, <1>3, <1>8, <2>1
  <2> QED BY <1>0, <1>2, <1>3, <2>1, <2>2 DEF CopyInv, DictInv, Conserved, Building, InFlight
<1> QED BY <1>9, <1>10, <1>11, <1>12, <1>13 DEF HashInv, TableInv

LEMMA HashUnchanged ==
  ASSUME HashInv, UNCHANGED vars
  PROVE  HashInv'
BY DEF vars, tableVars, buildVars, probeVars, batchVars, HashInv, TableInv, PhaseInv, ArrayInv,
       FlightInv, CopyInv, DictInv, PlaceInv, Conserved, Building, InFlight, Target, TargetSlots,
       Upto, PairsIn

LEMMA HashStep == HashInv /\ [Next]_vars => HashInv'
<1> SUFFICES ASSUME HashInv, [Next]_vars PROVE HashInv'
  OBVIOUS
<1>1. CASE \/ NkHashtableCreate \/ NkHashtableDestroy \/ NkHashtableClear
           \/ \E ps \in Batches : NkHashtableInsertMulti(ps)
  BY <1>1, CallBegins
<1>2. ASSUME NEW k \in Keys, NkHashtableErase(k) \/ NkHashtableExtract(k)
      PROVE  HashInv'
  <2>1. pc = "idle" /\ (EraseSlot(k) \/ UNCHANGED vars)
    BY <1>2 DEF NkHashtableErase, NkHashtableExtract
  <2> QED BY <2>1, EraseStep, HashUnchanged
<1>3. CASE CopySkip
  BY <1>3, CopySkipStep
<1>4. ASSUME NEW home \in Homes(newCap), CopyPair(home) PROVE HashInv'
  BY <1>4, CopyPairStep
<1>5. CASE CopyDone
  BY <1>5, CopyDoneStep
<1>6. CASE ProbePlace
  BY <1>6, ProbePlaceStep
<1>7. CASE ProbeWalk
  BY <1>7, ProbeWalkStep
<1>8. CASE ProbeSwap
  BY <1>8, ProbeSwapStep
<1>9. CASE BatchSkip
  BY <1>9, BatchSkipStep
<1>10. ASSUME NEW home \in Homes(currCap), BatchInsert(home) PROVE HashInv'
  BY <1>10, BatchInsertStep
<1>11. CASE BatchDone
  BY <1>11, BatchDoneStep
<1>12. CASE UNCHANGED vars
  BY <1>12, HashUnchanged
<1> QED BY <1>1, <1>2, <1>3, <1>4, <1>5, <1>6, <1>7, <1>8, <1>9, <1>10, <1>11, <1>12
        DEF Next, Running

LEMMA HashAlways == Spec => []HashInv
BY HashInit, HashStep, PTL DEF Spec

(***************************************************************************)
(* What follows                                                            *)
(***************************************************************************)
(* The fields of the table, and the locals of the loops over it, hold what *)
(* the declarations in htable.c say, for any capacities.                   *)
THEOREM HashTypeOK == Spec => []TypeOK
<1>1. HashInv => TypeOK
  <2> SUFFICES ASSUME HashInv PROVE TypeOK
    OBVIOUS
  <2>1. PhaseInv /\ ArrayInv /\ FlightInv /\ DictInv
    BY DEF HashInv, TableInv
  <2>2. currCap \in Nat /\ newCap \in Nat /\ MaxCap \in Nat
    BY <2>1, CapAssumption DEF ArrayInv
  <2>3. op \in {"none", "insert", "clear"} /\ pc \in {"absent", "idle", "batch", "copy", "probe"}
    BY <2>1 DEF PhaseInv
  <2>4. elemCount \in 0 .. MaxCap /\ src \in 0 .. MaxCap
    <3>1. Cardinality(DOMAIN elemArray) \in 0 .. currCap
      BY <2>1, <2>2, SlotsFinite DEF ArrayInv
    <3>2. PICK n \in 0 .. currCap : n = elemCount + actAdded
      BY <2>1, <3>1 DEF ArrayInv
    <3> QED BY <2>1, <2>2, <3>2 DEF ArrayInv
  <2>5. pc = "probe" <=> tmpPair # NoPair
    BY <2>1, PairFacts DEF FlightInv
  <2>6. pos \in 0 .. MaxCap
    BY <2>1, <2>2 DEF FlightInv, TargetSlots, ArrayInv
  <2>7. /\ DOMAIN elemArray \subseteq 0 .. (currCap - 1)
        /\ \A i \in DOMAIN elemArray : elemArray[i] \in Entry
        /\ DOMAIN newArray \subseteq 0 .. (newCap - 1)
        /\ \A i \in DOMAIN newArray : newArray[i] \in Entry
    BY <2>1 DEF ArrayInv, Slots
  <2>8. /\ currCap \in 0 .. MaxCap /\ newCap \in 0 .. MaxCap /\ copied \in Nat /\ actAdded \in Nat
        /\ currPsa \in 0 .. (Uint32Range - 1) /\ dict \subseteq Pair
    BY <2>1 DEF ArrayInv, FlightInv, DictInv
  <2> QED BY <2>3, <2>4, <2>5, <2>6, <2>7, <2>8 DEF TypeOK
<1> QED BY <1>1, HashAlways, PTL

(* No pair is lost at any step of the displacement or of a rebuild.        *)
THEOREM HashConserved == Spec => []Conserved
<1>1. HashInv => Conserved
  BY DEF HashInv, TableInv, DictInv
<1> QED BY <1>1, HashAlways, PTL

(* No key is stored twice, although the probe loop compares no keys.       *)
THEOREM HashKeysUnique == Spec => []KeysUnique
<1>1. HashInv => KeysUnique
  <2> SUFFICES ASSUME HashInv PROVE KeysUnique
    OBVIOUS
  <2>1. PhaseInv /\ ArrayInv /\ FlightInv /\ DictInv
    BY DEF HashInv, TableInv
  <2>2. \A i, j \in DOMAIN elemArray : elemArray[i].key = elemArray[j].key => i = j
    BY <2>1 DEF ArrayInv, Keyed
  <2>3. \A i \in DOMAIN elemArray : elemArray[i] \in Entry
    BY <2>1 DEF ArrayInv, Slots
  <2>4. \A p \in PairsOf(elemArray) : \E i \in DOMAIN elemArray :
          p = Plain(elemArray[i]) /\ p.key = elemArray[i].key
    BY <2>3, EntryFacts DEF PairsOf, Plain
  <2>5. \A p, q \in PairsOf(elemArray) : p.key = q.key => p = q
    BY <2>2, <2>4
  <2>6. CASE Building \/ InFlight = {}
    BY <2>1, <2>2, <2>5, <2>6 DEF KeysUnique, DictInv, Conserved
  <2>7. CASE ~Building /\ InFlight # {}
    <3>1. pc = "probe" /\ tmpPair \in CarriedType /\ Missing(elemArray, tmpPair.key)
      BY <2>1, <2>7 DEF FlightInv, InFlight, Target
    <3>2. Plain(tmpPair).key = tmpPair.key /\ InFlight = {Plain(tmpPair)}
      BY <2>7 DEF Plain, InFlight
    <3>3. \A p \in PairsOf(elemArray) : p.key # tmpPair.key
      BY <2>4, <3>1 DEF Missing
    <3>4. dict = PairsOf(elemArray) \cup {Plain(tmpPair)}
      BY <2>1, <2>7, <3>2 DEF DictInv, Conserved
    <3> QED BY <2>2, <2>5, <3>2, <3>3, <3>4 DEF KeysUnique
  <2> QED BY <2>6, <2>7
<1> QED BY <1>1, HashAlways, PTL

(* m_elemCount counts the slots in use, with what the running call added.  *)
THEOREM HashCountExact == Spec => []CountExact
<1>1. HashInv => CountExact
  BY DEF HashInv, TableInv, ArrayInv, CountExact
<1> QED BY <1>1, HashAlways, PTL

(* m_offset is the distance of an entry from its home, in spite of erased  *)
(* slots between the two and of the wrap of the array.                     *)
THEOREM HashOffsetIsDistance == Spec => []OffsetIsDistance
<1>1. HashInv => OffsetIsDistance
  <2> SUFFICES ASSUME HashInv, pc \in {"idle", "batch"}, NEW i \in DOMAIN elemArray
               PROVE  elemArray[i].off = (i - elemArray[i].home) % currCap
    BY DEF OffsetIsDistance
  <2>1. currCap \in Nat \ {0} /\ i \in 0 .. (currCap - 1)
    BY CapAssumption DEF HashInv, TableInv, PhaseInv, ArrayInv, Slots
  <2>2. PICK h \in 0 .. (currCap - 1) : h = elemArray[i].home /\ elemArray[i].off = Dist(i, h, currCap)
    BY DEF HashInv, PlaceInv, Placed
  <2> QED BY <2>1, <2>2, DistMod
<1> QED BY <1>1, HashAlways, PTL

(* The probe loop of an insertion always has a free slot to end at.        *)
THEOREM HashRoomLeft == Spec => []RoomLeft
<1>1. HashInv => RoomLeft
  BY TargetFacts DEF RoomLeft
<1> QED BY <1>1, HashAlways, PTL
=============================================================================
