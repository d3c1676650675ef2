--------------------------- MODULE MainLoopProofs ---------------------------
(***************************************************************************)
(* Proofs about MainLoop and LayerStack, for any layers, threads, capacity *)
(* and time step.                                                          *)
(***************************************************************************)
EXTENDS MainLoop, SequenceTheorems, WellFoundedInduction, TLAPS

(***************************************************************************)
(* The vector                                                              *)
(***************************************************************************)
Elem == Layers \cup {Wild}

VecType == [elems : Seq(Elem), cap : Nat]

LEMMA VecCount ==
  ASSUME NEW v \in VecType
  PROVE  /\ v.elems \in Seq(Elem) /\ Len(v.elems) \in Nat /\ v.cap \in Nat
         /\ \A k \in 1 .. Len(v.elems) : v.elems[k] \in Elem
<1>1. v.elems \in Seq(Elem) /\ v.cap \in Nat
  BY DEF VecType
<1> QED BY <1>1, LenProperties, ElementOfSeq

LEMMA NewCapEnough ==
  ASSUME NEW v \in VecType, NEW r \in Nat
  PROVE  Vec!NewCap(v, r) \in Nat /\ r <= Vec!NewCap(v, r)
<1> DEFINE a == SizeRange - 3
           c == (3 * v.cap + 1) \div 2
           S == {a, r, c}
<1>1. a \in Nat /\ c \in Nat
  <2>1. v.cap \in Nat
    BY VecCount
  <2> QED BY <2>1, LayerAssumption
<1> HIDE DEF a, c
<1>2. \E x \in S : \A y \in S : x >= y
  BY <1>1
<1>3. Vec!Max(S) \in S /\ \A y \in S : Vec!Max(S) >= y
  BY <1>2 DEF Vec!Max
<1>4. Vec!NewCap(v, r) = Vec!Max(S)
  BY DEF Vec!NewCap, a, c
<1> QED BY <1>1, <1>3, <1>4

LEMMA EraseFacts ==
  ASSUME NEW v \in VecType, NEW i \in Nat, i < Len(v.elems)
  PROVE  LET w == Vec!NkVectorErase(v, i)
         IN  /\ w \in VecType /\ w.cap = v.cap /\ Len(w.elems) = Len(v.elems) - 1
             /\ \A k \in 1 .. (Len(v.elems) - 1) :
                  w.elems[k] = IF k <= i THEN v.elems[k] ELSE v.elems[k + 1]
<1> DEFINE n == Len(v.elems)
           p == SubSeq(v.elems, 1, i)
           q == SubSeq(v.elems, i + 2, n)
           s == p \o q
<1>0. v.elems \in Seq(Elem) /\ n \in Nat /\ \A k \in 1 .. n : v.elems[k] \in Elem
  BY VecCount
<1>1. Vec!Min({1, n - i}) = 1
  <2>1. n - i \in Int /\ n - i >= 1
    BY <1>0
  <2> QED BY <2>1 DEF Vec!Min
<1>2. i + 1 + 1 = i + 2
  OBVIOUS
<1>3. Vec!NkVectorErase(v, i) = [v EXCEPT !.elems = s]
  BY <1>1, <1>2, Zenon DEF Vec!NkVectorErase, Vec!NkVectorEraseMulti
<1>4. /\ p \in Seq(Elem) /\ Len(p) = i
      /\ \A k \in 1 .. i : p[k] = v.elems[k]
  <2>1. \A k \in 1 .. i : v.elems[k] \in Elem
    BY <1>0
  <2>2. /\ p \in Seq(Elem) /\ Len(p) = IF 1 <= i THEN i - 1 + 1 ELSE 0
        /\ \A k \in 1 .. i - 1 + 1 : p[k] = v.elems[1 + k - 1]
    BY <2>1, SubSeqProperties
  <2> HIDE DEF p
  <2> QED BY <2>2
<1>5. /\ q \in Seq(Elem) /\ Len(q) = n - i - 1
      /\ \A k \in 1 .. (n - i - 1) : q[k] = v.elems[k + i + 1]
  <2>1. \A k \in (i + 2) .. n : v.elems[k] \in Elem
    BY <1>0
  <2>2. /\ q \in Seq(Elem) /\ Len(q) = IF i + 2 <= n THEN n - (i + 2) + 1 ELSE 0
        /\ \A k \in 1 .. n - (i + 2) + 1 : q[k] = v.elems[(i + 2) + k - 1]
    BY <1>0, <2>1, SubSeqProperties
  <2> HIDE DEF q
  <2> QED BY <1>0, <2>2
<1> HIDE DEF p, q
<1>6. /\ s \in Seq(Elem) /\ Len(s) = n - 1
      /\ \A k \in 1 .. (n - 1) : s[k] = IF k <= i THEN p[k] ELSE q[k - i]
  BY <1>0, <1>4, <1>5, ConcatProperties
<1> HIDE DEF s
<1>7. \A k \in 1 .. (n - 1) : s[k] = IF k <= i THEN v.elems[k] ELSE v.elems[k + 1]
  <2> TAKE k \in 1 .. (n - 1)
  <2>1. CASE k <= i
    BY <1>0, <1>4, <1>6, <2>1
  <2>2. CASE ~(k <= i)
    <3>1. k - i \in 1 .. (n - i - 1) /\ (k - i) + i + 1 = k + 1
      BY <1>0, <2>2
    <3>2. q[k - i] = v.elems[(k - i) + i + 1]
      BY <1>5, <3>1
    <3> QED BY <1>6, <2>2, <3>1, <3>2
  <2> QED BY <2>1, <2>2
<1>8. /\ [v EXCEPT !.elems = s] \in VecType /\ [v EXCEPT !.elems = s].elems = s
      /\ [v EXCEPT !.elems = s].cap = v.cap
  BY <1>6 DEF VecType
<1> QED BY <1>3, <1>6, <1>7, <1>8

LEMMA InsertFacts ==
  ASSUME NEW v \in VecType, NEW l \in Elem, NEW i \in 0 .. Len(v.elems),
         Len(v.elems) <= v.cap
  PROVE  LET w == Vec!NkVectorInsert(v, l, i)
         IN  /\ w \in VecType /\ Len(w.elems) = Len(v.elems) + 1
             /\ Len(w.elems) <= w.cap
             /\ i = Len(v.elems) =>
                  \A k \in 1 .. (Len(v.elems) + 1) :
                    w.elems[k] = IF k <= i THEN v.elems[k] ELSE l
<1> DEFINE n == Len(v.elems)
           p == SubSeq(v.elems, 1, i)
           z == Vec!ShiftedTail(<<l>>, n - i)
           s == p \o <<l>> \o z
           c == IF n + 1 <= v.cap THEN v.cap ELSE Vec!NewCap(v, n + 1)
<1>0. /\ v.elems \in Seq(Elem) /\ n \in Nat /\ v.cap \in Nat
      /\ \A k \in 1 .. n : v.elems[k] \in Elem
  BY VecCount
<1>1. Len(<<l>>) = 1 /\ <<l>> \in Seq(Elem) /\ <<l>>[1] = l
  OBVIOUS
<1>2. Vec!NkVectorInsert(v, l, i) = [elems |-> s, cap |-> c]
  BY <1>1, Zenon DEF Vec!NkVectorInsert, Vec!NkVectorInsertMulti
<1>3. c \in Nat /\ n + 1 <= c
  <2>1. n + 1 \in Nat
    BY <1>0
  <2>2. Vec!NewCap(v, n + 1) \in Nat /\ n + 1 <= Vec!NewCap(v, n + 1)
    BY <2>1, NewCapEnough
  <2> QED BY <1>0, <2>2
<1>4. p \in Seq(Elem) /\ Len(p) = i /\ \A k \in 1 .. i : p[k] = v.elems[k]
  <2>1. \A k \in 1 .. i : v.elems[k] \in Elem
    BY <1>0
  <2>2. /\ p \in Seq(Elem) /\ Len(p) = IF 1 <= i THEN i - 1 + 1 ELSE 0
        /\ \A k \in 1 .. i - 1 + 1 : p[k] = v.elems[1 + k - 1]
    BY <2>1, SubSeqProperties
  <2> HIDE DEF p
  <2> QED BY <2>2
<1>5. z \in Seq(Elem) /\ Len(z) = n - i
  <2>1. z = [k \in 1 .. (n - i) |-> IF k <= 1 THEN <<l>>[k] ELSE Wild]
    BY <1>1 DEF Vec!ShiftedTail
  <2>2. n - i \in Nat /\ \A k \in 1 .. (n - i) : (IF k <= 1 THEN <<l>>[k] ELSE Wild) \in Elem
    BY <1>0, <1>1 DEF Elem
  <2> DEFINE e(k) == IF k <= 1 THEN <<l>>[k] ELSE Wild
             m == n - i
  <2>3. m \in Nat /\ \A k \in 1 .. m : e(k) \in Elem
    BY <2>2
  <2> HIDE DEF e, m
  <2>4. [k \in 1 .. m |-> e(k)] \in Seq(Elem) /\ Len([k \in 1 .. m |-> e(k)]) = m
    BY <2>3
  <2> QED BY <2>1, <2>4 DEF e, m
<1> HIDE DEF p, z, c
<1> DEFINE u == p \o <<l>>
<1>6. /\ u \in Seq(Elem) /\ Len(u) = i + 1
      /\ \A k \in 1 .. (i + 1) : u[k] = IF k <= i THEN p[k] ELSE <<l>>[k - i]
  BY <1>0, <1>1, <1>4, ConcatProperties
<1>7. \A k \in 1 .. (i + 1) : u[k] = IF k <= i THEN v.elems[k] ELSE l
  BY <1>0, <1>1, <1>4, <1>6
<1> HIDE DEF u
<1>8. /\ u \o z \in Seq(Elem) /\ Len(u \o z) = n + 1
      /\ \A k \in 1 .. (i + 1) : (u \o z)[k] = u[k]
  <2>1. /\ u \o z \in Seq(Elem) /\ Len(u \o z) = Len(u) + Len(z)
        /\ \A k \in 1 .. (Len(u) + Len(z)) :
             (u \o z)[k] = IF k <= Len(u) THEN u[k] ELSE z[k - Len(u)]
    BY <1>5, <1>6, ConcatProperties
  <2>2. Len(u) + Len(z) = n + 1 /\ Len(u) = i + 1 /\ i + 1 <= n + 1
    <3>1. Len(u) = i + 1 /\ Len(z) = n - i /\ n \in Nat /\ i \in 0 .. n
      BY <1>0, <1>5, <1>6
    <3> HIDE DEF n
    <3> QED BY <3>1
  <2>3. \A k \in 1 .. (i + 1) : k \in 1 .. (n + 1) /\ k <= i + 1
    BY <1>0, <2>2
  <2> QED BY <2>1, <2>2, <2>3
<1>9. s = u \o z
  BY DEF u
<1> HIDE DEF s
<1>10. [elems |-> s, cap |-> c] \in VecType
  BY <1>3, <1>8, <1>9 DEF VecType
<1> QED BY <1>0, <1>2, <1>3, <1>7, <1>8, <1>9, <1>10

(***************************************************************************)
(* The main loop.  LagBounded alone is not inductive: what bounds it is    *)
(* how much lag can be left after each number of updates.                  *)
(***************************************************************************)
Traversing == {"event", "close", "updating", "rendering"}

LagLeft ==
  CASE phase \in {"start", "frame", "rendering"} -> currLag <= TicksPerUpdate
    [] phase \in {"pump", "event", "close"} -> updates = 0 /\ currLag < 3 * TicksPerUpdate
    [] phase \in {"update", "updating"} ->
         \/ updates = 0 /\ currLag < 3 * TicksPerUpdate
         \/ updates = 1 /\ currLag < 2 * TicksPerUpdate
         \/ updates = 2 /\ currLag < TicksPerUpdate
    [] OTHER -> TRUE

LoopInv ==
  /\ phase \in {"start", "frame", "pump", "event", "close", "update", "updating",
                "rendering", "left", "popped", "down"}
  /\ currLag \in Nat /\ updates \in 0 .. 2 /\ quit \in BOOLEAN
  /\ pass # NoPass => phase \in Traversing
  /\ phase = "updating" => currLag > TicksPerUpdate
  /\ LagLeft

LEMMA LoopInit == Init => LoopInv
<1> SUFFICES ASSUME Init PROVE LoopInv
  OBVIOUS
<1>1. phase = "start" /\ currLag = 0 /\ updates = 0 /\ pass = NoPass
  BY DEF Init, LayerInit
<1>2. LagLeft
  BY <1>1, LoopAssumption DEF LagLeft
<1>3. quit \in BOOLEAN
  BY DEF Init
<1> QED BY <1>1, <1>2, <1>3 DEF LoopInv

(* The steps of a layer call that leave the traversal alone.               *)
LEMMA CallKeepsPass ==
  ASSUME NEW t \in Threads,
         \/ \E l, where : PushBegin(t, l, where)
         \/ \E l : PopQuery(t, l)
         \/ PushRefused(t) \/ PushInsert(t) \/ PushAddRef(t) \/ PopErase(t) \/ PopRelease(t)
  PROVE  pass' # NoPass => pass # NoPass
BY DEF PushBegin, PopQuery, PushRefused, PushInsert, PushAddRef, PopErase, PopRelease, Die

(* The end of a traversal, or its next layer.                              *)
LEMMA ContinueKeeps ==
  ASSUME LoopInv, NEW ph \in Traversing, Continue(ph),
         \/ ph \in {"event", "close"} /\ phase \in {"pump", "event", "close"}
         \/ ph = "updating" /\ phase \in {"update", "updating"} /\ currLag > TicksPerUpdate
         \/ ph = "rendering" /\ phase \in {"update", "rendering"} /\ currLag <= TicksPerUpdate
  PROVE  LoopInv'
<1>0. /\ TicksPerUpdate \in Nat /\ TicksPerUpdate > 0
      /\ currLag \in Nat /\ updates \in 0 .. 2 /\ quit \in BOOLEAN
  BY LoopAssumption DEF LoopInv
<1>q. quit' \in BOOLEAN
  BY <1>0 DEF Continue
<1>1. CASE ph \in {"event", "close"}
  <2>1. updates = 0 /\ currLag < 3 * TicksPerUpdate
    BY <1>1 DEF LoopInv, LagLeft
  <2>2. /\ phase' = (IF pass' = NoPass THEN "pump" ELSE ph)
        /\ UNCHANGED <<currLag, updates>>
    BY <1>1 DEF Continue, After
  <2> QED BY <1>0, <1>q, <1>1, <2>1, <2>2 DEF LoopInv, LagLeft, Traversing
<1>2. CASE ph = "rendering"
  <2>1. /\ phase' = (IF pass' = NoPass THEN "frame" ELSE ph)
        /\ UNCHANGED <<currLag, updates>> /\ currLag <= TicksPerUpdate
    BY <1>2 DEF Continue, After
  <2> QED BY <1>0, <1>q, <1>2, <2>1 DEF LoopInv, LagLeft, Traversing
<1>3. CASE ph = "updating" /\ pass' # NoPass
  <2>1. phase' = "updating" /\ UNCHANGED <<currLag, updates>>
    BY <1>3 DEF Continue
  <2>2. \/ updates = 0 /\ currLag < 3 * TicksPerUpdate
        \/ updates = 1 /\ currLag < 2 * TicksPerUpdate
        \/ updates = 2 /\ currLag < TicksPerUpdate
    BY <1>3 DEF LoopInv, LagLeft
  <2> QED BY <1>0, <1>q, <1>3, <2>1, <2>2 DEF LoopInv, LagLeft, Traversing
<1>4. CASE ph = "updating" /\ pass' = NoPass
  <2>1. /\ phase' = "update" /\ currLag' = currLag - TicksPerUpdate
        /\ updates' = updates + 1
    BY <1>4 DEF Continue, After, CatchUp
  <2>2. \/ updates = 0 /\ currLag < 3 * TicksPerUpdate
        \/ updates = 1 /\ currLag < 2 * TicksPerUpdate
    BY <1>0, <1>4 DEF LoopInv, LagLeft
  <2>3. currLag > TicksPerUpdate
    BY <1>4
  <2>4. /\ currLag' \in Nat
        /\ \/ updates' = 1 /\ currLag' < 2 * TicksPerUpdate
           \/ updates' = 2 /\ currLag' < TicksPerUpdate
    BY <1>0, <2>1, <2>2, <2>3
  <2> QED BY <1>q, <1>4, <2>1, <2>4 DEF LoopInv, LagLeft, Traversing
<1> QED BY <1>1, <1>2, <1>3, <1>4 DEF Traversing

LEMMA LoopStep == LoopInv /\ [Next]_vars => LoopInv'
<1> SUFFICES ASSUME LoopInv, [Next]_vars PROVE LoopInv'
  OBVIOUS
<1>0. /\ TicksPerUpdate \in Nat /\ TicksPerUpdate > 0
      /\ currLag \in Nat /\ updates \in 0 .. 2
  BY LoopAssumption DEF LoopInv
<1>1. CASE UNCHANGED vars
  BY <1>1 DEF vars, layerVars, loopVars, LoopInv, LagLeft
<1>2. CASE WorldPush
  <2>1. Main \in Threads
    BY LoopAssumption
  <2>2. /\ phase = "start" /\ phase' \in {"start", "down", "frame"}
        /\ UNCHANGED <<currLag, quit, updates>>
    BY <1>2 DEF WorldPush
  <2>3. pass' = NoPass
    <3>1. pass = NoPass
      BY <2>2 DEF LoopInv, Traversing
    <3> QED BY <1>2, <2>1, <3>1, CallKeepsPass DEF WorldPush
  <2> QED BY <2>2, <2>3 DEF LoopInv, LagLeft
<1>3. CASE FrameBegin
  <2>1. PICK e \in Elapsed : currLag' = currLag + TimeStep(e)
    BY <1>3 DEF FrameBegin
  <2>2. TimeStep(e) \in Nat /\ TimeStep(e) <= MaxElapsed
    BY LoopAssumption DEF TimeStep
  <2>3. currLag <= TicksPerUpdate /\ MaxElapsed < 2 * TicksPerUpdate /\ MaxElapsed \in Nat
    BY <1>3, LoopAssumption DEF FrameBegin, LoopInv, LagLeft
  <2>4. currLag' \in Nat /\ currLag' < 3 * TicksPerUpdate
    BY <1>0, <2>1, <2>2, <2>3
  <2>5. /\ phase = "frame" /\ phase' = "pump" /\ updates' = 0 /\ quit' = quit /\ pass' = pass
    BY <1>3 DEF FrameBegin, layerVars
  <2> QED BY <2>4, <2>5 DEF LoopInv, LagLeft, Traversing
<1>4. CASE PumpEvent
  BY <1>4, ContinueKeeps DEF PumpEvent, Traversing
<1>5. CASE PumpEmpty \/ PumpQuit \/ LayerExit
  BY <1>5 DEF PumpEmpty, PumpQuit, LayerExit, LoopInv, LagLeft, Traversing, layerVars
<1>6. CASE UpdateBegin
  BY <1>6, ContinueKeeps DEF UpdateBegin, Traversing
<1>7. CASE RenderBegin
  BY <1>7, ContinueKeeps DEF RenderBegin, Traversing
<1>8. CASE Traverse
  <2>1. pass # NoPass
    BY <1>8 DEF Traverse, PassNext, EventHandled, NoPass
  <2>2. phase \in Traversing /\ Continue(phase)
    BY <1>8, <2>1 DEF Traverse, LoopInv
  <2>3. /\ phase = "updating" => currLag > TicksPerUpdate
        /\ phase = "rendering" => currLag <= TicksPerUpdate
    BY DEF LoopInv, LagLeft
  <2> QED BY <2>2, <2>3, ContinueKeeps DEF Traversing
<1>9. CASE WorldPop
  <2>1. /\ phase = "left" /\ phase' \in {"left", "popped", "down"}
        /\ UNCHANGED <<currLag, quit, updates>>
    BY <1>9 DEF WorldPop
  <2>2. pass = NoPass
    BY <2>1 DEF LoopInv, Traversing
  <2>3. pass' = NoPass
    BY <1>9, <2>2, LoopAssumption, CallKeepsPass DEF WorldPop, layerVars
  <2> QED BY <2>1, <2>3 DEF LoopInv, LagLeft
<1>10. CASE Shutdown
  BY <1>10 DEF Shutdown, LoopInv, LagLeft, Traversing, layerVars
<1>11. CASE ClientBegins \/ \E t \in Threads : ClientContinues(t)
  <2>1. UNCHANGED loopVars
    BY <1>11 DEF ClientBegins, ClientContinues
  <2>2. pass' # NoPass => pass # NoPass
    BY <1>11, CallKeepsPass DEF ClientBegins, ClientContinues, CallBegins, CallContinues
  <2> QED BY <2>1, <2>2 DEF loopVars, LoopInv, LagLeft
<1> QED
  BY <1>1, <1>2, <1>3, <1>4, <1>5, <1>6, <1>7, <1>8, <1>9, <1>10, <1>11 DEF Next, MainStep

LEMMA LoopSafe == Spec => []LoopInv
BY LoopInit, LoopStep, PTL DEF Spec

(* Whatever the frames' durations, at most two updates are run in a frame  *)
(* and no more than one is left over: the loop does not fall behind.       *)
THEOREM LoopLagBounded == Spec => []LagBounded
<1>1. LoopInv => LagBounded
  BY DEF LoopInv, LagLeft, LagBounded
<1> QED BY <1>1, LoopSafe, PTL

(***************************************************************************)
(* The layer stack: types, and what can end the process.  An index that    *)
(* was valid when it was read stays so until a layer is popped, and only   *)
(* an insertion below the end brings a wild pointer into the vector.       *)
(***************************************************************************)
CallIndex(c) ==
  /\ c.op \in {"push", "addref"} => c.layer \in Layers
  /\ c.op = "push" /\ ~c.popped => c.where <= Count \/ c.where = NK_AS_NORMAL
  /\ c.op = "pop" /\ ~c.popped => c.where < Count
  /\ c.op = "release" /\ ~scrambled => c.layer # Wild

PassIndex ==
  pass # NoPass =>
    /\ pass.kind # "none"
    /\ Alive => pass.i < pass.n /\ (~pass.popped => pass.n <= Count)

LayerInv ==
  /\ LayerTypeOK /\ HaltCause
  /\ Count <= NK_AS_NORMAL
  /\ \A t \in Threads : CallIndex(call[t])
  /\ PassIndex
  /\ ~scrambled => Wild \notin Vec!Elements(stack)

CallOps == {"none", "push", "addref", "pop", "release", "died"}

LEMMA Sizes == NK_AS_NORMAL \in Nat /\ SizeRange \in Nat /\ NK_AS_NORMAL = SizeRange - 1
BY LayerAssumption DEF NK_AS_NORMAL, Vec!SizeMax

LEMMA NoCallFacts ==
  /\ NoCall \in CallType /\ NoCall.op = "none" /\ NoCall.layer = Wild
  /\ NoCall.where = 0 /\ NoCall.popped = FALSE
BY Sizes DEF NoCall, CallType

LEMMA SameCall ==
  ASSUME NEW c \in CallType, NEW d \in CallType, c.op = d.op, c.layer = d.layer,
         c.where = d.where, c.popped = d.popped
  PROVE  c = d
BY DEF CallType

LEMMA CallFacts ==
  ASSUME NEW o \in CallOps, NEW l \in Elem, NEW w \in 0 .. NK_AS_NORMAL
  PROVE  /\ Call(o, l, w) \in CallType /\ Call(o, l, w).op = o /\ Call(o, l, w).layer = l
         /\ Call(o, l, w).where = w /\ Call(o, l, w).popped = FALSE
BY DEF Call, CallType, CallOps, Elem

LEMMA StackFacts ==
  ASSUME LayerTypeOK
  PROVE  /\ stack \in VecType /\ stack.elems \in Seq(Elem) /\ Count = Len(stack.elems)
         /\ Count \in Nat /\ stack.cap \in Nat /\ Count <= stack.cap
         /\ \A k \in 1 .. Count : stack.elems[k] \in Elem
         /\ \A l : l \in Vec!Elements(stack) <=> \E k \in 1 .. Count : stack.elems[k] = l
<1>1. stack \in VecType /\ Count <= stack.cap
  BY DEF LayerTypeOK, VecType, Elem
<1>2. Count = Len(stack.elems)
  BY DEF Count, Vec!NkVectorGetElementCount
<1>3. \A l : l \in Vec!Elements(stack) <=> \E k \in 1 .. Count : stack.elems[k] = l
  BY <1>2 DEF Vec!Elements
<1> QED BY <1>1, <1>2, <1>3, VecCount

LEMMA CallTyped ==
  ASSUME LayerTypeOK, NEW t \in Threads
  PROVE  /\ call \in [Threads -> CallType] /\ call[t] \in CallType
         /\ call[t].op \in CallOps /\ call[t].layer \in Elem
         /\ call[t].where \in 0 .. NK_AS_NORMAL /\ call[t].where \in Nat
         /\ call[t].popped \in BOOLEAN
<1>1. call \in [Threads -> CallType] /\ call[t] \in CallType
  BY DEF LayerTypeOK
<1>2. /\ call[t].op \in CallOps /\ call[t].layer \in Elem
      /\ call[t].where \in 0 .. NK_AS_NORMAL /\ call[t].popped \in BOOLEAN
  BY <1>1 DEF CallType, CallOps, Elem
<1>3. call[t].where \in Nat
  BY <1>2, Sizes
<1> QED BY <1>1, <1>2, <1>3

LEMMA SetCallFacts ==
  ASSUME LayerTypeOK, NEW t \in Threads, NEW c \in CallType, SetCall(t, c)
  PROVE  /\ call' \in [Threads -> CallType] /\ call'[t] = c
         /\ \A u \in Threads \ {t} : call'[u] = call[u]
BY DEF LayerTypeOK, SetCall

LEMMA DiedFacts ==
  ASSUME NEW c \in CallType
  PROVE  /\ [c EXCEPT !.op = "died"] \in CallType
         /\ [c EXCEPT !.op = "died"].op = "died"
         /\ [c EXCEPT !.op = "died"].where = c.where
         /\ [c EXCEPT !.op = "died"].popped = c.popped
BY DEF CallType

LEMMA DieKeeps ==
  ASSUME LayerInv, NEW t \in Threads, NEW c \in CallType,
         NEW why \in {"neighbour", "insert", "erase", "wild"}, Die(t, c, why),
         why = "neighbour" => c.where = NK_AS_NORMAL /\ Count > 0,
         why \in {"insert", "erase"} => c.popped,
         why = "wild" => scrambled
  PROVE  LayerInv'
<1> DEFINE d == [c EXCEPT !.op = "died"]
<1>0. d \in CallType /\ d.op = "died" /\ d.where = c.where /\ d.popped = c.popped
  BY DiedFacts
<1>s. SetCall(t, d) /\ dead' = why /\ UNCHANGED <<stack, refs, pass, scrambled>>
  BY DEF Die
<1> HIDE DEF d
<1>c. /\ call' \in [Threads -> CallType] /\ call'[t] = d
      /\ \A u \in Threads \ {t} : call'[u] = call[u]
  BY <1>0, <1>s, SetCallFacts DEF LayerInv
<1>n. Count' = Count
  BY <1>s DEF Count
<1>1. LayerTypeOK'
  BY <1>s, <1>c, <1>n DEF LayerInv, LayerTypeOK
<1>2. HaltCause'
  <2>1. CASE why = "wild"
    BY <1>s, <2>1 DEF HaltCause
  <2>2. CASE why # "wild"
    <3>1. call'[t].op = "died" /\ IF why = "neighbour"
                                  THEN call'[t].where = NK_AS_NORMAL /\ Count' > 0
                                  ELSE call'[t].popped
      BY <1>0, <1>c, <1>n, <2>2
    <3> QED BY <1>s, <2>2, <3>1 DEF HaltCause
  <2> QED BY <2>1, <2>2
<1>3. PassIndex'
  BY <1>s DEF LayerInv, PassIndex, Alive
<1>4. (\A u \in Threads : CallIndex(call[u]))'
  <2> SUFFICES ASSUME NEW u \in Threads PROVE CallIndex(call[u])'
    OBVIOUS
  <2>1. CASE u = t
    BY <1>0, <1>c, <2>1 DEF CallIndex
  <2>2. CASE u # t
    <3>1. call'[u] = call[u] /\ CallIndex(call[u])
      BY <1>c, <2>2 DEF LayerInv
    <3> QED BY <1>s, <1>n, <3>1 DEF CallIndex
  <2> QED BY <2>1, <2>2
<1>5. (Count <= NK_AS_NORMAL)' /\ (~scrambled => Wild \notin Vec!Elements(stack))'
  BY <1>s, <1>n DEF LayerInv
<1> QED BY <1>1, <1>2, <1>3, <1>4, <1>5 DEF LayerInv

(* A push at an index of the vector finds its neighbours in range.         *)
LEMMA NeighboursInRange ==
  ASSUME LayerInv, NEW where \in 0 .. NK_AS_NORMAL,
         where <= Count \/ where = NK_AS_NORMAL,
         ~\A k \in Neighbours(where) : Vec!InRange(stack, k)
  PROVE  where = NK_AS_NORMAL /\ Count > 0
<1>0. /\ Count \in Nat /\ Count = Len(stack.elems) /\ where \in Nat
      /\ SizeRange \in Nat /\ SizeRange > 0 /\ NK_AS_NORMAL = SizeRange - 1
  BY StackFacts, Sizes, LayerAssumption DEF LayerInv
<1>1. PICK k \in Neighbours(where) : ~(k < Count)
  BY <1>0 DEF Vec!InRange
<1>2. k = (where - 1) % SizeRange /\ Count # 0 /\ where # 0
  BY <1>1 DEF Neighbours
<1>3. where - 1 \in 0 .. (SizeRange - 1)
  BY <1>0, <1>2
<1> DEFINE w == where - 1
<1>4. w % SizeRange = w
  <2> HIDE DEF w
  <2>1. w \in Nat /\ w < SizeRange
    BY <1>0, <1>3 DEF w
  <2> QED BY <1>0, <2>1
<1>5. k = where - 1
  BY <1>2, <1>4
<1> QED BY <1>0, <1>1, <1>2, <1>5

(* A step of a call that leaves the vector alone.                          *)
LEMMA CallStep ==
  ASSUME LayerInv, Alive, NEW t \in Threads, NEW c \in CallType, SetCall(t, c),
         CallIndex(c), refs' \in [Layers -> Int], UNCHANGED <<stack, pass, dead, scrambled>>
  PROVE  LayerInv'
<1>1. /\ call' \in [Threads -> CallType] /\ call'[t] = c
      /\ \A u \in Threads \ {t} : call'[u] = call[u]
  BY SetCallFacts DEF LayerInv
<1>2. LayerTypeOK'
  BY <1>1 DEF LayerInv, LayerTypeOK, Count
<1>3. HaltCause'
  BY DEF HaltCause, Alive
<1>4. PassIndex'
  BY DEF LayerInv, PassIndex, Alive, Count
<1>5. (\A u \in Threads : CallIndex(call[u]))'
  BY <1>1 DEF LayerInv, CallIndex, Count
<1>6. (Count <= NK_AS_NORMAL)' /\ (~scrambled => Wild \notin Vec!Elements(stack))'
  BY DEF LayerInv, Count
<1> QED BY <1>2, <1>3, <1>4, <1>5, <1>6 DEF LayerInv

LEMMA PushBeginKeeps ==
  ASSUME LayerInv, NEW t \in Threads, NEW l \in Layers,
         NEW where \in 0 .. NK_AS_NORMAL, where <= Count \/ where = NK_AS_NORMAL,
         PushBegin(t, l, where)
  PROVE  LayerInv'
<1>1. CASE ~\A k \in Neighbours(where) : Vec!InRange(stack, k)
  <2> DEFINE c == Call("push", l, where)
  <2>1. c \in CallType /\ c.where = where
    BY DEF Call, CallType
  <2>2. Die(t, c, "neighbour")
    BY <1>1 DEF PushBegin
  <2>3. where = NK_AS_NORMAL /\ Count > 0
    BY <1>1, NeighboursInRange
  <2> HIDE DEF c
  <2> QED BY <2>1, <2>2, <2>3, DieKeeps
<1>2. CASE \A k \in Neighbours(where) : Vec!InRange(stack, k)
  <2> DEFINE c == Call("push", l, where)
  <2>2. c \in CallType /\ c.op = "push" /\ c.layer = l /\ c.where = where
    BY DEF Call, CallType
  <2> HIDE DEF c
  <2>3. CallIndex(c)
    BY <2>2 DEF CallIndex
  <2>4. Alive /\ SetCall(t, c) /\ UNCHANGED <<stack, refs, pass, dead, scrambled>>
    BY <1>2 DEF PushBegin, c
  <2> QED BY <2>2, <2>3, <2>4, CallStep DEF LayerInv, LayerTypeOK
<1> QED BY <1>1, <1>2

LEMMA NoCallIndex == CallIndex(NoCall)
BY NoCallFacts DEF CallIndex

LEMMA PushRefusedKeeps ==
  ASSUME LayerInv, NEW t \in Threads, PushRefused(t)
  PROVE  LayerInv'
<1>1. refs' \in [Layers -> Int]
  BY DEF PushRefused, LayerInv, LayerTypeOK
<1> QED BY <1>1, NoCallFacts, NoCallIndex, CallStep DEF PushRefused

LEMMA PushAddRefKeeps ==
  ASSUME LayerInv, NEW t \in Threads, PushAddRef(t)
  PROVE  LayerInv'
<1>1. refs' \in [Layers -> Int]
  <2>1. refs \in [Layers -> Int] /\ call[t].layer \in Layers
    BY DEF PushAddRef, LayerInv, LayerTypeOK, CallIndex
  <2> QED BY <2>1 DEF PushAddRef
<1> QED BY <1>1, NoCallFacts, NoCallIndex, CallStep DEF PushAddRef

LEMMA PopReleaseKeeps ==
  ASSUME LayerInv, NEW t \in Threads, PopRelease(t)
  PROVE  LayerInv'
<1>1. CASE call[t].layer = Wild
  <2>1. scrambled
    BY <1>1 DEF PopRelease, LayerInv, CallIndex
  <2>2. Die(t, call[t], "wild") /\ call[t] \in CallType
    BY <1>1, CallTyped DEF PopRelease, LayerInv
  <2> QED BY <2>1, <2>2, DieKeeps
<1>2. CASE call[t].layer # Wild
  <2>1. refs' \in [Layers -> Int]
    BY <1>2 DEF PopRelease, LayerInv, LayerTypeOK
  <2> QED BY <1>2, <2>1, NoCallFacts, NoCallIndex, CallStep DEF PopRelease
<1> QED BY <1>1, <1>2

LEMMA LeastIndex ==
  ASSUME NEW S, S \subseteq Nat, S # {}
  PROVE  \E i \in S : \A k \in S : i <= k
<1> DEFINE R == {p \in Nat \X Nat : p[1] < p[2]}
<1>1. IsWellFoundedOn(R, Nat)
  BY NatLessThanWellFounded DEF OpToRel
<1>2. PICK i \in S : \A k \in S : ~(<<k, i>> \in R)
  <2> HIDE DEF R
  <2> QED BY <1>1, WFMin
<1>3. \A k \in S : i <= k
  <2> SUFFICES ASSUME NEW k \in S, ~(i <= k) PROVE FALSE
    OBVIOUS
  <2>1. k \in Nat /\ i \in Nat /\ k < i
    OBVIOUS
  <2>2. <<k, i>> \in R
    BY <2>1
  <2> QED BY <1>2, <2>2
<1> QED BY <1>3

LEMMA QueryIndexFacts ==
  ASSUME LayerTypeOK, NEW l, QueryIndex(l) # Vec!SizeMax
  PROVE  /\ QueryIndex(l) \in 0 .. (Count - 1)
         /\ stack.elems[QueryIndex(l) + 1] = l
<1> DEFINE at == {i \in 0 .. (Count - 1) : Vec!NkVectorAt(stack, i) = l}
<1>1. at # {} /\ QueryIndex(l) = CHOOSE i \in at : \A k \in at : i <= k
  BY DEF QueryIndex
<1>2. Count \in Nat
  BY StackFacts
<1>3. \E i \in at : \A k \in at : i <= k
  <2>1. at \subseteq Nat
    BY <1>2
  <2> QED BY <1>1, <2>1, LeastIndex
<1>4. QueryIndex(l) \in at
  BY <1>1, <1>3
<1> QED BY <1>4 DEF Vec!NkVectorAt

LEMMA PopQueryKeeps ==
  ASSUME LayerInv, NEW t \in Threads, NEW l \in Layers, PopQuery(t, l)
  PROVE  LayerInv'
<1> DEFINE w == QueryIndex(l)
           c == Call("pop", l, w)
<1>1. w \in 0 .. (Count - 1)
  BY QueryIndexFacts DEF PopQuery, LayerInv
<1>2. w \in 0 .. NK_AS_NORMAL /\ w < Count
  BY <1>1, Sizes, StackFacts DEF LayerInv
<1> HIDE DEF w
<1>3. c \in CallType /\ c.op = "pop" /\ c.where = w
  <2>1. "pop" \in CallOps /\ l \in Elem
    BY DEF CallOps, Elem
  <2> QED BY <1>2, <2>1, CallFacts
<1>4. CallIndex(c)
  BY <1>2, <1>3 DEF CallIndex
<1>5. Alive /\ SetCall(t, c) /\ UNCHANGED <<stack, refs, pass, dead, scrambled>>
  BY DEF PopQuery, w
<1> HIDE DEF c
<1> QED BY <1>3, <1>4, <1>5, CallStep DEF LayerInv, LayerTypeOK

LEMMA Remainder ==
  ASSUME NEW a \in Nat, NEW b \in Nat, b > 0
  PROVE  a % b \in 0 .. (b - 1)
OBVIOUS

LEMMA NotFull ==
  ASSUME LayerInv, Vec!Fits(stack, 1)
  PROVE  Count + 1 <= NK_AS_NORMAL
<1>1. Count = Len(stack.elems) /\ Count \in Nat /\ Count <= NK_AS_NORMAL
  BY StackFacts DEF LayerInv
<1>2. SizeRange \in Nat /\ SizeRange > 0 /\ NK_AS_NORMAL = SizeRange - 1
  BY Sizes, LayerAssumption
<1>3. (Count + 1) % SizeRange > Count
  BY <1>1 DEF Vec!Fits
<1> DEFINE n == Count
           r == (n + 1) % SizeRange
<1> HIDE DEF n
<1>4. r \in 0 .. (SizeRange - 1)
  <2>1. n + 1 \in Nat
    BY <1>1 DEF n
  <2> QED BY <1>2, <2>1, Remainder
<1>5. r > n
  BY <1>3 DEF n
<1> HIDE DEF r
<1>6. n + 1 <= NK_AS_NORMAL
  BY <1>1, <1>2, <1>4, <1>5 DEF n
<1> QED BY <1>6 DEF n

(* The insertion of a layer: what it does to the vector and to the calls.  *)
LEMMA InsertEffect ==
  ASSUME LayerInv, NEW t \in Threads, call[t].op = "push",
         NEW i, i = InsertIndex(call[t].where), ~(i > Count), Vec!Fits(stack, 1),
         stack' = Vec!NkVectorInsert(stack, call[t].layer, i),
         call' = [call EXCEPT ![t].op = "addref"]
  PROVE  /\ i \in 0 .. Count
         /\ stack' \in VecType /\ Count' = Count + 1 /\ Count' <= stack'.cap
         /\ Count' <= NK_AS_NORMAL
         /\ i = Count => /\ \A k \in 1 .. Count : stack'.elems[k] = stack.elems[k]
                         /\ stack'.elems[Count + 1] = call[t].layer
         /\ call' \in [Threads -> CallType]
         /\ call'[t].op = "addref" /\ call'[t].layer = call[t].layer
         /\ \A u \in Threads \ {t} : call'[u] = call[u]
<1>0. /\ stack \in VecType /\ Count = Len(stack.elems) /\ Count \in Nat
      /\ Count <= stack.cap
  BY StackFacts DEF LayerInv
<1>1. /\ call \in [Threads -> CallType] /\ call[t] \in CallType
      /\ call[t].layer \in Elem /\ call[t].where \in Nat
  BY CallTyped DEF LayerInv
<1>2. i \in 0 .. Count
  BY <1>0, <1>1, Sizes DEF InsertIndex
<1>3. /\ stack' \in VecType /\ Len(stack'.elems) = Count + 1
      /\ Len(stack'.elems) <= stack'.cap
      /\ i = Count => \A k \in 1 .. (Count + 1) :
                        stack'.elems[k] = IF k <= i THEN stack.elems[k] ELSE call[t].layer
  BY <1>0, <1>1, <1>2, InsertFacts
<1>4. Count' = Len(stack'.elems)
  BY DEF Count, Vec!NkVectorGetElementCount
<1>5. i = Count => /\ \A k \in 1 .. Count : stack'.elems[k] = stack.elems[k]
                   /\ stack'.elems[Count + 1] = call[t].layer
  BY <1>0, <1>3
<1>6. call'[t] = [call[t] EXCEPT !.op = "addref"]
  BY <1>1
<1>7. \A u \in Threads \ {t} : call'[u] = call[u]
  BY <1>1
<1>8. call'[t] \in CallType /\ call'[t].op = "addref" /\ call'[t].layer = call[t].layer
  BY <1>1, <1>6 DEF CallType
<1>9. call' \in [Threads -> CallType]
  BY <1>1, <1>7, <1>8
<1> QED BY <1>2, <1>3, <1>4, <1>5, <1>7, <1>8, <1>9, NotFull

LEMMA PushInsertKeeps ==
  ASSUME LayerInv, NEW t \in Threads, PushInsert(t)
  PROVE  LayerInv'
<1> DEFINE i == InsertIndex(call[t].where)
<1>0. /\ Alive /\ call[t].op = "push" /\ CallIndex(call[t])
      /\ Count \in Nat /\ call[t].where \in Nat
  BY StackFacts, CallTyped DEF PushInsert, LayerInv
<1>1. CASE i > Count
  <2>1. call[t].popped
    BY <1>0, <1>1 DEF InsertIndex, CallIndex
  <2>2. Die(t, call[t], "insert") /\ call[t] \in CallType
    BY <1>1, CallTyped DEF PushInsert, LayerInv
  <2> QED BY <2>1, <2>2, DieKeeps
<1>2. CASE ~(i > Count) /\ ~Vec!Fits(stack, 1)
  <2>1. /\ SetCall(t, NoCall) /\ UNCHANGED <<stack, refs, pass, dead, scrambled>>
    BY <1>2 DEF PushInsert
  <2>2. refs' \in [Layers -> Int]
    BY <2>1 DEF LayerInv, LayerTypeOK
  <2> QED BY <1>0, <2>1, <2>2, NoCallFacts, NoCallIndex, CallStep
<1>3. CASE ~(i > Count) /\ Vec!Fits(stack, 1)
  <2>1. /\ stack' = Vec!NkVectorInsert(stack, call[t].layer, i)
        /\ scrambled' = (scrambled \/ i < Count)
        /\ call' = [call EXCEPT ![t].op = "addref"]
        /\ UNCHANGED <<refs, pass, dead>>
    BY <1>3 DEF PushInsert
  <2> HIDE DEF i
  <2>2. /\ i \in 0 .. Count
        /\ stack' \in VecType /\ Count' = Count + 1 /\ Count' <= stack'.cap
        /\ Count' <= NK_AS_NORMAL
        /\ i = Count => /\ \A k \in 1 .. Count : stack'.elems[k] = stack.elems[k]
                        /\ stack'.elems[Count + 1] = call[t].layer
    BY <1>0, <1>3, <2>1, InsertEffect DEF i
  <2>3. /\ call' \in [Threads -> CallType]
        /\ call'[t].op = "addref" /\ call'[t].layer = call[t].layer
        /\ \A u \in Threads \ {t} : call'[u] = call[u]
    BY <1>0, <1>3, <2>1, InsertEffect DEF i
  <2>4. scrambled' \in BOOLEAN /\ (~scrambled' => ~scrambled /\ i = Count)
    <3>1. scrambled \in BOOLEAN /\ scrambled' \in BOOLEAN
      BY <2>1 DEF LayerInv, LayerTypeOK
    <3>2. ~scrambled' => ~scrambled /\ ~(i < Count)
      BY <2>1
    <3> QED BY <1>0, <2>2, <3>1, <3>2
  <2>5. LayerTypeOK'
    BY <2>1, <2>2, <2>3, <2>4 DEF LayerInv, LayerTypeOK, VecType, Elem
  <2>6. HaltCause' /\ Alive'
    BY <1>0, <2>1 DEF HaltCause, Alive
  <2>7. PassIndex'
    <3>1. pass # NoPass => pass.n \in Nat
      BY DEF LayerInv, LayerTypeOK, PassType
    <3> QED BY <1>0, <2>1, <2>2, <3>1 DEF LayerInv, PassIndex, Alive
  <2>8. \A u \in Threads : CallIndex(call[u])'
    <3> TAKE u \in Threads
    <3>1. CASE u = t
      BY <1>0, <2>3, <3>1 DEF CallIndex
    <3>2. CASE u # t
      <4>1. CallIndex(call[u]) /\ call'[u] = call[u] /\ call[u].where \in Nat
        BY <2>3, <3>2, CallTyped DEF LayerInv
      <4> QED BY <1>0, <2>2, <2>4, <4>1 DEF CallIndex
    <3> QED BY <3>1, <3>2
  <2>9. ~scrambled' => Wild \notin Vec!Elements(stack)'
    <3> SUFFICES ASSUME ~scrambled', Wild \in Vec!Elements(stack)' PROVE FALSE
      OBVIOUS
    <3>1. PICK k \in 1 .. Count' : stack'.elems[k] = Wild
      BY DEF Vec!Elements, Count, Vec!NkVectorGetElementCount
    <3>2. CASE k \in 1 .. Count
      <4>1. stack.elems[k] = Wild
        BY <2>2, <2>4, <3>1, <3>2
      <4> QED BY <2>4, <3>2, <4>1, StackFacts DEF LayerInv
    <3>3. CASE k = Count + 1
      BY <1>0, <2>2, <2>4, <3>1, <3>3, LayerAssumption DEF CallIndex
    <3> QED BY <1>0, <2>2, <3>2, <3>3
  <2> QED BY <2>2, <2>5, <2>6, <2>7, <2>8, <2>9 DEF LayerInv
<1> QED BY <1>1, <1>2, <1>3

PassKinds == {"none", "event", "update", "render"}

LEMMA PassTyped ==
  ASSUME NEW p \in PassType
  PROVE  /\ p.kind \in PassKinds /\ p.i \in Nat /\ p.n \in Nat /\ p.layer \in Elem
         /\ p.calls \in [Layers -> Nat] /\ p.stayed \subseteq Layers
         /\ p.popped \in BOOLEAN /\ p.shifted \in BOOLEAN /\ p.gone \in BOOLEAN
BY DEF PassType, PassKinds, Elem

(* The removal of a layer: what it does to the vector, to the calls and to *)
(* the traversal.                                                          *)
LEMMA EraseEffect ==
  ASSUME LayerInv, NEW t \in Threads, PopErase(t), Vec!InRange(stack, call[t].where)
  PROVE  LET i == call[t].where
             got == stack.elems[i + 1]
         IN  /\ i \in Nat /\ i < Count /\ got \in Elem
             /\ stack' \in VecType /\ stack'.cap = stack.cap /\ Count' = Count - 1
             /\ \A k \in 1 .. (Count - 1) :
                  stack'.elems[k] = IF k <= i THEN stack.elems[k] ELSE stack.elems[k + 1]
             /\ call' \in [Threads -> CallType]
             /\ call'[t].op = "release" /\ call'[t].layer = got
             /\ \A u \in Threads \ {t} :
                  /\ call'[u].op = call[u].op /\ call'[u].layer = call[u].layer
                  /\ call[u].op # "none" => call'[u].popped
                  /\ call[u] = NoCall => call'[u] = NoCall
<1> DEFINE i == call[t].where
           got == stack.elems[i + 1]
<1>0. /\ stack \in VecType /\ Count = Len(stack.elems) /\ Count \in Nat
      /\ \A k \in 1 .. Count : stack.elems[k] \in Elem
  BY StackFacts DEF LayerInv
<1>1. i \in Nat /\ i < Count
  BY <1>0, CallTyped DEF LayerInv, Vec!InRange
<1>2. got \in Elem
  BY <1>0, <1>1
<1>3. /\ stack' = Vec!NkVectorErase(stack, i)
      /\ call' = [u \in Threads |->
                    IF u = t THEN Call("release", got, 0)
                    ELSE [call[u] EXCEPT !.popped = call[u] # NoCall]]
  BY DEF PopErase, Vec!NkVectorAt
<1>4. /\ stack' \in VecType /\ stack'.cap = stack.cap /\ Len(stack'.elems) = Count - 1
      /\ \A k \in 1 .. (Count - 1) :
           stack'.elems[k] = IF k <= i THEN stack.elems[k] ELSE stack.elems[k + 1]
  BY <1>0, <1>1, <1>3, EraseFacts
<1>5. Count' = Len(stack'.elems)
  BY DEF Count, Vec!NkVectorGetElementCount
<1>6. call'[t] \in CallType /\ call'[t].op = "release" /\ call'[t].layer = got
  <2>1. call'[t] = Call("release", got, 0)
    BY <1>3
  <2> HIDE DEF got
  <2> QED BY <1>2, <2>1, Sizes DEF Call, CallType, Elem
<1>7. ASSUME NEW u \in Threads \ {t}
      PROVE  /\ call'[u] \in CallType
             /\ call'[u].op = call[u].op /\ call'[u].layer = call[u].layer
             /\ call[u].op # "none" => call'[u].popped
             /\ call[u] = NoCall => call'[u] = NoCall
  <2>1. PICK b \in BOOLEAN : b = (call[u] # NoCall)
    OBVIOUS
  <2>2. call'[u] = [call[u] EXCEPT !.popped = b]
    BY <1>3, <2>1
  <2>3. call[u] \in CallType
    BY CallTyped DEF LayerInv
  <2>4. /\ call'[u] \in CallType /\ call'[u].op = call[u].op
        /\ call'[u].layer = call[u].layer /\ call'[u].popped = b
    BY <2>2, <2>3 DEF CallType
  <2>5. call[u].op # "none" => b
    BY <2>1, NoCallFacts
  <2>6. call[u] = NoCall => call'[u] = NoCall
    <3> SUFFICES ASSUME call[u] = NoCall PROVE call'[u] = NoCall
      OBVIOUS
    <3>1. b = FALSE
      BY <2>1
    <3>2. call'[u].where = call[u].where
      BY <2>2, <2>3 DEF CallType
    <3>3. /\ call'[u].op = NoCall.op /\ call'[u].layer = NoCall.layer
          /\ call'[u].where = NoCall.where /\ call'[u].popped = NoCall.popped
      BY <2>4, <3>1, <3>2, NoCallFacts
    <3> QED BY <2>4, <3>3, NoCallFacts, SameCall
  <2> QED BY <2>4, <2>5, <2>6
<1>8. call' \in [Threads -> CallType]
  <2>1. \A u \in Threads : call'[u] \in CallType
    BY <1>6, <1>7
  <2>2. call' = [u \in Threads |-> call'[u]]
    BY <1>3
  <2> QED BY <2>1, <2>2
<1> QED BY <1>1, <1>2, <1>4, <1>5, <1>6, <1>7, <1>8

LEMMA ErasePass ==
  ASSUME LayerInv, NEW t \in Threads, PopErase(t), Vec!InRange(stack, call[t].where)
  PROVE  LET i == call[t].where
             got == stack.elems[i + 1]
         IN  /\ pass' \in PassType
             /\ pass = NoPass => pass' = NoPass
             /\ pass # NoPass =>
                  /\ pass'.kind = pass.kind /\ pass'.i = pass.i /\ pass'.n = pass.n
                  /\ pass'.layer = pass.layer /\ pass'.calls = pass.calls
                  /\ pass'.stayed = pass.stayed \ {got} /\ pass'.popped
                  /\ pass'.shifted <=> (pass.shifted \/ i <= pass.i)
                  /\ pass'.gone <=> (pass.gone \/ got = pass.layer)
<1> DEFINE i == call[t].where
           got == stack.elems[i + 1]
<1>1. pass \in PassType
  BY DEF LayerInv, LayerTypeOK
<1>2. CASE pass = NoPass
  <2>1. pass' = NoPass
    BY <1>2 DEF PopErase
  <2> QED BY <1>1, <1>2, <2>1
<1>3. CASE pass # NoPass
  <2>1. PICK b \in BOOLEAN, c \in BOOLEAN :
          b = (pass.shifted \/ i <= pass.i) /\ c = (pass.gone \/ got = pass.layer)
    OBVIOUS
  <2>2. pass' = [pass EXCEPT !.stayed = @ \ {got}, !.popped = TRUE,
                             !.shifted = b, !.gone = c]
    BY <1>3, <2>1 DEF PopErase, Vec!NkVectorAt
  <2> HIDE DEF i, got
  <2>3. /\ pass' \in PassType
        /\ pass'.kind = pass.kind /\ pass'.i = pass.i /\ pass'.n = pass.n
        /\ pass'.layer = pass.layer /\ pass'.calls = pass.calls
        /\ pass'.stayed = pass.stayed \ {got} /\ pass'.popped = TRUE
        /\ pass'.shifted = b /\ pass'.gone = c
    <3>1. PICK s \in SUBSET Layers : s = pass.stayed \ {got}
      BY <1>1, PassTyped
    <3>2. pass' = [pass EXCEPT !.stayed = s, !.popped = TRUE, !.shifted = b, !.gone = c]
      BY <2>2, <3>1
    <3>3. pass' \in PassType
      BY <1>1, <3>2 DEF PassType
    <3>4. /\ pass'.kind = pass.kind /\ pass'.i = pass.i /\ pass'.n = pass.n
          /\ pass'.layer = pass.layer /\ pass'.calls = pass.calls /\ pass'.stayed = s
      BY <1>1, <3>2 DEF PassType
    <3>5. pass'.popped = TRUE /\ pass'.shifted = b /\ pass'.gone = c
      BY <1>1, <3>2 DEF PassType
    <3> QED BY <3>1, <3>3, <3>4, <3>5
  <2>4. (pass'.shifted <=> (pass.shifted \/ i <= pass.i))
        /\ (pass'.gone <=> (pass.gone \/ got = pass.layer))
    BY <2>1, <2>3
  <2> QED BY <1>3, <2>3, <2>4 DEF i, got
<1> QED BY <1>2, <1>3

LEMMA PopEraseKeeps ==
  ASSUME LayerInv, NEW t \in Threads, PopErase(t)
  PROVE  LayerInv'
<1> DEFINE i == call[t].where
           got == stack.elems[i + 1]
<1>0. /\ Alive /\ call[t].op = "pop" /\ CallIndex(call[t])
      /\ Count = Len(stack.elems) /\ Count \in Nat /\ i \in Nat /\ Count <= stack.cap
      /\ Count <= NK_AS_NORMAL /\ NK_AS_NORMAL \in Nat /\ stack.cap \in Nat
  BY StackFacts, CallTyped, Sizes DEF PopErase, LayerInv
<1>1. CASE ~Vec!InRange(stack, i)
  <2>1. call[t].popped
    BY <1>0, <1>1 DEF CallIndex, Vec!InRange
  <2>2. Die(t, call[t], "erase") /\ call[t] \in CallType
    BY <1>1, CallTyped DEF PopErase, LayerInv
  <2> QED BY <2>1, <2>2, DieKeeps
<1>2. CASE Vec!InRange(stack, i)
  <2>1. /\ i < Count /\ got \in Elem
        /\ stack' \in VecType /\ stack'.cap = stack.cap /\ Count' = Count - 1
        /\ \A k \in 1 .. (Count - 1) :
             stack'.elems[k] = IF k <= i THEN stack.elems[k] ELSE stack.elems[k + 1]
    BY <1>2, EraseEffect
  <2>2. /\ call' \in [Threads -> CallType]
        /\ call'[t].op = "release" /\ call'[t].layer = got
        /\ \A u \in Threads \ {t} :
             /\ call'[u].op = call[u].op /\ call'[u].layer = call[u].layer
             /\ call[u].op # "none" => call'[u].popped
    BY <1>2, EraseEffect
  <2>3. UNCHANGED <<refs, dead, scrambled>>
    BY <1>2 DEF PopErase
  <2>4. /\ pass' \in PassType
        /\ pass = NoPass => pass' = NoPass
        /\ pass # NoPass => /\ pass'.kind = pass.kind /\ pass'.i = pass.i
                            /\ pass'.n = pass.n /\ pass'.popped
    BY <1>2, ErasePass
  <2>5. LayerTypeOK'
    <3>1. Count' <= stack'.cap
      BY <1>0, <2>1
    <3> QED BY <2>1, <2>2, <2>3, <2>4, <3>1 DEF LayerInv, LayerTypeOK, VecType, Elem
  <2>6. HaltCause' /\ Alive'
    BY <1>0, <2>3 DEF HaltCause, Alive
  <2>7. PassIndex'
    BY <1>0, <2>4 DEF LayerInv, PassIndex
  <2>8. \A u \in Threads : CallIndex(call[u])'
    <3> TAKE u \in Threads
    <3>1. CASE u = t
      <4>1. ~scrambled => got # Wild
        BY <1>0, <2>1, StackFacts DEF LayerInv
      <4> HIDE DEF got
      <4> QED BY <2>2, <2>3, <3>1, <4>1 DEF CallIndex
    <3>2. CASE u # t
      <4>1. CallIndex(call[u])
        BY DEF LayerInv
      <4> QED BY <2>2, <2>3, <3>2, <4>1 DEF CallIndex
    <3> QED BY <3>1, <3>2
  <2>9. ~scrambled' => Wild \notin Vec!Elements(stack)'
    <3> SUFFICES ASSUME ~scrambled', Wild \in Vec!Elements(stack)' PROVE FALSE
      OBVIOUS
    <3>1. PICK k \in 1 .. Count' : stack'.elems[k] = Wild
      BY DEF Vec!Elements, Count, Vec!NkVectorGetElementCount
    <3>2. \E j \in 1 .. Count : stack.elems[j] = Wild
      <4>1. k \in 1 .. Count /\ k + 1 \in 1 .. Count /\ k \in 1 .. (Count - 1)
        BY <1>0, <2>1
      <4> QED BY <2>1, <3>1, <4>1
    <3> QED BY <2>3, <3>2, StackFacts DEF LayerInv
  <2>10. (Count <= NK_AS_NORMAL)'
    BY <1>0, <2>1
  <2> QED BY <2>5, <2>6, <2>7, <2>8, <2>9, <2>10 DEF LayerInv
<1> QED BY <1>1, <1>2

(* The loop head of a traversal.                                           *)
Visited(p, i) ==
  /\ i \in Nat /\ i < p.n /\ i < Count /\ stack.elems[i + 1] \in Layers
  /\ pass' \in PassType /\ pass'.kind = p.kind /\ pass'.n = p.n /\ pass'.i = i
  /\ pass'.layer = stack.elems[i + 1] /\ pass'.stayed = p.stayed
  /\ \A l \in Layers :
       pass'.calls[l] = IF l = stack.elems[i + 1] THEN p.calls[l] + 1 ELSE p.calls[l]
  /\ pass'.popped = p.popped /\ pass'.shifted = p.shifted /\ pass'.gone = FALSE

LEMMA VisitEffect ==
  ASSUME LayerTypeOK, NEW p \in PassType, p.kind # "none",
         NEW i \in Int, p.kind = "render" => i < p.n, p.kind # "render" => i >= 0,
         Visit(p, i)
  PROVE  \/ Ends(p.kind, i, p.n) /\ pass' = NoPass /\ dead' = dead
         \/ /\ i \in Nat /\ i < p.n /\ pass' = p
            /\ \/ dead' = "at" /\ i >= Count
               \/ dead' = "wild" /\ Wild \in Vec!Elements(stack)
         \/ ~Ends(p.kind, i, p.n) /\ dead' = dead /\ Visited(p, i)
<1> DEFINE l == stack.elems[i + 1]
<1>0. /\ Count = Len(stack.elems) /\ Count \in Nat
      /\ \A k \in 1 .. Count : stack.elems[k] \in Elem
      /\ \A m : m \in Vec!Elements(stack) <=> \E k \in 1 .. Count : stack.elems[k] = m
  BY StackFacts
<1>1. p.n \in Nat /\ p.calls \in [Layers -> Nat]
  BY PassTyped
<1>2. CASE Ends(p.kind, i, p.n)
  BY <1>2 DEF Visit
<1>3. CASE ~Ends(p.kind, i, p.n)
  <2>1. i \in Nat /\ i < p.n
    BY <1>1, <1>3 DEF Ends
  <2>2. CASE ~Vec!InRange(stack, i)
    <3>1. pass' = p /\ dead' = "at"
      BY <1>3, <2>2 DEF Visit
    <3>2. i >= Count
      BY <1>0, <2>1, <2>2 DEF Vec!InRange
    <3> QED BY <2>1, <3>1, <3>2
  <2>3. CASE Vec!InRange(stack, i)
    <3>1. i < Count /\ i + 1 \in 1 .. Count
      BY <1>0, <2>1, <2>3 DEF Vec!InRange
    <3>2. CASE l = Wild
      <4>1. pass' = p /\ dead' = "wild"
        BY <1>3, <2>3, <3>2 DEF Visit, Vec!NkVectorAt
      <4>2. Wild \in Vec!Elements(stack)
        BY <1>0, <3>1, <3>2
      <4> QED BY <2>1, <4>1, <4>2
    <3>3. CASE l # Wild
      <4>1. l \in Layers
        BY <1>0, <3>1, <3>3 DEF Elem
      <4>2. /\ pass' = [p EXCEPT !.i = i, !.layer = l, !.gone = FALSE, !.calls[l] = @ + 1]
            /\ dead' = dead
        BY <1>3, <2>3, <3>3 DEF Visit, Vec!NkVectorAt
      <4> HIDE DEF l
      <4>3. PICK c \in [Layers -> Nat] : c = [p.calls EXCEPT ![l] = @ + 1]
        <5>1. p.calls[l] + 1 \in Nat
          BY <1>1, <4>1
        <5>2. [p.calls EXCEPT ![l] = p.calls[l] + 1] \in [Layers -> Nat]
          BY <1>1, <5>1
        <5> QED BY <5>2
      <4>4. \A m \in Layers : c[m] = IF m = l THEN p.calls[m] + 1 ELSE p.calls[m]
        BY <1>1, <4>1, <4>3
      <4>5. pass' = [p EXCEPT !.i = i, !.layer = l, !.gone = FALSE, !.calls = c]
        BY <4>2, <4>3 DEF PassType
      <4>6. pass' \in PassType
        BY <2>1, <4>1, <4>5 DEF PassType
      <4>7. /\ pass'.kind = p.kind /\ pass'.n = p.n /\ pass'.i = i /\ pass'.layer = l
            /\ pass'.stayed = p.stayed /\ pass'.calls = c
        BY <4>5 DEF PassType
      <4>8. pass'.popped = p.popped /\ pass'.shifted = p.shifted /\ pass'.gone = FALSE
        BY <4>5 DEF PassType
      <4>9. Visited(p, i)
        BY <2>1, <3>1, <4>1, <4>4, <4>6, <4>7, <4>8 DEF Visited, l
      <4> QED BY <1>3, <4>2, <4>9
    <3> QED BY <3>2, <3>3
  <2> QED BY <2>2, <2>3
<1> QED BY <1>2, <1>3

LEMMA NoPassFacts ==
  /\ NoPass \in PassType /\ NoPass.kind = "none" /\ NoPass.i = 0 /\ NoPass.n = 0
  /\ NoPass.calls = [l \in Layers |-> 0] /\ NoPass.stayed = {} /\ NoPass.layer = Wild
  /\ NoPass.popped = FALSE /\ NoPass.shifted = FALSE /\ NoPass.gone = FALSE
<1>1. [l \in Layers |-> 0] \in [Layers -> Nat] /\ {} \in SUBSET Layers
  OBVIOUS
<1> QED BY <1>1 DEF NoPass, PassType

VisitKeepsHyp(p, i) ==
  /\ p \in PassType /\ p.kind # "none" /\ i \in Int
  /\ p.kind = "render" => i < p.n
  /\ p.kind # "render" => i >= 0
  /\ ~p.popped => p.n <= Count

LEMMA VisitKeeps ==
  ASSUME LayerInv, Alive, NEW p, NEW i, VisitKeepsHyp(p, i), Visit(p, i),
         UNCHANGED <<stack, refs, call, scrambled>>
  PROVE  LayerInv'
<1>0. /\ p \in PassType /\ p.kind # "none" /\ i \in Int /\ Count \in Nat
      /\ p.n \in Nat /\ LayerTypeOK
  BY PassTyped, StackFacts DEF VisitKeepsHyp, LayerInv
<1>e. \/ pass' = NoPass /\ dead' = dead
      \/ /\ i \in Nat /\ i < p.n /\ pass' = p
         /\ \/ dead' = "at" /\ i >= Count
            \/ dead' = "wild" /\ Wild \in Vec!Elements(stack)
      \/ dead' = dead /\ Visited(p, i)
  BY <1>0, VisitEffect DEF VisitKeepsHyp
<1>c. Count' = Count
  BY DEF Count
<1>1. LayerTypeOK'
  <2>1. pass' \in PassType
    BY <1>0, <1>e, NoPassFacts DEF Visited
  <2>2. dead' \in {"no", "neighbour", "insert", "erase", "at", "wild"}
    BY <1>e DEF LayerInv, LayerTypeOK
  <2> QED BY <1>0, <1>c, <2>1, <2>2 DEF LayerTypeOK
<1>2. HaltCause'
  <2>1. CASE dead' = dead
    BY <2>1 DEF HaltCause, Alive
  <2>2. CASE dead' = "at" /\ i >= Count /\ i < p.n /\ pass' = p /\ i \in Nat
    <3>1. p.popped
      BY <1>0, <2>2 DEF VisitKeepsHyp
    <3> QED BY <2>2, <3>1 DEF HaltCause
  <2>3. CASE dead' = "wild" /\ Wild \in Vec!Elements(stack)
    <3>1. scrambled'
      BY <2>3 DEF LayerInv
    <3> QED BY <2>3, <3>1 DEF HaltCause
  <2> QED BY <1>e, <2>1, <2>2, <2>3
<1>3. PassIndex'
  <2>1. CASE pass' = NoPass
    BY <2>1 DEF PassIndex
  <2>2. CASE pass' = p /\ (dead' = "at" \/ dead' = "wild")
    BY <1>0, <2>2 DEF PassIndex, Alive
  <2>3. CASE Visited(p, i)
    BY <1>0, <1>c, <2>3 DEF PassIndex, Visited, VisitKeepsHyp
  <2> QED BY <1>e, <2>1, <2>2, <2>3
<1>4. (\A u \in Threads : CallIndex(call[u]))'
  BY <1>c DEF LayerInv, CallIndex
<1>5. (Count <= NK_AS_NORMAL)' /\ (~scrambled => Wild \notin Vec!Elements(stack))'
  BY <1>c DEF LayerInv
<1> QED BY <1>1, <1>2, <1>3, <1>4, <1>5 DEF LayerInv

(* The traversal that begins.                                              *)
NewPass(kind) == [NoPass EXCEPT !.kind = kind, !.n = Count,
                                !.stayed = Vec!Elements(stack) \ {Wild}]

LEMMA NewPassFacts ==
  ASSUME LayerTypeOK, NEW kind \in {"event", "update", "render"}
  PROVE  LET p == NewPass(kind)
         IN  /\ p \in PassType /\ p.kind = kind /\ p.n = Count
             /\ p.stayed = Vec!Elements(stack) \ {Wild}
             /\ p.calls = [l \in Layers |-> 0] /\ p.popped = FALSE /\ p.shifted = FALSE
<1>1. PICK s \in SUBSET Layers : s = Vec!Elements(stack) \ {Wild}
  BY StackFacts DEF Elem
<1>2. PICK n \in Nat : n = Count
  BY StackFacts
<1> DEFINE p == NewPass(kind)
<1>3. p = [NoPass EXCEPT !.kind = kind, !.n = n, !.stayed = s]
  BY <1>1, <1>2 DEF NewPass
<1> HIDE DEF p
<1>4. p \in PassType
  BY <1>3, NoPassFacts DEF PassType
<1>5. p.kind = kind /\ p.n = n /\ p.stayed = s /\ p.calls = NoPass.calls
  BY <1>3, NoPassFacts DEF PassType
<1>6. p.popped = NoPass.popped /\ p.shifted = NoPass.shifted
  BY <1>3, NoPassFacts DEF PassType
<1> QED BY <1>1, <1>2, <1>4, <1>5, <1>6, NoPassFacts DEF p

(* The two steps of a traversal, as the loop head at some index.           *)
NextIndex == IF pass.kind = "render" THEN pass.i - 1 ELSE pass.i + 1

LEMMA PassStepVisits ==
  ASSUME LayerInv
  PROVE  /\ \A kind \in {"event", "update", "render"} : PassBegin(kind) =>
              /\ VisitKeepsHyp(NewPass(kind), First(kind, Count))
              /\ Visit(NewPass(kind), First(kind, Count))
              /\ Alive /\ pass = NoPass /\ UNCHANGED <<stack, refs, call, scrambled>>
         /\ PassNext => /\ VisitKeepsHyp(pass, NextIndex) /\ Visit(pass, NextIndex)
                        /\ Alive /\ pass # NoPass /\ UNCHANGED <<stack, refs, call, scrambled>>
<1>1. ASSUME NEW kind \in {"event", "update", "render"}, PassBegin(kind)
      PROVE  /\ VisitKeepsHyp(NewPass(kind), First(kind, Count))
             /\ Visit(NewPass(kind), First(kind, Count))
             /\ Alive /\ pass = NoPass /\ UNCHANGED <<stack, refs, call, scrambled>>
  <2> DEFINE p == NewPass(kind)
             i == First(kind, Count)
  <2>1. p \in PassType /\ p.kind = kind /\ p.n = Count
    BY NewPassFacts DEF LayerInv
  <2>2. Visit(p, i) /\ Alive /\ pass = NoPass /\ UNCHANGED <<stack, refs, call, scrambled>>
    BY <1>1 DEF PassBegin, NewPass
  <2> HIDE DEF p
  <2>3. Count \in Nat
    BY StackFacts DEF LayerInv
  <2>4. VisitKeepsHyp(p, i)
    BY <2>1, <2>3 DEF VisitKeepsHyp, First
  <2> QED BY <2>2, <2>4 DEF p
<1>2. ASSUME PassNext
      PROVE  /\ VisitKeepsHyp(pass, NextIndex) /\ Visit(pass, NextIndex)
             /\ Alive /\ pass # NoPass /\ UNCHANGED <<stack, refs, call, scrambled>>
  <2>1. /\ Alive /\ Visit(pass, NextIndex) /\ UNCHANGED <<stack, refs, call, scrambled>>
        /\ pass # NoPass
    BY <1>2 DEF PassNext, NextIndex
  <2>2. pass \in PassType /\ pass.i \in Nat /\ pass.n \in Nat
    BY PassTyped DEF LayerInv, LayerTypeOK
  <2>3. pass.kind # "none" /\ pass.i < pass.n /\ (~pass.popped => pass.n <= Count)
    BY <2>1 DEF LayerInv, PassIndex
  <2>4. VisitKeepsHyp(pass, NextIndex)
    BY <2>2, <2>3 DEF VisitKeepsHyp, NextIndex
  <2> QED BY <2>1, <2>4
<1> QED BY <1>1, <1>2

LEMMA PassBeginKeeps ==
  ASSUME LayerInv, NEW kind \in {"event", "update", "render"}, PassBegin(kind)
  PROVE  LayerInv'
BY PassStepVisits, VisitKeeps

LEMMA PassNextKeeps ==
  ASSUME LayerInv, PassNext
  PROVE  LayerInv'
BY PassStepVisits, VisitKeeps

LEMMA EventHandledKeeps ==
  ASSUME LayerInv, EventHandled
  PROVE  LayerInv'
<1>1. pass' = NoPass /\ UNCHANGED <<stack, refs, call, dead, scrambled>> /\ Alive
  BY DEF EventHandled
<1>2. Count' = Count
  BY <1>1 DEF Count
<1>3. LayerTypeOK'
  BY <1>1, <1>2, NoPassFacts DEF LayerInv, LayerTypeOK
<1>4. HaltCause' /\ PassIndex'
  BY <1>1 DEF HaltCause, PassIndex, Alive
<1>5. (\A u \in Threads : CallIndex(call[u]))'
  BY <1>1, <1>2 DEF LayerInv, CallIndex
<1>6. (Count <= NK_AS_NORMAL)' /\ (~scrambled => Wild \notin Vec!Elements(stack))'
  BY <1>1, <1>2 DEF LayerInv
<1> QED BY <1>3, <1>4, <1>5, <1>6 DEF LayerInv

-----------------------------------------------------------------------------
(***************************************************************************)
(* The steps of the layer stack that the main loop and its clients make.   *)
(* A layer that is pushed is fresh: not in the stack, nor in a call.       *)
(***************************************************************************)
Fresh(l) == l \notin Vec!Elements(stack) /\ \A u \in Threads : call[u].layer # l

(* Before the world layer is pushed, the stack is empty.                   *)
StartInv ==
  phase = "start" => /\ \A u \in Threads \ {Main} : call[u] = NoCall
                     /\ call[Main].op # "addref" => Count = 0

LEMMA StartInit == Init => StartInv
<1> SUFFICES ASSUME Init PROVE StartInv
  OBVIOUS
<1>1. stack.elems = <<>> /\ call = [t \in Threads |-> NoCall]
  BY DEF Init, LayerInit, Vec!NkVectorCreate
<1>2. Count = 0
  BY <1>1 DEF Count, Vec!NkVectorGetElementCount
<1> QED BY <1>1, <1>2 DEF StartInv

LEMMA StartsOnce ==
  ASSUME LoopInv, [Next]_vars, phase' = "start"
  PROVE  phase = "start" /\ (WorldPush \/ UNCHANGED layerVars)
<1>1. CASE UNCHANGED vars
  BY <1>1 DEF vars, loopVars
<1>2. CASE WorldPush
  BY <1>2 DEF WorldPush
<1>3. CASE FrameBegin \/ PumpEmpty \/ PumpQuit \/ LayerExit \/ Shutdown \/ WorldPop
  BY <1>3 DEF FrameBegin, PumpEmpty, PumpQuit, LayerExit, Shutdown, WorldPop
<1>4. \A ph \in Traversing : ~Continue(ph)
  BY DEF Continue, After, Traversing
<1>5. CASE PumpEvent \/ UpdateBegin \/ RenderBegin
  BY <1>4, <1>5 DEF PumpEvent, UpdateBegin, RenderBegin, Traversing
<1>6. CASE Traverse
  <2>1. pass # NoPass
    BY <1>6 DEF Traverse, PassNext, EventHandled, NoPass
  <2> QED BY <1>4, <1>6, <2>1 DEF Traverse, LoopInv
<1>7. CASE ClientBegins \/ \E t \in Threads : ClientContinues(t)
  <2>1. phase = "start" /\ \E t \in Threads : MayCall(t)
    BY <1>7 DEF ClientBegins, ClientContinues, loopVars
  <2> QED BY <2>1 DEF MayCall, LoopInv, Traversing
<1> QED
  BY <1>1, <1>2, <1>3, <1>5, <1>6, <1>7 DEF Next, MainStep

LEMMA StartNext == LayerInv /\ LoopInv /\ StartInv /\ [Next]_vars => StartInv'
<1> SUFFICES ASSUME LayerInv, LoopInv, StartInv, [Next]_vars, phase' = "start"
             PROVE  /\ \A u \in Threads \ {Main} : call'[u] = NoCall
                    /\ call'[Main].op # "addref" => Count' = 0
  BY DEF StartInv
<1>1. /\ phase = "start" /\ (WorldPush \/ UNCHANGED layerVars)
      /\ \A u \in Threads \ {Main} : call[u] = NoCall
      /\ call[Main].op # "addref" => Count = 0
      /\ Main \in Threads
  BY StartsOnce, LoopAssumption DEF StartInv
<1>2. CASE UNCHANGED layerVars
  BY <1>1, <1>2 DEF layerVars, Count
<1>3. CASE WorldPush
  <2>1. PushBegin(Main, World, NK_AS_NORMAL) \/ PushInsert(Main)
    BY <1>1, <1>3 DEF WorldPush
  <2>2. \/ UNCHANGED <<stack, call>>
        \/ stack' = stack /\ \E c : SetCall(Main, c) /\ call[Main].op # "addref"
        \/ call' = [call EXCEPT ![Main].op = "addref"]
    BY <2>1, NoCallFacts DEF PushBegin, PushInsert, Die
  <2>3. call \in [Threads -> CallType] /\ call[Main] \in CallType
    BY <1>1, CallTyped DEF LayerInv
  <2>4. \A u \in Threads \ {Main} : call'[u] = call[u]
    BY <1>1, <2>2, <2>3 DEF SetCall
  <2>5. call'[Main].op # "addref" => Count' = Count /\ call[Main].op # "addref"
    <3>1. CASE UNCHANGED <<stack, call>> \/ (stack' = stack /\ call[Main].op # "addref")
      BY <3>1 DEF Count
    <3>2. CASE call' = [call EXCEPT ![Main].op = "addref"]
      <4>1. call'[Main] = [call[Main] EXCEPT !.op = "addref"]
        BY <1>1, <2>3, <3>2
      <4>2. call'[Main].op = "addref"
        BY <2>3, <4>1 DEF CallType
      <4> QED BY <4>2
    <3> QED BY <2>2, <3>1, <3>2
  <2> QED BY <1>1, <2>4, <2>5
<1> QED BY <1>1, <1>2, <1>3

LayerStep ==
  \/ \E t \in Threads, l \in Layers :
       \/ \E where \in 0 .. NK_AS_NORMAL :
            /\ Fresh(l) /\ (where <= Count \/ where = NK_AS_NORMAL)
            /\ PushBegin(t, l, where)
       \/ PopQuery(t, l)
  \/ \E t \in Threads : \/ PushRefused(t) \/ PushInsert(t) \/ PushAddRef(t)
                        \/ PopErase(t) \/ PopRelease(t)
  \/ \E kind \in {"event", "update", "render"} : PassBegin(kind)
  \/ PassNext \/ EventHandled

LEMMA NextIsLayerStep ==
  ASSUME LayerInv, StartInv, [Next]_vars
  PROVE  LayerStep \/ UNCHANGED layerVars
<1>0. Main \in Threads /\ World \in Layers
  BY LoopAssumption
<1>1. \A where \in (0 .. Count) \cup {NK_AS_NORMAL} :
        where \in 0 .. NK_AS_NORMAL /\ (where <= Count \/ where = NK_AS_NORMAL)
  BY Sizes, StackFacts DEF LayerInv
<1>2. CASE UNCHANGED vars
  BY <1>2 DEF vars
<1>3. CASE WorldPush
  <2>1. PushBegin(Main, World, NK_AS_NORMAL) => Fresh(World)
    <3> SUFFICES ASSUME PushBegin(Main, World, NK_AS_NORMAL) PROVE Fresh(World)
      OBVIOUS
    <3>1. call[Main] = NoCall
      BY DEF PushBegin
    <3>2. phase = "start"
      BY <1>3 DEF WorldPush
    <3>3. Count = 0 /\ \A u \in Threads : call[u] = NoCall
      BY <3>1, <3>2, NoCallFacts DEF StartInv
    <3>4. Vec!Elements(stack) = {}
      BY <3>3, StackFacts DEF LayerInv
    <3> QED BY <1>0, <3>3, <3>4, NoCallFacts, LayerAssumption DEF Fresh
  <2> QED BY <1>0, <1>1, <1>3, <2>1 DEF WorldPush, LayerStep
<1>4. CASE FrameBegin \/ PumpEmpty \/ PumpQuit \/ LayerExit \/ Shutdown
  BY <1>4 DEF FrameBegin, PumpEmpty, PumpQuit, LayerExit, Shutdown
<1>5. CASE PumpEvent \/ UpdateBegin \/ RenderBegin \/ Traverse
  BY <1>5 DEF PumpEvent, UpdateBegin, RenderBegin, Traverse, LayerStep
<1>6. CASE WorldPop
  BY <1>0, <1>6 DEF WorldPop, LayerStep
<1>7. CASE ClientBegins
  BY <1>1, <1>7 DEF ClientBegins, CallBegins, LayerStep, Fresh
<1>8. CASE \E t \in Threads : ClientContinues(t)
  BY <1>8 DEF ClientContinues, CallContinues, LayerStep
<1> QED
  BY <1>2, <1>3, <1>4, <1>5, <1>6, <1>7, <1>8 DEF Next, MainStep

LEMMA LayerInitInv == Init => LayerInv
<1> SUFFICES ASSUME Init PROVE LayerInv
  OBVIOUS
<1>1. /\ stack = [elems |-> <<>>, cap |-> InitCap] /\ refs = [l \in Layers |-> 0]
      /\ call = [t \in Threads |-> NoCall] /\ pass = NoPass /\ dead = "no"
      /\ scrambled = FALSE
  BY DEF Init, LayerInit, Vec!NkVectorCreate
<1>2. stack.elems = <<>> /\ stack.cap = InitCap /\ Count = 0
  BY <1>1 DEF Count, Vec!NkVectorGetElementCount
<1>3. stack \in [elems : Seq(Layers \cup {Wild}), cap : Nat] /\ Count <= stack.cap
  BY <1>1, <1>2, LayerAssumption
<1>4. LayerTypeOK
  <2>1. NoCall \in CallType /\ NoPass \in PassType
    BY NoCallFacts, NoPassFacts
  <2>2. /\ refs \in [Layers -> Int] /\ call \in [Threads -> CallType] /\ pass \in PassType
        /\ dead \in {"no", "neighbour", "insert", "erase", "at", "wild"}
    BY <1>1, <2>1
  <2>3. scrambled \in BOOLEAN
    BY <1>1
  <2> QED BY <1>3, <2>2, <2>3 DEF LayerTypeOK
<1>5. HaltCause /\ PassIndex
  BY <1>1 DEF HaltCause, PassIndex
<1>6. \A t \in Threads : CallIndex(call[t])
  BY <1>1, NoCallIndex
<1>7. Count <= NK_AS_NORMAL /\ Wild \notin Vec!Elements(stack)
  BY <1>2, <1>4, Sizes, StackFacts
<1> QED BY <1>4, <1>5, <1>6, <1>7 DEF LayerInv

LEMMA LayerNext == LayerInv /\ StartInv /\ [Next]_vars => LayerInv'
<1> SUFFICES ASSUME LayerInv, StartInv, [Next]_vars PROVE LayerInv'
  OBVIOUS
<1>1. CASE UNCHANGED layerVars
  <2>1. Count' = Count
    BY <1>1 DEF layerVars, Count
  <2> QED BY <1>1, <2>1 DEF layerVars, LayerInv, LayerTypeOK, HaltCause, CallIndex,
                           PassIndex, Alive
<1>2. CASE LayerStep
  BY <1>2, PushBeginKeeps, PopQueryKeeps, PushRefusedKeeps, PushInsertKeeps,
     PushAddRefKeeps, PopEraseKeeps, PopReleaseKeeps, PassBeginKeeps, PassNextKeeps,
     EventHandledKeeps DEF LayerStep
<1> QED BY <1>1, <1>2, NextIsLayerStep

LEMMA LayerSafe == Spec => [](LayerInv /\ StartInv)
BY LayerInitInv, LayerNext, StartInit, StartNext, LoopSafe, PTL DEF Spec

(* The stack, the calls and the traversal keep their types: the elements   *)
(* stay inside the buffer, and the signed index of the render loop is not  *)
(* negative while a layer is called.                                       *)
THEOREM LoopTypeOK == Spec => []TypeOK
<1>1. LayerInv /\ LoopInv => TypeOK
  BY DEF LayerInv, LoopInv, TypeOK
<1> QED BY <1>1, LayerSafe, LoopSafe, PTL

(* An assertion of the layer stack fails only in a push as NK_AS_NORMAL to *)
(* a stack that is not empty, or in a call or traversal after whose        *)
(* reading of the index or the count a layer was popped; a wild pointer is *)
(* called only after an insertion below the end of the vector.             *)
THEOREM LoopHaltCause == Spec => []HaltCause
<1>1. LayerInv => HaltCause
  BY DEF LayerInv
<1> QED BY <1>1, LayerSafe, PTL

(***************************************************************************)
(* The references of the stack.  As long as every layer was inserted at    *)
(* the end, no layer is in the vector twice, and refs[l] is exact: one for *)
(* a layer in the vector, less the AddRef() its push still owes, plus the  *)
(* Release() its pop still owes.                                           *)
(***************************************************************************)
InStack == Vec!Elements(stack)

Distinct == \A j, k \in 1 .. Count : stack.elems[j] = stack.elems[k] => j = k

Adding == {"push", "addref"}

Owners ==
  /\ \A t, u \in Threads :
       call[t].op \in Adding /\ call[u].op \in Adding /\ call[t].layer = call[u].layer => t = u
  /\ \A t, u \in Threads :
       call[t].op = "release" /\ call[u].op = "release" /\ call[t].layer = call[u].layer => t = u
  /\ \A t, u \in Threads :
       call[t].op = "push" /\ call[u].op = "release" => call[t].layer # call[u].layer
  /\ \A t \in Threads : call[t].op \in {"push", "release"} => call[t].layer \notin InStack

Stored(l) == IF l \in InStack THEN 1 ELSE 0
OwedAdd(l) == IF \E t \in Threads : call[t].op = "addref" /\ call[t].layer = l THEN 1 ELSE 0
OwedRelease(l) == IF \E t \in Threads : call[t].op = "release" /\ call[t].layer = l THEN 1 ELSE 0

Balance == \A l \in Layers : refs[l] = Stored(l) - OwedAdd(l) + OwedRelease(l)

Ledger ==
  ~scrambled => /\ Distinct /\ Owners /\ Balance
                /\ pass # NoPass /\ Alive /\ ~pass.gone => pass.layer \in InStack

LEMMA Counts ==
  \A l : Stored(l) \in 0 .. 1 /\ OwedAdd(l) \in 0 .. 1 /\ OwedRelease(l) \in 0 .. 1
BY DEF Stored, OwedAdd, OwedRelease

(* A call that begins or ends and leaves the vector and the references     *)
(* alone.                                                                  *)
LEMMA CallLedger ==
  ASSUME LayerInv, Ledger, NEW t \in Threads, NEW c \in CallType, SetCall(t, c),
         UNCHANGED <<stack, refs, pass, scrambled>>, Alive' => Alive,
         call[t].op \notin {"addref", "release"},
         \/ c.op \in {"none", "pop", "died"}
         \/ c.op = "push" /\ Fresh(c.layer)
  PROVE  Ledger'
<1> SUFFICES ASSUME ~scrambled'
             PROVE  /\ Distinct' /\ Owners' /\ Balance'
                    /\ (pass # NoPass /\ Alive /\ ~pass.gone => pass.layer \in InStack)'
  BY DEF Ledger
<1>1. /\ Distinct /\ Owners /\ Balance
      /\ pass # NoPass /\ Alive /\ ~pass.gone => pass.layer \in InStack
  BY DEF Ledger
<1>2. call'[t] = c /\ \A u \in Threads \ {t} : call'[u] = call[u]
  BY SetCallFacts DEF LayerInv
<1>3. InStack' = InStack /\ Count' = Count
  BY DEF InStack, Count
<1>4. Distinct'
  BY <1>1, <1>3 DEF Distinct
<1>5. Owners'
  BY <1>1, <1>2, <1>3 DEF Owners, Adding, Fresh, InStack
<1>6. Balance'
  <2> SUFFICES ASSUME NEW l \in Layers
               PROVE  refs'[l] = Stored(l)' - OwedAdd(l)' + OwedRelease(l)'
    BY DEF Balance
  <2>1. Stored(l)' = Stored(l)
    BY <1>3 DEF Stored
  <2>2. OwedAdd(l)' = OwedAdd(l)
    BY <1>2 DEF OwedAdd
  <2>3. OwedRelease(l)' = OwedRelease(l)
    BY <1>2 DEF OwedRelease
  <2> QED BY <1>1, <2>1, <2>2, <2>3 DEF Balance
<1> QED BY <1>1, <1>3, <1>4, <1>5, <1>6

LEMMA AddRefLedger ==
  ASSUME LayerInv, Ledger, NEW t \in Threads, PushAddRef(t)
  PROVE  Ledger'
<1> SUFFICES ASSUME ~scrambled'
             PROVE  /\ Distinct' /\ Owners' /\ Balance'
                    /\ (pass # NoPass /\ Alive /\ ~pass.gone => pass.layer \in InStack)'
  BY DEF Ledger
<1> DEFINE m == call[t].layer
<1>0. /\ call[t].op = "addref" /\ SetCall(t, NoCall)
      /\ refs' = [refs EXCEPT ![m] = @ + 1]
      /\ UNCHANGED <<stack, pass, dead, scrambled>>
  BY DEF PushAddRef
<1>1. /\ Distinct /\ Owners /\ Balance
      /\ pass # NoPass /\ Alive /\ ~pass.gone => pass.layer \in InStack
  BY <1>0 DEF Ledger
<1>2. call'[t] = NoCall /\ \A u \in Threads \ {t} : call'[u] = call[u]
  BY <1>0, SetCallFacts, NoCallFacts DEF LayerInv
<1>3. InStack' = InStack /\ Count' = Count
  BY <1>0 DEF InStack, Count
<1>4. Distinct'
  BY <1>0, <1>1, <1>3 DEF Distinct
<1>5. Owners'
  BY <1>1, <1>2, <1>3, NoCallFacts DEF Owners, Adding
<1>6. Balance'
  <2> SUFFICES ASSUME NEW l \in Layers
               PROVE  refs'[l] = Stored(l)' - OwedAdd(l)' + OwedRelease(l)'
    BY DEF Balance
  <2>0. refs \in [Layers -> Int] /\ m \in Layers
    BY <1>0 DEF LayerInv, LayerTypeOK, CallIndex
  <2>1. Stored(l)' = Stored(l)
    BY <1>3 DEF Stored
  <2>2. OwedRelease(l)' = OwedRelease(l)
    BY <1>0, <1>2, NoCallFacts DEF OwedRelease
  <2>3. CASE l = m
    <3>1. OwedAdd(l) = 1
      BY <1>0, <2>3 DEF OwedAdd
    <3>2. OwedAdd(l)' = 0
      BY <1>0, <1>1, <1>2, <2>3, NoCallFacts DEF OwedAdd, Owners, Adding
    <3>3. refs'[l] = refs[l] + 1
      BY <1>0, <2>0, <2>3
    <3> QED BY <1>1, <2>1, <2>2, <3>1, <3>2, <3>3, Counts DEF Balance
  <2>4. CASE l # m
    <3>1. OwedAdd(l)' = OwedAdd(l)
      BY <1>0, <1>2, <2>4, NoCallFacts DEF OwedAdd
    <3>2. refs'[l] = refs[l]
      BY <1>0, <2>0, <2>4
    <3> QED BY <1>1, <2>1, <2>2, <3>1, <3>2 DEF Balance
  <2> QED BY <2>3, <2>4
<1> QED BY <1>0, <1>1, <1>3, <1>4, <1>5, <1>6 DEF Alive

LEMMA ReleaseLedger ==
  ASSUME LayerInv, Ledger, NEW t \in Threads, PopRelease(t), call[t].layer # Wild
  PROVE  Ledger'
<1> SUFFICES ASSUME ~scrambled'
             PROVE  /\ Distinct' /\ Owners' /\ Balance'
                    /\ (pass # NoPass /\ Alive /\ ~pass.gone => pass.layer \in InStack)'
  BY DEF Ledger
<1> DEFINE m == call[t].layer
<1>0. /\ call[t].op = "release" /\ SetCall(t, NoCall)
      /\ refs' = [refs EXCEPT ![m] = @ - 1]
      /\ UNCHANGED <<stack, pass, dead, scrambled>>
  BY DEF PopRelease
<1>1. /\ Distinct /\ Owners /\ Balance
      /\ pass # NoPass /\ Alive /\ ~pass.gone => pass.layer \in InStack
  BY <1>0 DEF Ledger
<1>2. call'[t] = NoCall /\ \A u \in Threads \ {t} : call'[u] = call[u]
  BY <1>0, SetCallFacts, NoCallFacts DEF LayerInv
<1>3. InStack' = InStack /\ Count' = Count
  BY <1>0 DEF InStack, Count
<1>4. Distinct'
  BY <1>0, <1>1, <1>3 DEF Distinct
<1>5. Owners'
  BY <1>1, <1>2, <1>3, NoCallFacts DEF Owners, Adding
<1>6. Balance'
  <2> SUFFICES ASSUME NEW l \in Layers
               PROVE  refs'[l] = Stored(l)' - OwedAdd(l)' + OwedRelease(l)'
    BY DEF Balance
  <2>0. refs \in [Layers -> Int] /\ m \in Layers
    BY <1>0, CallTyped DEF LayerInv, LayerTypeOK, Elem
  <2>1. Stored(l)' = Stored(l)
    BY <1>3 DEF Stored
  <2>2. OwedAdd(l)' = OwedAdd(l)
    BY <1>0, <1>2, NoCallFacts DEF OwedAdd
  <2>3. CASE l = m
    <3>1. OwedRelease(l) = 1
      BY <1>0, <2>3 DEF OwedRelease
    <3>2. OwedRelease(l)' = 0
      BY <1>0, <1>1, <1>2, <2>3, NoCallFacts DEF OwedRelease, Owners
    <3>3. refs'[l] = refs[l] - 1
      BY <1>0, <2>0, <2>3
    <3> QED BY <1>1, <2>1, <2>2, <3>1, <3>2, <3>3, Counts DEF Balance
  <2>4. CASE l # m
    <3>1. OwedRelease(l)' = OwedRelease(l)
      BY <1>0, <1>2, <2>4, NoCallFacts DEF OwedRelease
    <3>2. refs'[l] = refs[l]
      BY <1>0, <2>0, <2>4
    <3> QED BY <1>1, <2>1, <2>2, <3>1, <3>2 DEF Balance
  <2> QED BY <2>3, <2>4
<1> QED BY <1>0, <1>1, <1>3, <1>4, <1>5, <1>6 DEF Alive

LEMMA DieLedger ==
  ASSUME Ledger, dead' # "no", UNCHANGED <<stack, refs, call, scrambled>>
  PROVE  Ledger'
<1>1. InStack' = InStack /\ Count' = Count
  BY DEF InStack, Count
<1>2. (\A l : Stored(l)' = Stored(l) /\ OwedAdd(l)' = OwedAdd(l)
                /\ OwedRelease(l)' = OwedRelease(l))
  BY <1>1 DEF Stored, OwedAdd, OwedRelease
<1>3. ~scrambled' => Distinct' /\ Owners' /\ Balance'
  BY <1>1, <1>2 DEF Ledger, Distinct, Owners, Balance
<1> QED BY <1>3 DEF Ledger, Alive

LEMMA InsertLedger ==
  ASSUME LayerInv, Ledger, NEW t \in Threads, PushInsert(t),
         ~(InsertIndex(call[t].where) > Count), Vec!Fits(stack, 1)
  PROVE  Ledger'
<1> DEFINE i == InsertIndex(call[t].where)
           m == call[t].layer
<1>0. /\ stack' = Vec!NkVectorInsert(stack, m, i)
      /\ scrambled' = (scrambled \/ i < Count)
      /\ call' = [call EXCEPT ![t].op = "addref"]
      /\ UNCHANGED <<refs, pass, dead>> /\ call[t].op = "push"
  BY DEF PushInsert
<1> SUFFICES ASSUME ~scrambled'
             PROVE  /\ Distinct' /\ Owners' /\ Balance'
                    /\ (pass # NoPass /\ Alive /\ ~pass.gone => pass.layer \in InStack)'
  BY DEF Ledger
<1>n. ~scrambled /\ ~(i < Count)
  BY <1>0
<1> HIDE DEF i
<1>1. /\ Distinct /\ Owners /\ Balance
      /\ pass # NoPass /\ Alive /\ ~pass.gone => pass.layer \in InStack
  BY <1>n DEF Ledger
<1>2. /\ i \in 0 .. Count /\ Count' = Count + 1 /\ stack' \in VecType
      /\ i = Count => /\ \A k \in 1 .. Count : stack'.elems[k] = stack.elems[k]
                      /\ stack'.elems[Count + 1] = m
  BY <1>0, InsertEffect DEF i
<1>3. /\ call'[t].op = "addref" /\ call'[t].layer = m
      /\ \A u \in Threads \ {t} : call'[u] = call[u]
  BY <1>0, InsertEffect DEF i
<1>4. Count \in Nat /\ \A l : l \in InStack <=> \E k \in 1 .. Count : stack.elems[k] = l
  BY StackFacts DEF LayerInv, InStack
<1>5. /\ \A k \in 1 .. Count : stack'.elems[k] = stack.elems[k]
      /\ stack'.elems[Count + 1] = m
  BY <1>n, <1>2, <1>4
<1>6. \A l : l \in InStack' <=> \E k \in 1 .. (Count + 1) : stack'.elems[k] = l
  <2>1. Len(stack'.elems) = Count + 1
    BY <1>2 DEF Count, Vec!NkVectorGetElementCount
  <2> QED BY <2>1 DEF InStack, Vec!Elements
<1>7. m \notin InStack /\ InStack' = InStack \cup {m}
  <2>1. m \notin InStack
    BY <1>0, <1>1 DEF Owners
  <2>2. \A l : l \in InStack' <=> l \in InStack \/ l = m
    BY <1>4, <1>5, <1>6
  <2> QED BY <2>1, <2>2
<1>8. Distinct'
  <2> SUFFICES ASSUME NEW j \in 1 .. (Count + 1), NEW k \in 1 .. (Count + 1),
                      stack'.elems[j] = stack'.elems[k]
               PROVE  j = k
    BY <1>2 DEF Distinct
  <2>1. \A h \in 1 .. Count : stack.elems[h] # m
    BY <1>4, <1>7
  <2> QED BY <1>1, <1>4, <1>5, <2>1 DEF Distinct
<1>9. Owners'
  BY <1>0, <1>1, <1>3, <1>7 DEF Owners, Adding
<1>10. Balance'
  <2> SUFFICES ASSUME NEW l \in Layers
               PROVE  refs'[l] = Stored(l)' - OwedAdd(l)' + OwedRelease(l)'
    BY DEF Balance
  <2>1. OwedRelease(l)' = OwedRelease(l)
    BY <1>0, <1>3 DEF OwedRelease
  <2>2. CASE l = m
    <3>1. Stored(l) = 0 /\ Stored(l)' = 1
      BY <1>7, <2>2 DEF Stored
    <3>2. OwedAdd(l) = 0
      BY <1>0, <1>1, <2>2 DEF OwedAdd, Owners, Adding
    <3>3. OwedAdd(l)' = 1
      BY <1>3, <2>2 DEF OwedAdd
    <3> QED BY <1>0, <1>1, <2>1, <3>1, <3>2, <3>3, Counts DEF Balance
  <2>3. CASE l # m
    <3>1. Stored(l)' = Stored(l)
      BY <1>7, <2>3 DEF Stored
    <3>2. OwedAdd(l)' = OwedAdd(l)
      BY <1>0, <1>3, <2>3 DEF OwedAdd
    <3> QED BY <1>0, <1>1, <2>1, <3>1, <3>2 DEF Balance
  <2> QED BY <2>2, <2>3
<1> QED BY <1>0, <1>1, <1>7, <1>8, <1>9, <1>10 DEF Alive

LEMMA EraseLedger ==
  ASSUME LayerInv, Ledger, NEW t \in Threads, PopErase(t), Vec!InRange(stack, call[t].where)
  PROVE  Ledger'
<1> DEFINE i == call[t].where
           got == stack.elems[i + 1]
<1>0. UNCHANGED <<refs, dead, scrambled>> /\ call[t].op = "pop"
  BY DEF PopErase
<1> SUFFICES ASSUME ~scrambled'
             PROVE  /\ Distinct' /\ Owners' /\ Balance'
                    /\ (pass # NoPass /\ Alive /\ ~pass.gone => pass.layer \in InStack)'
  BY DEF Ledger
<1>1. /\ Distinct /\ Owners /\ Balance
      /\ pass # NoPass /\ Alive /\ ~pass.gone => pass.layer \in InStack
  BY <1>0 DEF Ledger
<1>2. /\ i \in Nat /\ i < Count /\ Count' = Count - 1
      /\ \A k \in 1 .. (Count - 1) :
           stack'.elems[k] = IF k <= i THEN stack.elems[k] ELSE stack.elems[k + 1]
  BY EraseEffect
<1>3. /\ call'[t].op = "release" /\ call'[t].layer = got
      /\ \A u \in Threads \ {t} : call'[u].op = call[u].op /\ call'[u].layer = call[u].layer
  BY EraseEffect
<1>4. Count \in Nat /\ \A l : l \in InStack <=> \E k \in 1 .. Count : stack.elems[k] = l
  BY StackFacts DEF LayerInv, InStack
<1>p. /\ pass = NoPass => pass' = NoPass
      /\ pass # NoPass => /\ pass'.layer = pass.layer
                          /\ pass'.gone <=> (pass.gone \/ got = pass.layer)
  BY ErasePass
<1>5. \A l : l \in InStack' <=> \E k \in 1 .. (Count - 1) : stack'.elems[k] = l
  <2>1. Len(stack'.elems) = Count - 1
    BY <1>2 DEF Count, Vec!NkVectorGetElementCount
  <2> QED BY <2>1 DEF InStack, Vec!Elements
<1>i. i + 1 \in 1 .. Count /\ got \in InStack
  BY <1>2, <1>4
<1> HIDE DEF i
<1>d. \A k \in 1 .. Count : stack.elems[k] = got => k = i + 1
  BY <1>1, <1>i DEF Distinct
<1> HIDE DEF got
<1>6. \A l : l \in InStack' <=> l \in InStack /\ l # got
  <2> TAKE l
  <2>1. ASSUME l \in InStack' PROVE l \in InStack /\ l # got
    <3>1. PICK k \in 1 .. (Count - 1) : stack'.elems[k] = l
      BY <1>5, <2>1
    <3>2. CASE k <= i
      <4>1. k \in 1 .. Count /\ stack.elems[k] = l /\ k # i + 1
        BY <1>2, <1>4, <3>1, <3>2
      <4> QED BY <1>4, <1>d, <4>1
    <3>3. CASE ~(k <= i)
      <4>1. k + 1 \in 1 .. Count /\ stack.elems[k + 1] = l /\ k + 1 # i + 1
        BY <1>2, <1>4, <3>1, <3>3
      <4> QED BY <1>4, <1>d, <4>1
    <3> QED BY <3>2, <3>3
  <2>2. ASSUME l \in InStack, l # got PROVE l \in InStack'
    <3>1. PICK k \in 1 .. Count : stack.elems[k] = l
      BY <1>4, <2>2
    <3>2. k # i + 1
      BY <2>2, <3>1 DEF got
    <3>3. CASE k <= i
      <4>1. k \in 1 .. (Count - 1) /\ stack'.elems[k] = l
        BY <1>2, <1>4, <3>1, <3>3
      <4> QED BY <1>5, <4>1
    <3>4. CASE ~(k <= i)
      <4>1. k - 1 \in 1 .. (Count - 1) /\ ~(k - 1 <= i) /\ (k - 1) + 1 = k
        BY <1>2, <1>4, <3>1, <3>2, <3>4
      <4>2. stack'.elems[k - 1] = l
        BY <1>2, <3>1, <4>1
      <4> QED BY <1>5, <4>1, <4>2
    <3> QED BY <3>3, <3>4
  <2> QED BY <2>1, <2>2
<1>7. Distinct'
  <2> SUFFICES ASSUME NEW j \in 1 .. (Count - 1), NEW k \in 1 .. (Count - 1),
                      stack'.elems[j] = stack'.elems[k]
               PROVE  j = k
    BY <1>2 DEF Distinct
  <2> DEFINE at(h) == IF h <= i THEN h ELSE h + 1
  <2>1. /\ at(j) \in 1 .. Count /\ at(k) \in 1 .. Count
        /\ stack'.elems[j] = stack.elems[at(j)] /\ stack'.elems[k] = stack.elems[at(k)]
    BY <1>2, <1>4
  <2>2. at(j) = at(k)
    BY <1>1, <2>1 DEF Distinct
  <2> QED BY <1>2, <2>2
<1>8. Owners'
  <2>1. \A u \in Threads : call[u].op = "release" => call[u].layer # got
    BY <1>1, <1>i DEF Owners
  <2>2. \A u \in Threads : call[u].op = "push" => call[u].layer # got
    BY <1>1, <1>i DEF Owners
  <2>3. \A u, v \in Threads :
          call'[u].op \in Adding /\ call'[v].op \in Adding /\ call'[u].layer = call'[v].layer
            => u = v
    BY <1>1, <1>3 DEF Owners, Adding
  <2>4. \A u, v \in Threads :
          call'[u].op = "release" /\ call'[v].op = "release" /\ call'[u].layer = call'[v].layer
            => u = v
    BY <1>1, <1>3, <2>1 DEF Owners
  <2>5. \A u, v \in Threads :
          call'[u].op = "push" /\ call'[v].op = "release" => call'[u].layer # call'[v].layer
    BY <1>1, <1>3, <2>2 DEF Owners
  <2>6. \A u \in Threads : call'[u].op \in {"push", "release"} => call'[u].layer \notin InStack'
    BY <1>1, <1>3, <1>6 DEF Owners
  <2> QED BY <2>3, <2>4, <2>5, <2>6 DEF Owners
<1>9. Balance'
  <2> SUFFICES ASSUME NEW l \in Layers
               PROVE  refs'[l] = Stored(l)' - OwedAdd(l)' + OwedRelease(l)'
    BY DEF Balance
  <2>1. OwedAdd(l)' = OwedAdd(l)
    BY <1>0, <1>3 DEF OwedAdd
  <2>2. CASE l = got
    <3>1. Stored(l) = 1 /\ Stored(l)' = 0
      BY <1>6, <1>i, <2>2 DEF Stored
    <3>2. OwedRelease(l) = 0
      BY <1>1, <1>i, <2>2 DEF OwedRelease, Owners
    <3>3. OwedRelease(l)' = 1
      BY <1>3, <2>2 DEF OwedRelease
    <3> QED BY <1>0, <1>1, <2>1, <3>1, <3>2, <3>3, Counts DEF Balance
  <2>3. CASE l # got
    <3>1. Stored(l)' = Stored(l)
      BY <1>6, <2>3 DEF Stored
    <3>2. OwedRelease(l)' = OwedRelease(l)
      BY <1>0, <1>3, <2>3 DEF OwedRelease
    <3> QED BY <1>0, <1>1, <2>1, <3>1, <3>2 DEF Balance
  <2> QED BY <2>2, <2>3
<1>10. (pass # NoPass /\ Alive /\ ~pass.gone => pass.layer \in InStack)'
  BY <1>0, <1>1, <1>6, <1>p DEF Alive
<1> QED BY <1>7, <1>8, <1>9, <1>10

LEMMA VisitLedger ==
  ASSUME LayerInv, Ledger, Alive, NEW p, NEW i, VisitKeepsHyp(p, i), Visit(p, i),
         UNCHANGED <<stack, refs, call, scrambled>>
  PROVE  Ledger'
<1>0. p \in PassType /\ LayerTypeOK /\ i \in Int
  BY DEF VisitKeepsHyp, LayerInv
<1>1. \/ pass' = NoPass /\ dead' = dead
      \/ dead' \in {"at", "wild"}
      \/ dead' = dead /\ Visited(p, i)
  BY <1>0, VisitEffect DEF VisitKeepsHyp
<1>2. CASE dead' \in {"at", "wild"}
  BY <1>2, DieLedger
<1>3. CASE dead' = dead /\ (pass' = NoPass \/ Visited(p, i))
  <2>1. InStack' = InStack /\ Count' = Count
    BY DEF InStack, Count
  <2>2. \A l : Stored(l)' = Stored(l) /\ OwedAdd(l)' = OwedAdd(l)
                 /\ OwedRelease(l)' = OwedRelease(l)
    BY <2>1 DEF Stored, OwedAdd, OwedRelease
  <2>3. ~scrambled' => Distinct' /\ Owners' /\ Balance'
    BY <2>1, <2>2 DEF Ledger, Distinct, Owners, Balance
  <2>4. Visited(p, i) => pass'.layer \in InStack
    <3> SUFFICES ASSUME Visited(p, i) PROVE pass'.layer \in InStack
      OBVIOUS
    <3>1. i \in Nat /\ i < Count /\ pass'.layer = stack.elems[i + 1]
      BY DEF Visited
    <3>2. i + 1 \in 1 .. Count
      BY <1>0, <3>1, StackFacts
    <3> QED BY <1>0, <3>1, <3>2, StackFacts DEF InStack
  <2> QED BY <1>3, <2>1, <2>3, <2>4 DEF Ledger
<1> QED BY <1>1, <1>2, <1>3

LEMMA LedgerSame ==
  ASSUME LayerInv, Ledger, UNCHANGED <<stack, refs, call, dead, scrambled>>,
         pass' = pass \/ pass' = NoPass
  PROVE  Ledger'
<1>1. InStack' = InStack /\ Count' = Count
  BY DEF InStack, Count
<1>2. \A l : Stored(l)' = Stored(l) /\ OwedAdd(l)' = OwedAdd(l)
               /\ OwedRelease(l)' = OwedRelease(l)
  BY <1>1 DEF Stored, OwedAdd, OwedRelease
<1>3. ~scrambled' => Distinct' /\ Owners' /\ Balance'
  BY <1>1, <1>2 DEF Ledger, Distinct, Owners, Balance
<1> QED BY <1>1, <1>3 DEF Ledger, Alive

LEMMA DyingLedger ==
  ASSUME LayerInv, Ledger, Alive, NEW t \in Threads, NEW c \in CallType, NEW why,
         Die(t, c, why), call[t].op \notin {"addref", "release"} \/ scrambled
  PROVE  Ledger'
<1>1. CASE scrambled
  BY <1>1 DEF Ledger, Die
<1>2. CASE ~scrambled
  <2> DEFINE d == [c EXCEPT !.op = "died"]
  <2>1. d \in CallType /\ d.op = "died"
    BY DiedFacts
  <2>2. SetCall(t, d) /\ UNCHANGED <<stack, refs, pass, scrambled>>
    BY DEF Die
  <2> HIDE DEF d
  <2> QED BY <1>2, <2>1, <2>2, CallLedger
<1> QED BY <1>1, <1>2

LEMMA LedgerStep ==
  ASSUME LayerInv, Ledger, LayerStep
  PROVE  Ledger'
<1>1. ASSUME NEW t \in Threads, NEW l \in Layers, NEW where \in 0 .. NK_AS_NORMAL,
             Fresh(l), PushBegin(t, l, where)
      PROVE  Ledger'
  <2>1. CASE ~\A k \in Neighbours(where) : Vec!InRange(stack, k)
    <3> DEFINE c == Call("push", l, where)
    <3>1. c \in CallType
      BY DEF Call, CallType
    <3>2. Alive /\ Die(t, c, "neighbour") /\ call[t].op = "none"
      BY <1>1, <2>1, NoCallFacts DEF PushBegin
    <3> HIDE DEF c
    <3> QED BY <3>1, <3>2, DyingLedger
  <2>2. CASE \A k \in Neighbours(where) : Vec!InRange(stack, k)
    <3> DEFINE c == Call("push", l, where)
    <3>1. c \in CallType /\ c.op = "push" /\ c.layer = l
      BY DEF Call, CallType
    <3>2. /\ SetCall(t, c) /\ UNCHANGED <<stack, refs, pass, dead, scrambled>>
          /\ call[t].op = "none"
      BY <1>1, <2>2, NoCallFacts DEF PushBegin
    <3> HIDE DEF c
    <3> QED BY <1>1, <3>1, <3>2, CallLedger DEF Alive
  <2> QED BY <2>1, <2>2
<1>2. ASSUME NEW t \in Threads, NEW l \in Layers, PopQuery(t, l)
      PROVE  Ledger'
  <2> DEFINE w == QueryIndex(l)
             c == Call("pop", l, w)
  <2>1. w \in 0 .. NK_AS_NORMAL
    <3>1. w \in 0 .. (Count - 1)
      BY <1>2, QueryIndexFacts DEF PopQuery, LayerInv
    <3> QED BY <3>1, Sizes, StackFacts DEF LayerInv
  <2>2. /\ SetCall(t, c) /\ UNCHANGED <<stack, refs, pass, dead, scrambled>>
        /\ call[t].op = "none"
    BY <1>2, NoCallFacts DEF PopQuery
  <2> HIDE DEF w
  <2>3. c \in CallType /\ c.op = "pop"
    <3>1. "pop" \in CallOps /\ l \in Elem
      BY DEF CallOps, Elem
    <3> QED BY <2>1, <3>1, CallFacts
  <2> HIDE DEF c
  <2> QED BY <2>2, <2>3, CallLedger DEF Alive
<1>3. ASSUME NEW t \in Threads, PushRefused(t) PROVE Ledger'
  BY <1>3, NoCallFacts, CallLedger DEF PushRefused
<1>4. ASSUME NEW t \in Threads, PushInsert(t) PROVE Ledger'
  <2>1. CASE InsertIndex(call[t].where) > Count
    <3>1. Alive /\ Die(t, call[t], "insert") /\ call[t].op = "push" /\ call[t] \in CallType
      BY <1>4, <2>1, CallTyped DEF PushInsert, LayerInv
    <3> QED BY <3>1, DyingLedger
  <2>2. CASE ~(InsertIndex(call[t].where) > Count) /\ ~Vec!Fits(stack, 1)
    BY <1>4, <2>2, NoCallFacts, CallLedger DEF PushInsert
  <2>3. CASE ~(InsertIndex(call[t].where) > Count) /\ Vec!Fits(stack, 1)
    BY <1>4, <2>3, InsertLedger
  <2> QED BY <2>1, <2>2, <2>3
<1>5. ASSUME NEW t \in Threads, PushAddRef(t) PROVE Ledger'
  BY <1>5, AddRefLedger
<1>6. ASSUME NEW t \in Threads, PopErase(t) PROVE Ledger'
  <2>1. CASE ~Vec!InRange(stack, call[t].where)
    <3>1. Alive /\ Die(t, call[t], "erase") /\ call[t].op = "pop" /\ call[t] \in CallType
      BY <1>6, <2>1, CallTyped DEF PopErase, LayerInv
    <3> QED BY <3>1, DyingLedger
  <2>2. CASE Vec!InRange(stack, call[t].where)
    BY <1>6, <2>2, EraseLedger
  <2> QED BY <2>1, <2>2
<1>7. ASSUME NEW t \in Threads, PopRelease(t) PROVE Ledger'
  <2>1. CASE call[t].layer = Wild
    <3>1. Alive /\ Die(t, call[t], "wild") /\ call[t] \in CallType /\ scrambled
      BY <1>7, <2>1, CallTyped DEF PopRelease, LayerInv, CallIndex
    <3> QED BY <3>1, DyingLedger
  <2>2. CASE call[t].layer # Wild
    BY <1>7, <2>2, ReleaseLedger
  <2> QED BY <2>1, <2>2
<1>8. ASSUME NEW kind \in {"event", "update", "render"}, PassBegin(kind) PROVE Ledger'
  BY <1>8, PassStepVisits, VisitLedger
<1>9. ASSUME PassNext PROVE Ledger'
  BY <1>9, PassStepVisits, VisitLedger
<1>10. ASSUME EventHandled PROVE Ledger'
  BY <1>10, LedgerSame DEF EventHandled
<1> QED
  BY <1>1, <1>2, <1>3, <1>4, <1>5, <1>6, <1>7, <1>8, <1>9, <1>10 DEF LayerStep

LEMMA LedgerInit == Init => Ledger
<1> SUFFICES ASSUME Init PROVE Ledger
  OBVIOUS
<1>1. /\ LayerInv /\ stack.elems = <<>> /\ refs = [l \in Layers |-> 0]
      /\ call = [t \in Threads |-> NoCall] /\ pass = NoPass
  BY LayerInitInv DEF Init, LayerInit, Vec!NkVectorCreate
<1>2. Count = 0 /\ InStack = {}
  <2>1. Count = 0
    BY <1>1 DEF Count, Vec!NkVectorGetElementCount
  <2> QED BY <1>1, <2>1, StackFacts DEF LayerInv, InStack
<1>3. Distinct /\ Owners
  BY <1>1, <1>2, NoCallFacts DEF Distinct, Owners, Adding
<1>4. Balance
  <2>1. \A l : Stored(l) = 0 /\ OwedAdd(l) = 0 /\ OwedRelease(l) = 0
    BY <1>1, <1>2, NoCallFacts DEF Stored, OwedAdd, OwedRelease
  <2> SUFFICES ASSUME NEW l \in Layers
               PROVE  refs[l] = Stored(l) - OwedAdd(l) + OwedRelease(l)
    BY DEF Balance
  <2>2. refs[l] = 0
    BY <1>1
  <2> QED BY <2>1, <2>2
<1> QED BY <1>1, <1>3, <1>4 DEF Ledger

LEMMA LedgerNext == LayerInv /\ StartInv /\ Ledger /\ [Next]_vars => Ledger'
<1> SUFFICES ASSUME LayerInv, StartInv, Ledger, [Next]_vars PROVE Ledger'
  OBVIOUS
<1>1. CASE UNCHANGED layerVars
  BY <1>1, LedgerSame DEF layerVars
<1> QED BY <1>1, NextIsLayerStep, LedgerStep

LEMMA LedgerSafe == Spec => []Ledger
BY LedgerInit, LedgerNext, LayerSafe, PTL DEF Spec

(* The layer a traversal is calling, without the lock, is referenced by    *)
(* the stack or held by the thread that pushes it, unless it was popped    *)
(* during this very call.                                                  *)
THEOREM LoopCalledIsHeld == Spec => []CalledIsHeld
<1>1. LayerInv /\ Ledger => CalledIsHeld
  <2> SUFFICES ASSUME LayerInv, Ledger, pass # NoPass, Alive, ~scrambled, ~pass.gone,
                      ~\E t \in Threads : call[t].op = "addref" /\ call[t].layer = pass.layer
               PROVE  refs[pass.layer] > 0
    BY DEF CalledIsHeld
  <2> DEFINE l == pass.layer
  <2>1. l \in InStack /\ Balance
    BY DEF Ledger
  <2>2. l \in Layers
    <3>1. l \in Elem /\ Wild \notin InStack
      BY PassTyped DEF LayerInv, LayerTypeOK, InStack
    <3> QED BY <2>1, <3>1 DEF Elem
  <2>3. Stored(l) = 1 /\ OwedAdd(l) = 0
    BY <2>1 DEF Stored, OwedAdd
  <2> HIDE DEF l
  <2>4. refs[l] = Stored(l) - OwedAdd(l) + OwedRelease(l)
    BY <2>1, <2>2 DEF Balance
  <2>5. refs[l] > 0
    BY <2>3, <2>4, Counts
  <2> QED BY <2>5 DEF l
<1> QED BY <1>1, LayerSafe, LedgerSafe, PTL

(***************************************************************************)
(* A traversal.  While layers are only inserted at the end, the calls a    *)
(* layer has had follow from its position and the current index: events    *)
(* and updates have called those up to the index, rendering those from it  *)
(* on.  A pop at or before the index moves a layer across it.              *)
(***************************************************************************)
Tracked(p, k, c) ==
  IF p.kind = "render"
  THEN /\ k > p.i => c >= 1
       /\ ~p.shifted => c = IF k > p.i THEN 1 ELSE 0
  ELSE /\ k <= p.n /\ c <= 1
       /\ k > p.i + 1 => c = 0
       /\ ~p.shifted /\ k <= p.i + 1 => c = 1

TrackedStack ==
  \A k \in 1 .. Count :
    stack.elems[k] \in pass.stayed => Tracked(pass, k, pass.calls[stack.elems[k]])

Track ==
  ~scrambled /\ Alive /\ pass # NoPass => pass.stayed \subseteq InStack /\ TrackedStack

LEMMA TrackSame ==
  ASSUME Track, UNCHANGED <<stack, pass, scrambled>>, Alive' => Alive
  PROVE  Track'
<1>1. InStack' = InStack /\ Count' = Count
  BY DEF InStack, Count
<1>2. TrackedStack' <=> TrackedStack
  BY <1>1 DEF TrackedStack, Tracked
<1> QED BY <1>1, <1>2 DEF Track

LEMMA InsertTrack ==
  ASSUME LayerInv, Ledger, Track, NEW t \in Threads, PushInsert(t),
         ~(InsertIndex(call[t].where) > Count), Vec!Fits(stack, 1)
  PROVE  Track'
<1> DEFINE i == InsertIndex(call[t].where)
           m == call[t].layer
<1>0. /\ stack' = Vec!NkVectorInsert(stack, m, i)
      /\ scrambled' = (scrambled \/ i < Count)
      /\ call' = [call EXCEPT ![t].op = "addref"]
      /\ UNCHANGED <<refs, pass, dead>> /\ call[t].op = "push" /\ Alive
  BY DEF PushInsert
<1> SUFFICES ASSUME ~scrambled', pass # NoPass
             PROVE  pass.stayed \subseteq InStack' /\ TrackedStack'
  BY <1>0 DEF Track
<1>n. ~scrambled /\ ~(i < Count)
  BY <1>0
<1> HIDE DEF i
<1>1. pass.stayed \subseteq InStack /\ TrackedStack /\ m \notin InStack
  BY <1>0, <1>n DEF Track, Ledger, Owners
<1>2. /\ i \in 0 .. Count /\ Count' = Count + 1
      /\ i = Count => /\ \A k \in 1 .. Count : stack'.elems[k] = stack.elems[k]
                      /\ stack'.elems[Count + 1] = m
  BY <1>0, InsertEffect DEF i
<1>4. Count \in Nat /\ \A l : l \in InStack <=> \E k \in 1 .. Count : stack.elems[k] = l
  BY StackFacts DEF LayerInv, InStack
<1>5. /\ \A k \in 1 .. Count : stack'.elems[k] = stack.elems[k]
      /\ stack'.elems[Count + 1] = m
  BY <1>n, <1>2, <1>4
<1>6. \A l : l \in InStack' <=> \E k \in 1 .. (Count + 1) : stack'.elems[k] = l
  <2>1. Len(stack'.elems) = Count + 1
    BY <1>2 DEF Count, Vec!NkVectorGetElementCount
  <2> QED BY <2>1 DEF InStack, Vec!Elements
<1>7. InStack \subseteq InStack'
  BY <1>4, <1>5, <1>6
<1>8. TrackedStack'
  <2> SUFFICES ASSUME NEW k \in 1 .. (Count + 1), stack'.elems[k] \in pass.stayed
               PROVE  Tracked(pass, k, pass.calls[stack'.elems[k]])
    BY <1>0, <1>2 DEF TrackedStack, Tracked
  <2>1. k \in 1 .. Count
    BY <1>1, <1>4, <1>5
  <2> QED BY <1>1, <1>5, <2>1 DEF TrackedStack
<1> QED BY <1>1, <1>7, <1>8

(* A layer above the removed one moves down by one.                        *)
LEMMA TrackedMoves ==
  ASSUME NEW p \in PassType, NEW q \in PassType, NEW e \in Nat, NEW k \in Nat, NEW c \in Nat,
         q.kind = p.kind, q.i = p.i, q.n = p.n, q.shifted <=> (p.shifted \/ e <= p.i),
         Tracked(p, IF k <= e THEN k ELSE k + 1, c)
  PROVE  Tracked(q, k, c)
<1>1. p.i \in Nat /\ p.n \in Nat /\ p.shifted \in BOOLEAN /\ q.shifted \in BOOLEAN
  BY PassTyped
<1>2. CASE p.shifted
  <2>1. q.shifted
    BY <1>2
  <2> QED BY <1>1, <1>2, <2>1 DEF Tracked
<1>3. CASE ~p.shifted /\ e <= p.i
  <2>1. q.shifted
    BY <1>3
  <2> QED BY <1>1, <1>3, <2>1 DEF Tracked
<1>4. CASE ~p.shifted /\ ~(e <= p.i)
  <2>1. ~q.shifted
    BY <1>4
  <2> QED BY <1>1, <1>4, <2>1 DEF Tracked
<1> QED BY <1>2, <1>3, <1>4

LEMMA EraseTrack ==
  ASSUME LayerInv, Ledger, Track, NEW t \in Threads, PopErase(t),
         Vec!InRange(stack, call[t].where)
  PROVE  Track'
<1> DEFINE e == call[t].where
           got == stack.elems[e + 1]
<1>0. UNCHANGED <<refs, dead, scrambled>> /\ Alive
  BY DEF PopErase
<1>p. /\ pass \in PassType /\ pass' \in PassType
      /\ pass = NoPass => pass' = NoPass
      /\ pass # NoPass =>
           /\ pass'.kind = pass.kind /\ pass'.i = pass.i /\ pass'.n = pass.n
           /\ pass'.calls = pass.calls /\ pass'.stayed = pass.stayed \ {got}
           /\ pass'.shifted <=> (pass.shifted \/ e <= pass.i)
  BY ErasePass DEF LayerInv, LayerTypeOK
<1> SUFFICES ASSUME ~scrambled, pass # NoPass
             PROVE  pass'.stayed \subseteq InStack' /\ TrackedStack'
  BY <1>0, <1>p DEF Track
<1>1. pass.stayed \subseteq InStack /\ TrackedStack
  BY <1>0 DEF Track
<1>2. /\ e \in Nat /\ e < Count /\ Count' = Count - 1
      /\ \A k \in 1 .. (Count - 1) :
           stack'.elems[k] = IF k <= e THEN stack.elems[k] ELSE stack.elems[k + 1]
  BY EraseEffect
<1>4. Count \in Nat /\ \A l : l \in InStack <=> \E k \in 1 .. Count : stack.elems[k] = l
  BY StackFacts DEF LayerInv, InStack
<1>5. \A l : l \in InStack' <=> \E k \in 1 .. (Count - 1) : stack'.elems[k] = l
  <2>1. Len(stack'.elems) = Count - 1
    BY <1>2 DEF Count, Vec!NkVectorGetElementCount
  <2> QED BY <2>1 DEF InStack, Vec!Elements
<1> HIDE DEF e
<1>6. ASSUME NEW l \in InStack, l # got PROVE l \in InStack'
  <2>1. PICK k \in 1 .. Count : stack.elems[k] = l
    BY <1>4
  <2>2. k # e + 1
    BY <1>6, <2>1
  <2>3. CASE k <= e
    <3>1. k \in 1 .. (Count - 1) /\ stack'.elems[k] = l
      BY <1>2, <1>4, <2>1, <2>3
    <3> QED BY <1>5, <3>1
  <2>4. CASE ~(k <= e)
    <3>1. k - 1 \in 1 .. (Count - 1) /\ ~(k - 1 <= e) /\ (k - 1) + 1 = k
      BY <1>2, <1>4, <2>1, <2>2, <2>4
    <3>2. stack'.elems[k - 1] = l
      BY <1>2, <2>1, <3>1
    <3> QED BY <1>5, <3>1, <3>2
  <2> QED BY <2>3, <2>4
<1> HIDE DEF got
<1>7. TrackedStack'
  <2> SUFFICES ASSUME NEW k \in 1 .. (Count - 1), stack'.elems[k] \in pass'.stayed
               PROVE  Tracked(pass', k, pass'.calls[stack'.elems[k]])
    BY <1>2 DEF TrackedStack, Tracked
  <2> DEFINE l == stack'.elems[k]
             j == IF k <= e THEN k ELSE k + 1
  <2>1. j \in 1 .. Count /\ stack.elems[j] = l /\ k \in Nat
    BY <1>2, <1>4
  <2>2. l \in pass.stayed /\ pass'.calls[l] = pass.calls[l]
    BY <1>p
  <2>3. Tracked(pass, j, pass.calls[l])
    BY <1>1, <2>1, <2>2 DEF TrackedStack
  <2>4. pass.calls[l] \in Nat
    BY <1>p, <2>2, PassTyped
  <2> DEFINE c == pass.calls[l]
             p == pass
             q == pass'
  <2> HIDE DEF l, c
  <2>5. Tracked(q, k, c)
    BY <1>2, <1>p, <2>1, <2>3, <2>4, TrackedMoves DEF c
  <2> QED BY <2>2, <2>5 DEF c, l
<1> QED BY <1>1, <1>6, <1>7, <1>p

(* The loop head: the next layer is called.                                *)
VisitTracks(p, i) ==
  \A k \in 1 .. Count :
    stack.elems[k] \in p.stayed =>
      LET c == p.calls[stack.elems[k]]
      IN  IF p.kind = "render"
          THEN /\ k > i + 1 => c >= 1
               /\ ~p.shifted => c = IF k > i + 1 THEN 1 ELSE 0
          ELSE /\ k <= p.n /\ c <= 1
               /\ k > i => c = 0
               /\ ~p.shifted /\ k <= i => c = 1

LEMMA VisitTrack ==
  ASSUME LayerInv, Ledger, Alive, NEW p, NEW i, VisitKeepsHyp(p, i), Visit(p, i),
         UNCHANGED <<stack, refs, call, scrambled>>,
         ~scrambled => p.stayed \subseteq InStack /\ VisitTracks(p, i)
  PROVE  Track'
<1>0. p \in PassType /\ LayerTypeOK /\ i \in Int
  BY DEF VisitKeepsHyp, LayerInv
<1>1. \/ pass' = NoPass
      \/ dead' \in {"at", "wild"}
      \/ dead' = dead /\ Visited(p, i)
  BY <1>0, VisitEffect DEF VisitKeepsHyp
<1> SUFFICES ASSUME ~scrambled, Visited(p, i)
             PROVE  pass'.stayed \subseteq InStack' /\ TrackedStack'
  BY <1>1 DEF Track, Alive
<1>2. Count \in Nat /\ Count' = Count /\ InStack' = InStack
  BY <1>0, StackFacts DEF Count, InStack
<1>3. /\ i \in Nat /\ i < Count /\ pass'.kind = p.kind /\ pass'.n = p.n /\ pass'.i = i
      /\ pass'.stayed = p.stayed /\ pass'.shifted = p.shifted
      /\ \A l \in Layers :
           pass'.calls[l] = IF l = stack.elems[i + 1] THEN p.calls[l] + 1 ELSE p.calls[l]
  BY DEF Visited
<1>4. p.stayed \subseteq Layers /\ p.calls \in [Layers -> Nat]
  BY <1>0, PassTyped
<1>5. TrackedStack'
  <2> SUFFICES ASSUME NEW k \in 1 .. Count, stack.elems[k] \in p.stayed
               PROVE  Tracked(pass', k, pass'.calls[stack.elems[k]])
    BY <1>2, <1>3 DEF TrackedStack, Tracked
  <2> DEFINE l == stack.elems[k]
             c == p.calls[l]
             d == pass'.calls[l]
  <2>1. l \in Layers /\ c \in Nat
    BY <1>4
  <2>2. l = stack.elems[i + 1] <=> k = i + 1
    BY <1>2, <1>3 DEF Ledger, Distinct
  <2>3. d = IF k = i + 1 THEN c + 1 ELSE c
    BY <1>3, <2>1, <2>2
  <2>4. IF p.kind = "render"
        THEN /\ k > i + 1 => c >= 1
             /\ ~p.shifted => c = IF k > i + 1 THEN 1 ELSE 0
        ELSE /\ k <= p.n /\ c <= 1
             /\ k > i => c = 0
             /\ ~p.shifted /\ k <= i => c = 1
    BY DEF VisitTracks
  <2> HIDE DEF c, d
  <2>5. Tracked(pass', k, d)
    <3>1. CASE p.kind = "render"
      BY <1>3, <2>1, <2>3, <2>4, <3>1 DEF Tracked
    <3>2. CASE p.kind # "render"
      BY <1>3, <2>1, <2>3, <2>4, <3>2 DEF Tracked
    <3> QED BY <3>1, <3>2
  <2> QED BY <2>5 DEF d
<1> QED BY <1>2, <1>3, <1>5

LEMMA TrackStep ==
  ASSUME LayerInv, Ledger, Track, LayerStep
  PROVE  Track'
<1>1. ASSUME UNCHANGED <<stack, pass, scrambled>>, Alive PROVE Track'
  BY <1>1, TrackSame
<1>2. ASSUME NEW t \in Threads,
             \/ \E l, where : PushBegin(t, l, where)
             \/ \E l : PopQuery(t, l)
             \/ PushRefused(t) \/ PushAddRef(t) \/ PopRelease(t)
      PROVE  Track'
  BY <1>1, <1>2 DEF PushBegin, PopQuery, PushRefused, PushAddRef, PopRelease, Die
<1>3. ASSUME NEW t \in Threads, PushInsert(t) PROVE Track'
  <2>1. CASE InsertIndex(call[t].where) > Count \/ ~Vec!Fits(stack, 1)
    BY <1>1, <1>3, <2>1 DEF PushInsert, Die
  <2> QED BY <1>3, <2>1, InsertTrack
<1>4. ASSUME NEW t \in Threads, PopErase(t) PROVE Track'
  <2>1. CASE ~Vec!InRange(stack, call[t].where)
    BY <1>1, <1>4, <2>1 DEF PopErase, Die
  <2> QED BY <1>4, <2>1, EraseTrack
<1>5. ASSUME NEW kind \in {"event", "update", "render"}, PassBegin(kind) PROVE Track'
  <2> DEFINE p == NewPass(kind)
             i == First(kind, Count)
  <2>1. /\ p.stayed = InStack \ {Wild} /\ p.calls = [l \in Layers |-> 0]
        /\ p.kind = kind /\ p.n = Count /\ p.shifted = FALSE /\ p \in PassType
    BY NewPassFacts DEF LayerInv, InStack
  <2>2. /\ VisitKeepsHyp(p, i) /\ Visit(p, i) /\ Alive
        /\ UNCHANGED <<stack, refs, call, scrambled>>
    BY <1>5, PassStepVisits
  <2> HIDE DEF p
  <2>3. VisitTracks(p, i)
    <3> SUFFICES ASSUME NEW k \in 1 .. Count, stack.elems[k] \in p.stayed
                 PROVE  LET c == p.calls[stack.elems[k]]
                        IN  IF p.kind = "render"
                            THEN /\ k > i + 1 => c >= 1
                                 /\ ~p.shifted => c = IF k > i + 1 THEN 1 ELSE 0
                            ELSE /\ k <= p.n /\ c <= 1
                                 /\ k > i => c = 0
                                 /\ ~p.shifted /\ k <= i => c = 1
      BY DEF VisitTracks
    <3>1. Count \in Nat
      BY StackFacts DEF LayerInv
    <3>2. p.calls[stack.elems[k]] = 0
      BY <2>1, PassTyped
    <3>3. /\ kind = "render" => ~(k > i + 1)
          /\ kind # "render" => ~(k <= i) /\ k <= Count
      BY <3>1 DEF First
    <3> QED BY <2>1, <3>2, <3>3
  <2> HIDE DEF i
  <2> QED BY <2>1, <2>2, <2>3, VisitTrack
<1>6. ASSUME PassNext PROVE Track'
  <2>1. /\ VisitKeepsHyp(pass, NextIndex) /\ Visit(pass, NextIndex) /\ Alive
        /\ pass # NoPass /\ UNCHANGED <<stack, refs, call, scrambled>>
    BY <1>6, PassStepVisits
  <2>2. ASSUME ~scrambled
        PROVE  pass.stayed \subseteq InStack /\ VisitTracks(pass, NextIndex)
    <3>1. pass.stayed \subseteq InStack /\ TrackedStack
      BY <2>1, <2>2 DEF Track
    <3>2. pass.i \in Nat
      BY PassTyped DEF LayerInv, LayerTypeOK
    <3>3. CASE pass.kind = "render"
      <4>1. NextIndex + 1 = pass.i
        BY <3>2, <3>3 DEF NextIndex
      <4> QED BY <3>1, <3>3, <4>1 DEF VisitTracks, TrackedStack, Tracked
    <3>4. CASE pass.kind # "render"
      <4>1. NextIndex = pass.i + 1
        BY <3>2, <3>4 DEF NextIndex
      <4> QED BY <3>1, <3>4, <4>1 DEF VisitTracks, TrackedStack, Tracked
    <3> QED BY <3>1, <3>3, <3>4
  <2> QED BY <2>1, <2>2, VisitTrack
<1>7. ASSUME EventHandled PROVE Track'
  BY <1>7 DEF EventHandled, Track
<1> QED BY <1>2, <1>3, <1>4, <1>5, <1>6, <1>7 DEF LayerStep

LEMMA TrackNext == LayerInv /\ StartInv /\ Ledger /\ Track /\ [Next]_vars => Track'
<1> SUFFICES ASSUME LayerInv, StartInv, Ledger, Track, [Next]_vars PROVE Track'
  OBVIOUS
<1>1. CASE UNCHANGED layerVars
  BY <1>1, TrackSame DEF layerVars, Alive
<1> QED BY <1>1, NextIsLayerStep, TrackStep

LEMMA TrackSafe == Spec => []Track
<1>1. Init => Track
  BY DEF Init, LayerInit, Track
<1> QED BY <1>1, TrackNext, LayerSafe, LedgerSafe, PTL DEF Spec

(* However pushes and pops interleave with it, a traversal that runs to    *)
(* its end calls a layer that stays in the stack once: events and updates  *)
(* never twice, rendering always, and anything else only if a layer at or  *)
(* before the current index is popped meanwhile.                           *)
THEOREM LoopPassExact == Spec => PassExact
<1>1. ASSUME LayerInv, Ledger, Track, PassNext, Returns, ~scrambled,
             NEW l \in pass.stayed
      PROVE  /\ pass.calls[l] = 1 \/ pass.shifted
             /\ IF pass.kind = "render" THEN pass.calls[l] >= 1 ELSE pass.calls[l] <= 1
  <2>1. /\ VisitKeepsHyp(pass, NextIndex) /\ Visit(pass, NextIndex) /\ Alive
        /\ pass # NoPass
    BY <1>1, PassStepVisits
  <2>2. /\ LayerTypeOK /\ pass \in PassType /\ pass.i \in Nat /\ pass.n \in Nat
        /\ pass.calls \in [Layers -> Nat] /\ pass.stayed \subseteq Layers
    BY <1>1, PassTyped DEF LayerInv, LayerTypeOK
  <2>3. Ends(pass.kind, NextIndex, pass.n)
    <3>1. pass' = NoPass /\ ~(pass' = pass) /\ pass.kind # "none"
      BY <1>1, <2>1 DEF Returns, VisitKeepsHyp
    <3>2. ~Visited(pass, NextIndex)
      BY <3>1, NoPassFacts DEF Visited
    <3>3. NextIndex \in Int
      BY <2>2 DEF NextIndex
    <3> QED BY <2>1, <2>2, <3>1, <3>2, <3>3, VisitEffect DEF VisitKeepsHyp
  <2>4. PICK k \in 1 .. Count : stack.elems[k] = l
    BY <1>1, <2>1, <2>2, StackFacts DEF Track, InStack
  <2>5. Tracked(pass, k, pass.calls[l])
    BY <1>1, <2>1, <2>4 DEF Track, TrackedStack
  <2>6. Count \in Nat /\ pass.calls[l] \in Nat
    BY <2>2, StackFacts
  <2>7. CASE pass.kind = "render"
    <3>1. pass.i = 0
      BY <2>2, <2>3, <2>7 DEF Ends, NextIndex
    <3> QED BY <2>5, <2>6, <2>7, <3>1 DEF Tracked
  <2>8. CASE pass.kind # "render"
    <3>1. pass.n <= pass.i + 1
      BY <2>2, <2>3, <2>8 DEF Ends, NextIndex
    <3> QED BY <2>2, <2>5, <2>6, <2>8, <3>1 DEF Tracked
  <2> QED BY <2>7, <2>8
<1>2. LayerInv /\ Ledger /\ Track =>
        [PassNext /\ Returns /\ ~scrambled =>
           \A l \in pass.stayed :
             /\ pass.calls[l] = 1 \/ pass.shifted
             /\ IF pass.kind = "render" THEN pass.calls[l] >= 1
                ELSE pass.calls[l] <= 1]_layerVars
  BY <1>1
<1> QED BY <1>2, LayerSafe, LedgerSafe, TrackSafe, PTL DEF PassExact
=============================================================================
