----------------------------- MODULE LayerStack -----------------------------
(***************************************************************************)
(* The layer stack, src/Noriko/layer.c.  The lock is held except while a   *)
(* layer is called, so a push is cut at OnPush and at the AddRef behind    *)
(* the insertion, and a traversal at every layer; the index and the count  *)
(* read before are used after.  A call made from a layer's callback        *)
(* interleaves like one of another thread.  A failed NK_ASSERT, which ends *)
(* the process in all builds that have assertions, and a call through a    *)
(* wild pointer are recorded in dead.                                      *)
(***************************************************************************)
EXTENDS Integers, Sequences

CONSTANTS
  Layers,
  Threads,
  SizeRange, InitCap, HeapCap,  (* see Vector                              *)
  Wild

VARIABLES
  stack,     (* mp_layerStack                                              *)
  refs,      (* AddRef() minus Release() calls for the stack, per layer    *)
  call,      (* the push or pop each thread is in                          *)
  pass,      (* the traversal the main thread is in                        *)
  dead,      (* what ended the process, or "no"                            *)
  scrambled  (* history: a layer was inserted below the end of the vector  *)

layerVars == <<stack, refs, call, pass, dead, scrambled>>

Vec == INSTANCE Vector WITH
         SizeRange <- SizeRange, InitCap <- InitCap, MaxCap <- SizeRange - 3,
         HeapCap <- HeapCap, Wild <- Wild

NK_AS_OVERLAY == 0
NK_AS_NORMAL == Vec!SizeMax

ASSUME LayerAssumption ==
  /\ InitCap \in Nat \ {0} /\ HeapCap \in Nat
  /\ SizeRange \in Nat /\ InitCap < SizeRange - 3
  /\ Wild \notin Layers

(* popped: a pop happened since the call began (history).                  *)
NoCall == [op |-> "none", layer |-> Wild, where |-> 0, popped |-> FALSE]

Call(op, l, where) == [op |-> op, layer |-> l, where |-> where, popped |-> FALSE]

SetCall(t, c) == call' = [call EXCEPT ![t] = c]

(* i and n are the locals i and layerCount, layer is the one being called. *)
(* History: how often each layer was called, the layers that were in the   *)
(* stack all the time, whether a layer was popped at all (popped), at or   *)
(* before the current index (shifted), and the current one (gone).         *)
NoPass == [kind |-> "none", i |-> 0, n |-> 0, layer |-> Wild,
           calls |-> [l \in Layers |-> 0], stayed |-> {},
           popped |-> FALSE, shifted |-> FALSE, gone |-> FALSE]

LayerInit ==
  /\ stack = Vec!NkVectorCreate
  /\ refs = [l \in Layers |-> 0]
  /\ call = [t \in Threads |-> NoCall]
  /\ pass = NoPass
  /\ dead = "no" /\ scrambled = FALSE

Count == Vec!NkVectorGetElementCount(stack)

Alive == dead = "no"

(* Thread t ends the process in call c.                                    *)
Die(t, c, why) ==
  /\ dead' = why /\ SetCall(t, [c EXCEPT !.op = "died"])
  /\ UNCHANGED <<stack, refs, pass, scrambled>>

(***************************************************************************)
(* NkLayerstackPush                                                        *)
(***************************************************************************)
(* The indices NkVectorAt is asked for to find beforeRef and afterRef, in  *)
(* unsigned arithmetic.                                                    *)
Neighbours(where) ==
  {k \in {(where - 1) % SizeRange} : Count # 0 /\ where # 0}
    \cup {k \in {(where + 1) % SizeRange} : k < Count}

PushBegin(t, l, where) ==
  /\ Alive /\ call[t] = NoCall
  /\ IF \A k \in Neighbours(where) : Vec!InRange(stack, k)
     THEN /\ SetCall(t, Call("push", l, where))
          /\ UNCHANGED <<stack, refs, pass, dead, scrambled>>
     ELSE Die(t, Call("push", l, where), "neighbour")

(* OnPush() refused.                                                       *)
PushRefused(t) ==
  /\ Alive /\ call[t].op = "push"
  /\ SetCall(t, NoCall)
  /\ UNCHANGED <<stack, refs, pass, dead, scrambled>>

InsertIndex(where) == IF where # NK_AS_NORMAL THEN where ELSE Count

(* OnPush() agreed; the lock is taken again.  NkVectorInsert may refuse.   *)
PushInsert(t) ==
  LET index == InsertIndex(call[t].where)
  IN  /\ Alive /\ call[t].op = "push"
      /\ IF index > Count THEN Die(t, call[t], "insert")
         ELSE IF ~Vec!Fits(stack, 1)
         THEN SetCall(t, NoCall) /\ UNCHANGED <<stack, refs, pass, dead, scrambled>>
         ELSE /\ stack' = Vec!NkVectorInsert(stack, call[t].layer, index)
              /\ scrambled' = (scrambled \/ index < Count)
              /\ call' = [call EXCEPT ![t].op = "addref"]
              /\ UNCHANGED <<refs, pass, dead>>

(* Fault: the stack takes no reference.                                    *)
PushAddRef_None(t) ==
  /\ Alive /\ call[t].op = "addref"
  /\ SetCall(t, NoCall)
  /\ UNCHANGED <<stack, refs, pass, dead, scrambled>>

(* AddRef(), after the lock was released.                                  *)
PushAddRef(t) ==
  /\ Alive /\ call[t].op = "addref"
  /\ refs' = [refs EXCEPT ![call[t].layer] = @ + 1]
  /\ SetCall(t, NoCall)
  /\ UNCHANGED <<stack, pass, dead, scrambled>>

(***************************************************************************)
(* NkLayerstackQueryIndex, then NkLayerstackPop with the index             *)
(***************************************************************************)
QueryIndex(l) ==
  LET at == {i \in 0 .. (Count - 1) : Vec!NkVectorAt(stack, i) = l}
  IN  IF at = {} THEN Vec!SizeMax ELSE CHOOSE i \in at : \A k \in at : i <= k

PopQuery(t, l) ==
  /\ Alive /\ call[t] = NoCall
  /\ QueryIndex(l) # Vec!SizeMax
  /\ SetCall(t, Call("pop", l, QueryIndex(l)))
  /\ UNCHANGED <<stack, refs, pass, dead, scrambled>>

(* What is at the index by now is removed and handed to the caller, who    *)
(* also gets the reference of the stack.                                   *)
PopErase(t) ==
  LET index == call[t].where
      got == Vec!NkVectorAt(stack, index)
  IN  /\ Alive /\ call[t].op = "pop"
      /\ IF ~Vec!InRange(stack, index) THEN Die(t, call[t], "erase")
         ELSE /\ stack' = Vec!NkVectorErase(stack, index)
              /\ call' = [u \in Threads |->
                            IF u = t THEN Call("release", got, 0)
                            ELSE [call[u] EXCEPT !.popped = call[u] # NoCall]]
              /\ pass' = IF pass = NoPass THEN NoPass
                         ELSE [pass EXCEPT !.stayed = @ \ {got}, !.popped = TRUE,
                                           !.shifted = @ \/ index <= pass.i,
                                           !.gone = @ \/ got = pass.layer]
              /\ UNCHANGED <<refs, dead, scrambled>>

(* The caller's Release() of what NkLayerstackPop returned.                *)
PopRelease(t) ==
  /\ Alive /\ call[t].op = "release"
  /\ IF call[t].layer = Wild THEN Die(t, call[t], "wild")
     ELSE /\ refs' = [refs EXCEPT ![call[t].layer] = @ - 1]
          /\ SetCall(t, NoCall)
          /\ UNCHANGED <<stack, pass, dead, scrambled>>

(***************************************************************************)
(* NkLayerstackOnEvent, NkLayerstackOnUpdate, NkLayerstackOnRender         *)
(***************************************************************************)
(* Fault: the lowest layer is not drawn.                                   *)
First_FromSecond(kind, n) == IF kind = "render" THEN n - 2 ELSE 0

First(kind, n) == IF kind = "render" THEN n - 1 ELSE 0

(* Fault: the loop runs one layer too far.                                 *)
Ends_TooLate(kind, i, n) == IF kind = "render" THEN i < 0 ELSE i > n

(* The loop's end condition for index i.                                   *)
Ends(kind, i, n) == IF kind = "render" THEN i < 0 ELSE i >= n

(* The loop head at index i: the function returns, fails on the element or *)
(* calls the layer without the lock.                                       *)
Visit(p, i) ==
  LET l == Vec!NkVectorAt(stack, i)
  IN  IF Ends(p.kind, i, p.n) THEN pass' = NoPass /\ dead' = dead
      ELSE IF ~Vec!InRange(stack, i) THEN pass' = p /\ dead' = "at"
      ELSE IF l = Wild THEN pass' = p /\ dead' = "wild"
      ELSE /\ pass' = [p EXCEPT !.i = i, !.layer = l, !.gone = FALSE, !.calls[l] = @ + 1]
           /\ dead' = dead

PassBegin(kind) ==
  /\ Alive /\ pass = NoPass
  /\ Visit([NoPass EXCEPT !.kind = kind, !.n = Count,
                          !.stayed = Vec!Elements(stack) \ {Wild}],
           First(kind, Count))
  /\ UNCHANGED <<stack, refs, call, scrambled>>

(* The layer has returned; the lock is taken again.                        *)
PassNext ==
  /\ Alive /\ pass # NoPass
  /\ Visit(pass, IF pass.kind = "render" THEN pass.i - 1 ELSE pass.i + 1)
  /\ UNCHANGED <<stack, refs, call, scrambled>>

(* A layer has handled the event: those behind it do not get it.           *)
EventHandled ==
  /\ Alive /\ pass.kind = "event"
  /\ pass' = NoPass
  /\ UNCHANGED <<stack, refs, call, dead, scrambled>>
-----------------------------------------------------------------------------
CallType == [op : {"none", "push", "addref", "pop", "release", "died"},
             layer : Layers \cup {Wild}, where : 0 .. NK_AS_NORMAL, popped : BOOLEAN]

PassType == [kind : {"none", "event", "update", "render"}, i : Nat, n : Nat,
             layer : Layers \cup {Wild}, calls : [Layers -> Nat], stayed : SUBSET Layers,
             popped : BOOLEAN, shifted : BOOLEAN, gone : BOOLEAN]

(* The elements stay inside the buffer, and the signed index of the render *)
(* loop is never negative while a layer is called.                         *)
LayerTypeOK ==
  /\ stack \in [elems : Seq(Layers \cup {Wild}), cap : Nat] /\ Count <= stack.cap
  /\ refs \in [Layers -> Int]
  /\ call \in [Threads -> CallType] /\ pass \in PassType
  /\ dead \in {"no", "neighbour", "insert", "erase", "at", "wild"}
  /\ scrambled \in BOOLEAN

(* What can end the process.  A push does so when it looks for the new     *)
(* neighbours only as NK_AS_NORMAL and with a layer in the stack; an index *)
(* is out of range in a traversal, an insertion or an erasure only if a    *)
(* layer was popped since that very traversal or call read the index or    *)
(* the count; a wild pointer is called only after an insertion below the   *)
(* end of the vector.                                                      *)
HaltCause ==
  /\ dead = "at" => pass.popped
  /\ dead = "wild" => scrambled
  /\ dead \in {"neighbour", "insert", "erase"} =>
       \E t \in Threads :
         /\ call[t].op = "died"
         /\ IF dead = "neighbour" THEN call[t].where = NK_AS_NORMAL /\ Count > 0
            ELSE call[t].popped

(* What layer.h says of NK_AS_NORMAL: the layer is added to the back of    *)
(* the stack.  No push that asks for it ends the process.                  *)
NormalAdded == \A t \in Threads : call[t].op = "died" => call[t].where # NK_AS_NORMAL

(* The layer that is being called is referenced by the stack or still held *)
(* by the thread that pushes it, unless it was popped during this very     *)
(* call.                                                                   *)
CalledIsHeld ==
  pass # NoPass /\ Alive /\ ~scrambled /\ ~pass.gone =>
    \/ refs[pass.layer] > 0
    \/ \E t \in Threads : call[t].op = "addref" /\ call[t].layer = pass.layer

Returns == pass # NoPass /\ pass' = NoPass

(* A traversal that runs to its end: events and updates call no layer that *)
(* stays in the stack twice, and miss one only if a layer at or before the *)
(* current index is popped; rendering misses none, and draws one twice     *)
(* only in that case.                                                      *)
PassExact ==
  [][PassNext /\ Returns /\ ~scrambled =>
       \A l \in pass.stayed :
         /\ pass.calls[l] = 1 \/ pass.shifted
         /\ IF pass.kind = "render" THEN pass.calls[l] >= 1 ELSE pass.calls[l] <= 1]_layerVars
=============================================================================
