------------------------- MODULE ObjectModelProofs --------------------------
(***************************************************************************)
(* Proofs about ObjectModel, for any factories, classes and threads.       *)
(***************************************************************************)
EXTENDS ObjectModel, FiniteSetTheorems, TLAPS

Ops == {"none", "found", "create", "made", "init", "query", "created",
        "insert", "addref", "erase", "release", "last"}

CallType == [op : Ops, fac : Factories \cup {NULL}, i : Nat, obj : Int, ok : BOOLEAN]

TypeInv ==
  /\ up \in BOOLEAN
  /\ classReg \in [Classes -> Factories \cup {NULL}]
  /\ refs \in [Counted -> Nat]
  /\ call \in [Threads -> CallType]
  /\ dead \in Factories \cup {NULL}
  /\ uninstalled \subseteq Factories
  /\ skipped \in [Counted -> Nat]
  /\ held \in [Counted -> Nat] /\ raced \subseteq Threads

(* A call works on a factory, and its loops stay inside the array that     *)
(* QueryInstantiableClasses() returned.                                    *)
InRange(c) ==
  /\ c.op # "none" => c.fac \in Factories
  /\ c.op \in {"insert", "addref", "erase", "release"} =>
       c.i \in 1 .. Len(ClassesOf[c.fac])

(* The references of the new instance at every point of the creation.      *)
Balanced(c) ==
  /\ c.op \in {"found", "create"} => c.obj = 0 /\ ~c.ok
  /\ c.op = "made" => c.obj \in {0, 1} /\ ~c.ok
  /\ c.op \in {"init", "query"} => c.obj = 1 /\ ~c.ok
  /\ c.op = "created" => c.obj = IF c.ok THEN 1 ELSE 0

CallsInv == \A t \in Threads : InRange(call[t]) /\ Balanced(call[t])

ObjInv == TypeInv /\ CallsInv

LEMMA ClassInRange ==
  ASSUME ObjInv, NEW t \in Threads,
         call[t].op \in {"insert", "addref", "erase", "release"}
  PROVE  /\ call[t].fac \in Factories /\ Class(t) \in Classes
         /\ ClassesOf[call[t].fac] \in Seq(Classes)
         /\ Len(ClassesOf[call[t].fac]) \in Nat
         /\ call[t].i \in 1 .. Len(ClassesOf[call[t].fac])
<1>1. InRange(call[t]) /\ call[t] \in CallType
  BY DEF ObjInv, CallsInv, TypeInv
<1>2. call[t].fac \in Factories /\ call[t].i \in 1 .. Len(ClassesOf[call[t].fac])
  BY <1>1 DEF InRange
<1>3. ClassesOf[call[t].fac] \in Seq(Classes)
  BY <1>2, FactoryAssumption
<1> QED BY <1>2, <1>3 DEF Class

(* A step of thread t that leaves the others alone.                        *)
LEMMA OneCall ==
  ASSUME ObjInv, NEW t \in Threads, NEW c, call' = [call EXCEPT ![t] = c],
         c \in CallType, InRange(c), Balanced(c)
  PROVE  CallsInv' /\ call' \in [Threads -> CallType]
<1>1. call \in [Threads -> CallType]
  BY DEF ObjInv, TypeInv
<1>2. \A u \in Threads : call'[u] = IF u = t THEN c ELSE call[u]
  BY <1>1
<1>3. \A u \in Threads : InRange(call'[u]) /\ Balanced(call'[u])
  BY <1>2 DEF ObjInv, CallsInv
<1> QED BY <1>1, <1>3 DEF CallsInv

LEMMA OpNames ==
  /\ "none" \in Ops /\ "found" \in Ops /\ "create" \in Ops /\ "made" \in Ops
  /\ "init" \in Ops /\ "query" \in Ops /\ "created" \in Ops /\ "insert" \in Ops
  /\ "addref" \in Ops /\ "erase" \in Ops /\ "release" \in Ops /\ "last" \in Ops
BY DEF Ops

LEMMA NoCallType ==
  /\ NoCall \in CallType /\ InRange(NoCall) /\ Balanced(NoCall)
  /\ NoCall.op = "none" /\ NoCall.fac = NULL /\ NoCall.obj = 0 /\ NoCall.ok = FALSE
BY DEF NoCall, CallType, Ops, InRange, Balanced

(* A call that begins with the factory f.                                  *)
LEMMA NewCall ==
  ASSUME NEW f \in Factories, NEW o \in Ops
  PROVE  LET n == [NoCall EXCEPT !.op = o, !.fac = f, !.i = 1]
         IN  /\ n \in CallType
             /\ n.op = o /\ n.fac = f /\ n.i = 1 /\ n.obj = 0 /\ n.ok = FALSE
BY NoCallType DEF CallType

LEMMA ObjInit == Init => ObjInv
<1> SUFFICES ASSUME Init PROVE ObjInv
  OBVIOUS
<1>1. NoCall \in CallType /\ InRange(NoCall) /\ Balanced(NoCall)
  BY DEF NoCall, CallType, Ops, InRange, Balanced
<1>2. TypeInv
  BY <1>1, FactoryAssumption DEF Init, TypeInv
<1>3. CallsInv
  BY <1>1 DEF Init, CallsInv
<1> QED BY <1>2, <1>3 DEF ObjInv

LEMMA DieKeeps ==
  ASSUME ObjInv, NEW f \in Factories, Die(f)
  PROVE  ObjInv'
<1>1. TypeInv'
  BY DEF ObjInv, TypeInv, Die
<1>2. CallsInv'
  BY DEF ObjInv, CallsInv, Die
<1> QED BY <1>1, <1>2 DEF ObjInv

LEMMA DestroyedIsFactory ==
  ASSUME NEW f, Destroyed(f)
  PROVE  f \in Factories
BY FactoryAssumption DEF Destroyed

LEMMA RefsStay ==
  ASSUME ObjInv, NEW f, AddRef(f) \/ (Release(f) /\ ~Destroyed(f))
  PROVE  refs' \in [Counted -> Nat]
<1>1. refs \in [Counted -> Nat]
  BY DEF ObjInv, TypeInv
<1>2. CASE AddRef(f)
  BY <1>1, <1>2 DEF AddRef
<1>3. CASE Release(f) /\ ~Destroyed(f)
  <2>1. f \in Counted => refs[f] \in Nat /\ refs[f] # 0
    BY <1>1, <1>3 DEF Destroyed
  <2>2. f \in Counted => refs[f] - 1 \in Nat
    BY <2>1
  <2> QED BY <1>1, <1>3, <2>2 DEF Release
<1> QED BY <1>2, <1>3

(* The calls of NkOMCreateInstance.                                        *)
LEMMA CreateKeeps ==
  ASSUME ObjInv, NEW t \in Threads, CreateInstance(t)
  PROVE  ObjInv'
<1> DEFINE f == call[t].fac
<1>0. /\ call[t] \in CallType /\ InRange(call[t]) /\ Balanced(call[t])
      /\ call \in [Threads -> CallType]
  BY DEF ObjInv, TypeInv, CallsInv
<1>1. ASSUME NEW c \in Classes, QueryFactory(t, c) PROVE ObjInv'
  <2> DEFINE n == [NoCall EXCEPT !.op = "found", !.fac = classReg[c], !.i = 1]
  <2>1. classReg[c] \in Factories
    BY <1>1 DEF QueryFactory, ObjInv, TypeInv
  <2>3. call' = [call EXCEPT ![t] = n]
    BY <1>1 DEF QueryFactory, Begin
  <2>n. n \in CallType /\ n.op = "found" /\ n.fac \in Factories /\ n.obj = 0 /\ n.ok = FALSE
    <3>1. "found" \in Ops
      BY OpNames
    <3> QED BY <2>1, <3>1, NewCall
  <2> HIDE DEF n
  <2>2. InRange(n) /\ Balanced(n)
    BY <2>n DEF InRange, Balanced
  <2>4. CallsInv' /\ call' \in [Threads -> CallType]
    BY <2>n, <2>2, <2>3, OneCall
  <2> QED BY <1>1, <2>4 DEF QueryFactory, ObjInv, TypeInv
<1>2. ASSUME QueryAddRef(t) PROVE ObjInv'
  <2> DEFINE n == [call[t] EXCEPT !.op = "create"]
  <2>1. CASE Destroyed(f)
    BY <1>2, <2>1, DestroyedIsFactory, DieKeeps DEF QueryAddRef
  <2>2. CASE ~Destroyed(f)
    <3>1. n \in CallType /\ InRange(n) /\ Balanced(n)
      BY <1>0, <1>2 DEF QueryAddRef, At, CallType, Ops, InRange, Balanced
    <3>2. call' = [call EXCEPT ![t] = n]
      BY <1>2, <2>2, <1>0 DEF QueryAddRef, Goto
    <3>3. CallsInv' /\ call' \in [Threads -> CallType]
      BY <3>1, <3>2, OneCall
    <3>4. refs' \in [Counted -> Nat]
      BY <1>2, <2>2, RefsStay DEF QueryAddRef
    <3> QED BY <1>2, <2>2, <3>3, <3>4 DEF QueryAddRef, ObjInv, TypeInv
  <2> QED BY <2>1, <2>2
<1>3. ASSUME FactoryCreate(t) PROVE ObjInv'
  <2>1. CASE Destroyed(f)
    BY <1>3, <2>1, DestroyedIsFactory, DieKeeps DEF FactoryCreate
  <2>2. CASE ~Destroyed(f)
    <3>1. PICK n \in {0, 1} : call' = [call EXCEPT ![t].op = "made", ![t].obj = n]
      BY <1>3, <2>2 DEF FactoryCreate
    <3> DEFINE m == [call[t] EXCEPT !.op = "made", !.obj = n]
    <3>3. call' = [call EXCEPT ![t] = m]
      BY <3>1, <1>0
    <3>m. /\ m \in CallType /\ m.op = "made" /\ m.obj \in {0, 1}
          /\ m.fac = call[t].fac /\ m.ok = call[t].ok
      <4>1. n \in Int /\ "made" \in Ops
        BY OpNames
      <4> QED BY <1>0, <4>1 DEF CallType
    <3> HIDE DEF m
    <3>2. InRange(m) /\ Balanced(m)
      BY <1>0, <1>3, <3>m DEF FactoryCreate, At, InRange, Balanced
    <3>4. CallsInv' /\ call' \in [Threads -> CallType]
      BY <3>m, <3>2, <3>3, OneCall
    <3> QED BY <1>3, <2>2, <3>4 DEF FactoryCreate, ObjInv, TypeInv
  <2> QED BY <2>1, <2>2
<1>4. ASSUME FactoryRelease(t) PROVE ObjInv'
  <2> DEFINE n == [call[t] EXCEPT !.op = IF call[t].obj = 1 THEN "init" ELSE "created"]
  <2>1. CASE Destroyed(f)
    BY <1>4, <2>1, DestroyedIsFactory, DieKeeps DEF FactoryRelease
  <2>2. CASE ~Destroyed(f)
    <3>1. n \in CallType /\ InRange(n) /\ Balanced(n)
      BY <1>0, <1>4 DEF FactoryRelease, At, CallType, Ops, InRange, Balanced
    <3>2. call' = [call EXCEPT ![t] = n]
      BY <1>4, <2>2, <1>0 DEF FactoryRelease, Goto
    <3>3. CallsInv' /\ call' \in [Threads -> CallType]
      BY <3>1, <3>2, OneCall
    <3>4. refs' \in [Counted -> Nat]
      BY <1>4, <2>2, RefsStay DEF FactoryRelease
    <3> QED BY <1>4, <2>2, <3>3, <3>4 DEF FactoryRelease, ObjInv, TypeInv
  <2> QED BY <2>1, <2>2
<1>5. ASSUME InitInstance(t) PROVE ObjInv'
  <2>1. call[t].op = "init" /\ call[t].obj = 1 /\ ~call[t].ok
    BY <1>0, <1>5 DEF InitInstance, At, Balanced
  <2>2. CallsInv' /\ call' \in [Threads -> CallType]
    <3>1. CASE InitFails(t)
      <4> DEFINE n == [call[t] EXCEPT !.op = "created", !.obj = 0]
      <4>o. (call[t].obj + 1) - 2 = 0
        BY <2>1
      <4>2. call' = [call EXCEPT ![t] = n]
        BY <3>1, <1>0, <4>o DEF InitFails
      <4>n. /\ n \in CallType /\ n.op = "created" /\ n.obj = 0
            /\ n.fac = call[t].fac /\ n.ok = call[t].ok
        <5>1. 0 \in Int /\ "created" \in Ops
          BY OpNames
        <5> QED BY <1>0, <5>1 DEF CallType
      <4> HIDE DEF n
      <4>1. InRange(n) /\ Balanced(n)
        BY <1>0, <2>1, <4>n DEF InRange, Balanced
      <4> QED BY <4>n, <4>1, <4>2, OneCall
    <3>2. CASE InitSucceeds(t)
      <4> DEFINE n == [call[t] EXCEPT !.op = "query"]
      <4>1. n \in CallType /\ InRange(n) /\ Balanced(n)
        BY <1>0, <2>1 DEF CallType, Ops, InRange, Balanced
      <4>2. call' = [call EXCEPT ![t] = n]
        BY <3>2, <1>0 DEF InitSucceeds
      <4> QED BY <4>1, <4>2, OneCall
    <3> QED BY <1>5, <3>1, <3>2 DEF InitInstance
  <2> QED BY <1>5, <2>2 DEF InitInstance, ObjInv, TypeInv
<1>6. ASSUME QueryInstance(t) PROVE ObjInv'
  <2>1. call[t].op = "query" /\ call[t].obj = 1 /\ ~call[t].ok
    BY <1>0, <1>6 DEF QueryInstance, At, Balanced
  <2>2. PICK ok \in BOOLEAN :
          call' = [call EXCEPT ![t].op = "created", ![t].ok = ok,
                               ![t].obj = (IF ok THEN @ + 1 ELSE @) - 1]
    BY <1>6 DEF QueryInstance
  <2>k. PICK k \in Int : k = IF ok THEN 1 ELSE 0
    OBVIOUS
  <2> DEFINE n == [call[t] EXCEPT !.op = "created", !.ok = ok, !.obj = k]
  <2>o. (IF ok THEN call[t].obj + 1 ELSE call[t].obj) - 1 = k
    BY <2>1, <2>k
  <2>4. call' = [call EXCEPT ![t] = n]
    BY <2>2, <1>0, <2>o
  <2>n. /\ n \in CallType /\ n.op = "created" /\ n.obj = k
        /\ n.fac = call[t].fac /\ n.ok = ok
    <3>1. "created" \in Ops
      BY OpNames
    <3> QED BY <1>0, <3>1 DEF CallType
  <2> HIDE DEF n
  <2>3. InRange(n) /\ Balanced(n)
    BY <1>0, <2>1, <2>k, <2>n DEF InRange, Balanced
  <2>5. CallsInv' /\ call' \in [Threads -> CallType]
    BY <2>n, <2>3, <2>4, OneCall
  <2> QED BY <1>6, <2>5 DEF QueryInstance, ObjInv, TypeInv
<1>8. ASSUME QueryReturn(t) PROVE ObjInv'
  <2>1. CallsInv' /\ call' \in [Threads -> CallType]
    BY <1>8, NoCallType, OneCall DEF QueryReturn, Leave
  <2>2. held' \in [Counted -> Nat]
    BY <1>8 DEF QueryReturn, ObjInv, TypeInv
  <2> QED BY <1>8, <2>1, <2>2 DEF QueryReturn, ObjInv, TypeInv
<1>7. ASSUME CreateReturn(t) PROVE ObjInv'
  <2>1. NoCall \in CallType /\ InRange(NoCall) /\ Balanced(NoCall)
    BY DEF NoCall, CallType, Ops, InRange, Balanced
  <2>2. CallsInv' /\ call' \in [Threads -> CallType]
    BY <1>7, <2>1, OneCall DEF CreateReturn, Leave
  <2> QED BY <1>7, <2>2 DEF CreateReturn, ObjInv, TypeInv
<1> QED
  BY <1>1, <1>2, <1>3, <1>4, <1>5, <1>6, <1>7, <1>8 DEF CreateInstance

(* The next step of a loop over the classes of the factory.                *)
LEMMA NextClass ==
  ASSUME ObjInv, NEW t \in Threads, NEW o \in {"insert", "erase"},
         NEW k \in 1 .. Len(ClassesOf[call[t].fac]),
         call[t].op \in {"insert", "addref", "erase", "release"},
         call' = [call EXCEPT ![t].op = o, ![t].i = k]
  PROVE  CallsInv' /\ call' \in [Threads -> CallType]
<1> DEFINE n == [call[t] EXCEPT !.op = o, !.i = k]
<1>1. /\ call[t] \in CallType /\ call \in [Threads -> CallType]
      /\ call[t].fac \in Factories /\ Len(ClassesOf[call[t].fac]) \in Nat
  BY ClassInRange DEF ObjInv, TypeInv
<1>2. call' = [call EXCEPT ![t] = n]
  BY <1>1
<1>3. k \in Nat /\ o \in Ops
  BY <1>1, OpNames
<1>4. n \in CallType /\ n.op = o /\ n.i = k /\ n.fac = call[t].fac
  BY <1>1, <1>3 DEF CallType
<1> HIDE DEF n
<1>5. InRange(n) /\ Balanced(n)
  BY <1>1, <1>4 DEF InRange, Balanced
<1> QED BY <1>2, <1>4, <1>5, OneCall

LEMMA CallBegins ==
  ASSUME ObjInv, NEW t \in Threads, NEW f \in Factories, NEW o \in {"insert", "erase"},
         Begin(t, o, f)
  PROVE  CallsInv' /\ call' \in [Threads -> CallType]
<1> DEFINE n == [NoCall EXCEPT !.op = o, !.fac = f, !.i = 1]
<1>1. call' = [call EXCEPT ![t] = n]
  BY DEF Begin
<1>2. o \in Ops
  BY OpNames
<1>3. n \in CallType /\ n.op = o /\ n.fac = f /\ n.i = 1
  BY <1>2, NewCall
<1> HIDE DEF n
<1>4. 1 \in 1 .. Len(ClassesOf[f])
  <2>1. ClassesOf[f] \in Seq(Classes) /\ ClassesOf[f] # <<>>
    BY FactoryAssumption
  <2>2. Len(ClassesOf[f]) \in Nat /\ Len(ClassesOf[f]) # 0
    BY <2>1
  <2> QED BY <2>2
<1>5. InRange(n) /\ Balanced(n)
  BY <1>3, <1>4 DEF InRange, Balanced
<1> QED BY <1>1, <1>3, <1>5, OneCall

LEMMA CallEnds ==
  ASSUME ObjInv, NEW t \in Threads, Leave(t)
  PROVE  CallsInv' /\ call' \in [Threads -> CallType]
BY NoCallType, OneCall DEF Leave

LEMMA UninstalledType ==
  ASSUME ObjInv, NEW f \in Factories, Uninstalled(f)
  PROVE  uninstalled' \subseteq Factories /\ skipped' \in [Counted -> Nat]
<1>1. skipped \in [Counted -> Nat] /\ uninstalled \subseteq Factories
  BY DEF ObjInv, TypeInv
<1>2. \A h \in Counted : (IF h = f THEN 0 ELSE skipped[h]) \in Nat
  BY <1>1
<1> QED BY <1>1, <1>2 DEF Uninstalled

LEMMA InstallKeeps ==
  ASSUME ObjInv, NEW t \in Threads, Install(t)
  PROVE  ObjInv'
<1> DEFINE fac == call[t].fac
<1>0. call[t] \in CallType /\ call \in [Threads -> CallType]
  BY DEF ObjInv, TypeInv
<1>1. ASSUME NEW f \in Factories, InstallBegin(t, f) PROVE ObjInv'
  <2>1. CASE Destroyed(f)
    BY <1>1, <2>1, DieKeeps DEF InstallBegin
  <2>2. CASE ~Destroyed(f)
    <3>1. CallsInv' /\ call' \in [Threads -> CallType]
      BY <1>1, <2>2, CallBegins DEF InstallBegin
    <3> QED BY <1>1, <2>2, <3>1 DEF InstallBegin, ObjInv, TypeInv
  <2> QED BY <2>1, <2>2
<1>2. ASSUME InstallInsert(t) PROVE ObjInv'
  <2> DEFINE n == [call[t] EXCEPT !.op = "addref"]
  <2>1. call[t].op = "insert"
    BY <1>2 DEF InstallInsert, At
  <2>2. fac \in Factories /\ Class(t) \in Classes
        /\ call[t].i \in 1 .. Len(ClassesOf[fac])
    BY <2>1, ClassInRange
  <2>3. call' = [call EXCEPT ![t] = n]
    BY <1>0, <1>2 DEF InstallInsert, Goto
  <2>4. n \in CallType /\ n.op = "addref" /\ n.fac = fac /\ n.i = call[t].i
    <3>1. "addref" \in Ops
      BY OpNames
    <3> QED BY <1>0, <3>1 DEF CallType
  <2> HIDE DEF n
  <2>5. InRange(n) /\ Balanced(n)
    BY <2>2, <2>4 DEF InRange, Balanced
  <2>6. CallsInv' /\ call' \in [Threads -> CallType]
    BY <2>3, <2>4, <2>5, OneCall
  <2>7. classReg' \in [Classes -> Factories \cup {NULL}] /\ skipped' \in [Counted -> Nat]
    <3>1. classReg \in [Classes -> Factories \cup {NULL}] /\ skipped \in [Counted -> Nat]
      BY DEF ObjInv, TypeInv
    <3>2. CASE classReg[Class(t)] = NULL
      BY <1>2, <2>2, <3>1, <3>2 DEF InstallInsert
    <3>3. CASE classReg[Class(t)] # NULL
      BY <1>2, <3>1, <3>3 DEF InstallInsert
    <3> QED BY <3>2, <3>3
  <2> QED BY <1>2, <2>6, <2>7 DEF InstallInsert, ObjInv, TypeInv
<1>3. ASSUME InstallFails(t) PROVE ObjInv'
  <2>1. call[t].op = "insert"
    BY <1>3 DEF InstallFails, At
  <2>2. fac \in Factories /\ call[t].i \in 1 .. Len(ClassesOf[fac])
        /\ Len(ClassesOf[fac]) \in Nat
    BY <2>1, ClassInRange
  <2>3. CASE call[t].i = 1
    <3>1. CallsInv' /\ call' \in [Threads -> CallType]
      BY <1>3, <2>3, CallEnds DEF InstallFails
    <3> QED BY <1>3, <2>3, <3>1 DEF InstallFails, ObjInv, TypeInv
  <2>4. CASE call[t].i # 1 /\ Destroyed(fac)
    <3>1. Die(fac)
      BY <1>3, <2>4 DEF InstallFails, Die
    <3> QED BY <2>2, <3>1, DieKeeps
  <2>5. CASE call[t].i # 1 /\ ~Destroyed(fac)
    <3>1. 1 \in 1 .. Len(ClassesOf[fac])
      BY <2>2
    <3>2. CallsInv' /\ call' \in [Threads -> CallType]
      BY <1>3, <2>1, <2>5, <3>1, NextClass DEF InstallFails
    <3>3. uninstalled' \subseteq Factories /\ skipped' \in [Counted -> Nat]
      BY <1>3, <2>2, <2>5, UninstalledType DEF InstallFails
    <3> QED BY <1>3, <2>5, <3>2, <3>3 DEF InstallFails, ObjInv, TypeInv
  <2> QED BY <2>3, <2>4, <2>5
<1>4. ASSUME InstallAddRef(t) PROVE ObjInv'
  <2>1. call[t].op = "addref"
    BY <1>4 DEF InstallAddRef, At
  <2>2. fac \in Factories /\ call[t].i \in 1 .. Len(ClassesOf[fac])
        /\ Len(ClassesOf[fac]) \in Nat
    BY <2>1, ClassInRange
  <2>3. CASE Destroyed(fac)
    BY <1>4, <2>2, <2>3, DieKeeps DEF InstallAddRef
  <2>4. CASE ~Destroyed(fac)
    <3>1. refs' \in [Counted -> Nat]
      BY <1>4, <2>4, RefsStay DEF InstallAddRef, InstallRefs
    <3>2. CallsInv' /\ call' \in [Threads -> CallType]
      <4>1. CASE call[t].i = Len(ClassesOf[fac])
        BY <1>4, <2>4, <4>1, CallEnds DEF InstallAddRef
      <4>2. CASE call[t].i # Len(ClassesOf[fac])
        <5>1. call[t].i + 1 \in 1 .. Len(ClassesOf[fac])
          BY <2>2, <4>2
        <5>2. call' = [call EXCEPT ![t].op = "insert", ![t].i = call[t].i + 1]
          BY <1>4, <2>4, <4>2 DEF InstallAddRef
        <5> QED BY <2>1, <5>1, <5>2, NextClass
      <4> QED BY <4>1, <4>2
    <3> QED BY <1>4, <2>4, <3>1, <3>2 DEF InstallAddRef, ObjInv, TypeInv
  <2> QED BY <2>3, <2>4
<1> QED BY <1>1, <1>2, <1>3, <1>4 DEF Install

LEMMA UninstallKeeps ==
  ASSUME ObjInv, NEW t \in Threads, Uninstall(t)
  PROVE  ObjInv'
<1> DEFINE fac == call[t].fac
<1>0. call[t] \in CallType /\ call \in [Threads -> CallType]
  BY DEF ObjInv, TypeInv
<1>1. ASSUME NEW f \in Factories, UninstallBegin(t, f) PROVE ObjInv'
  <2>1. CASE Destroyed(f)
    BY <1>1, <2>1, DieKeeps DEF UninstallBegin
  <2>2. CASE ~Destroyed(f)
    <3>1. CallsInv' /\ call' \in [Threads -> CallType]
      BY <1>1, <2>2, CallBegins DEF UninstallBegin
    <3>2. uninstalled' \subseteq Factories /\ skipped' \in [Counted -> Nat]
      BY <1>1, <2>2, UninstalledType DEF UninstallBegin
    <3> QED BY <1>1, <2>2, <3>1, <3>2 DEF UninstallBegin, ObjInv, TypeInv
  <2> QED BY <2>1, <2>2
<1>2. ASSUME UninstallErase(t) PROVE ObjInv'
  <2> DEFINE g == classReg[Class(t)]
             n == [call[t] EXCEPT !.op = "release"]
  <2>1. call[t].op = "erase"
    BY <1>2 DEF UninstallErase, At
  <2>2. fac \in Factories /\ Class(t) \in Classes
        /\ call[t].i \in 1 .. Len(ClassesOf[fac])
    BY <2>1, ClassInRange
  <2>3. CASE Destroyed(g)
    BY <1>2, <2>3, DestroyedIsFactory, DieKeeps DEF UninstallErase
  <2>4. CASE ~Destroyed(g)
    <3>1. refs' \in [Counted -> Nat]
      BY <1>2, <2>4, RefsStay DEF UninstallErase
    <3>2. call' = [call EXCEPT ![t] = n]
      BY <1>0, <1>2, <2>4 DEF UninstallErase, Goto
    <3>3. n \in CallType /\ n.op = "release" /\ n.fac = fac /\ n.i = call[t].i
      <4>1. "release" \in Ops
        BY OpNames
      <4> QED BY <1>0, <4>1 DEF CallType
    <3> HIDE DEF n
    <3>4. InRange(n) /\ Balanced(n)
      BY <2>2, <3>3 DEF InRange, Balanced
    <3>5. CallsInv' /\ call' \in [Threads -> CallType]
      BY <3>2, <3>3, <3>4, OneCall
    <3>6. classReg' \in [Classes -> Factories \cup {NULL}]
      BY <1>2, <2>2, <2>4 DEF UninstallErase, ObjInv, TypeInv
    <3>7. raced' \subseteq Threads
      BY <1>2, <2>4 DEF UninstallErase, Calls, ObjInv, TypeInv
    <3> QED BY <1>2, <2>4, <3>1, <3>5, <3>6, <3>7 DEF UninstallErase, ObjInv, TypeInv
  <2> QED BY <2>3, <2>4
<1>3. ASSUME UninstallRelease(t) PROVE ObjInv'
  <2>1. call[t].op = "release"
    BY <1>3 DEF UninstallRelease, At
  <2>2. fac \in Factories /\ call[t].i \in 1 .. Len(ClassesOf[fac])
        /\ Len(ClassesOf[fac]) \in Nat
    BY <2>1, ClassInRange
  <2>3. CASE Destroyed(fac)
    BY <1>3, <2>2, <2>3, DieKeeps DEF UninstallRelease
  <2>4. CASE ~Destroyed(fac)
    <3>1. refs' \in [Counted -> Nat]
      BY <1>3, <2>4, RefsStay DEF UninstallRelease
    <3>2. CallsInv' /\ call' \in [Threads -> CallType]
      <4>1. CASE call[t].i = Len(ClassesOf[fac])
        <5> DEFINE n == [call[t] EXCEPT !.op = "last"]
        <5>1. call' = [call EXCEPT ![t] = n]
          BY <1>0, <1>3, <2>4, <4>1 DEF UninstallRelease
        <5>2. n \in CallType /\ n.op = "last" /\ n.fac = fac
          <6>1. "last" \in Ops
            BY OpNames
          <6> QED BY <1>0, <6>1 DEF CallType
        <5> HIDE DEF n
        <5>3. InRange(n) /\ Balanced(n)
          BY <2>2, <5>2 DEF InRange, Balanced
        <5> QED BY <5>1, <5>2, <5>3, OneCall
      <4>2. CASE call[t].i # Len(ClassesOf[fac])
        <5>1. call[t].i + 1 \in 1 .. Len(ClassesOf[fac])
          BY <2>2, <4>2
        <5>2. call' = [call EXCEPT ![t].op = "erase", ![t].i = call[t].i + 1]
          BY <1>3, <2>4, <4>2 DEF UninstallRelease
        <5> QED BY <2>1, <5>1, <5>2, NextClass
      <4> QED BY <4>1, <4>2
    <3> QED BY <1>3, <2>4, <3>1, <3>2 DEF UninstallRelease, ObjInv, TypeInv
  <2> QED BY <2>3, <2>4
<1>4. ASSUME UninstallLast(t) PROVE ObjInv'
  <2>1. CASE Destroyed(fac)
    BY <1>4, <2>1, DestroyedIsFactory, DieKeeps DEF UninstallLast
  <2>2. CASE ~Destroyed(fac)
    <3>1. refs' \in [Counted -> Nat]
      BY <1>4, <2>2, RefsStay DEF UninstallLast
    <3>2. CallsInv' /\ call' \in [Threads -> CallType]
      BY <1>4, <2>2, CallEnds DEF UninstallLast
    <3> QED BY <1>4, <2>2, <3>1, <3>2 DEF UninstallLast, ObjInv, TypeInv
  <2> QED BY <2>1, <2>2
<1> QED BY <1>1, <1>2, <1>3, <1>4 DEF Uninstall

LEMMA RegistryFinite ==
  ASSUME NEW f
  PROVE  IsFiniteSet(ClassesIn(f)) /\ Cardinality(ClassesIn(f)) \in Nat
<1>1. ClassesIn(f) \in SUBSET Classes
  BY DEF ClassesIn
<1>2. IsFiniteSet(ClassesIn(f))
  BY <1>1, FactoryAssumption, FS_Subset
<1> QED BY <1>2, FS_CardinalityType

LEMMA CallsFinite ==
  ASSUME NEW f, NEW ops
  PROVE  IsFiniteSet(Calls(f, ops)) /\ Cardinality(Calls(f, ops)) \in Nat
<1>1. Calls(f, ops) \in SUBSET Threads
  BY DEF Calls
<1>2. IsFiniteSet(Calls(f, ops))
  BY <1>1, FactoryAssumption, FS_Subset
<1> QED BY <1>2, FS_CardinalityType

LEMMA UsersFinite == \A f : IsFiniteSet(Users(f)) /\ Cardinality(Users(f)) \in Nat
BY CallsFinite DEF Users

LEMMA ShutdownKeeps ==
  ASSUME ObjInv, Shutdown
  PROVE  ObjInv'
<1> DEFINE late == {f \in Counted : refs[f] < Cardinality(ClassesIn(f))}
<1>1. CASE late # {}
  BY <1>1, FactoryAssumption, DieKeeps DEF Shutdown
<1>2. CASE late = {}
  <2>1. refs \in [Counted -> Nat]
    BY DEF ObjInv, TypeInv
  <2>2. \A f \in Counted : refs[f] - Cardinality(ClassesIn(f)) \in Nat
    BY <1>2, <2>1, RegistryFinite
  <2>3. refs' \in [Counted -> Nat]
    BY <1>2, <2>2 DEF Shutdown
  <2>4. CallsInv'
    BY <1>2 DEF Shutdown, ObjInv, CallsInv
  <2> QED BY <1>2, <2>3, <2>4 DEF Shutdown, ObjInv, TypeInv
<1> QED BY <1>1, <1>2

LEMMA ClientReleaseKeeps ==
  ASSUME ObjInv, NEW f \in Counted, ClientRelease(f)
  PROVE  ObjInv'
<1>1. CASE Destroyed(f)
  BY <1>1, DestroyedIsFactory, DieKeeps DEF ClientRelease
<1>2. CASE ~Destroyed(f)
  <2>1. refs' \in [Counted -> Nat]
    BY <1>2, RefsStay DEF ClientRelease
  <2>2. held' \in [Counted -> Nat]
    <3>1. held \in [Counted -> Nat] /\ held[f] > Cardinality(Users(f))
      BY DEF ClientRelease, ClientHolds, ObjInv, TypeInv
    <3>2. Cardinality(Users(f)) \in Nat
      BY UsersFinite
    <3>3. held[f] - 1 \in Nat
      BY <3>1, <3>2
    <3> QED BY <1>2, <3>1, <3>3 DEF ClientRelease
  <2>3. CallsInv'
    BY <1>2 DEF ClientRelease, ObjInv, CallsInv
  <2> QED BY <1>2, <2>1, <2>2, <2>3 DEF ClientRelease, ObjInv, TypeInv
<1> QED BY <1>1, <1>2

LEMMA ObjStep == ObjInv /\ [Next]_vars => ObjInv'
<1> SUFFICES ASSUME ObjInv, [Next]_vars PROVE ObjInv'
  OBVIOUS
<1>1. CASE UNCHANGED vars
  <2>1. TypeInv'
    BY <1>1 DEF vars, ObjInv, TypeInv
  <2>2. CallsInv'
    BY <1>1 DEF vars, ObjInv, CallsInv
  <2> QED BY <2>1, <2>2 DEF ObjInv
<1> QED
  BY <1>1, CreateKeeps, InstallKeeps, UninstallKeeps, ClientReleaseKeeps, ShutdownKeeps
  DEF Next

LEMMA ObjSafe == Spec => []ObjInv
BY ObjInit, ObjStep, PTL DEF Spec

(* NkOMCreateInstance leaves its caller exactly one reference when it      *)
(* succeeds and none when it fails, on all its exits, whatever other       *)
(* threads do to the registry.                                             *)
THEOREM ObjectCreateExact == Spec => []CreateExact
<1>1. ObjInv => CreateExact
  BY DEF ObjInv, CallsInv, Balanced, CreateExact
<1> QED BY <1>1, ObjSafe, PTL
-----------------------------------------------------------------------------
(***************************************************************************)
(* The references of a factory.  FactoryRefsExact is inductive by itself;  *)
(* that no destroyed factory is called needs two facts more.  The client   *)
(* that installs or uninstalls a factory holds a reference.  And a factory *)
(* whose AddRef() a query or an installation is about to call is in the    *)
(* registry or has leaked a reference, unless a class of it was erased     *)
(* since the lock was released.                                            *)
(***************************************************************************)
ClientsHold == \A f \in Counted : held[f] >= Cardinality(Users(f))

Covers(f) ==
  /\ Calls(f, {"found"}) \ raced # {} => ClassesIn(f) # {}
  /\ Cardinality(Calls(f, {"addref"}) \ raced) <= Cardinality(ClassesIn(f)) + skipped[f]

Covered == \A f \in Counted \ uninstalled : Covers(f)

(* Only an uninstallation erases classes.                                  *)
Erasing ==
  \A t \in Threads : call[t].op \in {"erase", "release", "last"} =>
    call[t].fac \in uninstalled

RefsInv == FactoryRefsExact /\ ClientsHold /\ Covered /\ Erasing /\ UseCause

One(b) == IF b THEN 1 ELSE 0

Creates(c, f) == c.fac = f /\ c.op \in {"create", "made"}

Adds(c, f) == c.fac = f /\ c.op = "addref"

Finds(c, f) == c.fac = f /\ c.op = "found"

Uses(c, f) == c.fac = f /\ c.op \in {"insert", "addref", "erase", "release", "last"}

(* The reference a call holds on f, or still has to take.                  *)
Owed(c, f) == IF Creates(c, f) THEN 1 ELSE IF Adds(c, f) THEN -1 ELSE 0

(* Over a step of thread t, the references of f change as those of the     *)
(* clients, its classes, its leaked references and the call of t do.       *)
Settles(t, f) ==
  refs'[f] - held'[f] - Cardinality(ClassesIn(f)') - skipped'[f] - Owed(call'[t], f)
    = refs[f] - held[f] - Cardinality(ClassesIn(f)) - skipped[f] - Owed(call[t], f)

(* Over a step of thread t, no client gives up the reference it needs.     *)
HoldsOn(t, f) ==
  \/ held'[f] >= held[f] /\ (Uses(call'[t], f) => Uses(call[t], f))
  \/ held'[f] = held[f] /\ held[f] > Cardinality(Users(f))

(* Two sets that differ in x at most.                                      *)
LEMMA CardMove ==
  ASSUME NEW S, NEW T, NEW x, IsFiniteSet(S), IsFiniteSet(T), S \ {x} = T \ {x}
  PROVE  /\ Cardinality(S) \in Nat /\ Cardinality(T) \in Nat
         /\ Cardinality(T) = Cardinality(S) + One(x \in T) - One(x \in S)
<1>1. Cardinality(S) \in Nat /\ Cardinality(T) \in Nat
  BY FS_CardinalityType
<1>2. Cardinality(S \ {x}) = Cardinality(S) - One(x \in S)
  BY <1>1, FS_RemoveElement DEF One
<1>3. Cardinality(T \ {x}) = Cardinality(T) - One(x \in T)
  BY <1>1, FS_RemoveElement DEF One
<1> QED BY <1>1, <1>2, <1>3 DEF One

(* What a step of thread t does to the number of calls in a stage.         *)
LEMMA CallsMove ==
  ASSUME NEW t \in Threads, \A u \in Threads \ {t} : call'[u] = call[u],
         NEW f, NEW ops
  PROVE  Cardinality(Calls(f, ops)') =
           Cardinality(Calls(f, ops))
             + One(call'[t].fac = f /\ call'[t].op \in ops)
             - One(call[t].fac = f /\ call[t].op \in ops)
<1> DEFINE S == Calls(f, ops)
           T == Calls(f, ops)'
<1>1. IsFiniteSet(S) /\ IsFiniteSet(T)
  <2>1. S \in SUBSET Threads /\ T \in SUBSET Threads
    BY DEF Calls
  <2> QED BY <2>1, FactoryAssumption, FS_Subset
<1>2. S \ {t} = T \ {t}
  BY DEF Calls
<1>3. /\ (t \in S) <=> (call[t].fac = f /\ call[t].op \in ops)
      /\ (t \in T) <=> (call'[t].fac = f /\ call'[t].op \in ops)
  BY DEF Calls
<1> HIDE DEF S, T
<1>4. Cardinality(T) = Cardinality(S) + One(t \in T) - One(t \in S)
  BY <1>1, <1>2, CardMove
<1>5. /\ One(t \in S) = One(call[t].fac = f /\ call[t].op \in ops)
      /\ One(t \in T) = One(call'[t].fac = f /\ call'[t].op \in ops)
  BY <1>3 DEF One
<1> QED BY <1>4, <1>5 DEF S, T

(* FactoryRefsExact for one factory, over a step of thread t.              *)
LEMMA ExactStep ==
  ASSUME ObjInv, ObjInv', FactoryRefsExact, NEW t \in Threads,
         \A u \in Threads \ {t} : call'[u] = call[u],
         NEW f \in Counted \ uninstalled,
         Settles(t, f)
  PROVE  refs'[f] = held'[f] + Cardinality(ClassesIn(f)') + skipped'[f]
                      + Cardinality(Calls(f, {"create", "made"})')
                      - Cardinality(Calls(f, {"addref"})')
<1> DEFINE c == Cardinality(Calls(f, {"create", "made"}))
           a == Cardinality(Calls(f, {"addref"}))
           k == Cardinality(ClassesIn(f))
           d == Cardinality(Calls(f, {"create", "made"})')
           b == Cardinality(Calls(f, {"addref"})')
           l == Cardinality(ClassesIn(f)')
           p == One(Creates(call[t], f))
           q == One(Creates(call'[t], f))
           r == One(Adds(call[t], f))
           s == One(Adds(call'[t], f))
<1>1. c \in Nat /\ a \in Nat /\ k \in Nat
  BY CallsFinite, RegistryFinite
<1>2. l \in Nat
  <2>1. ClassesIn(f)' \in SUBSET Classes
    BY DEF ClassesIn
  <2> QED BY <2>1, FactoryAssumption, FS_Subset, FS_CardinalityType
<1>3. d = c + q - p
  BY CallsMove DEF Creates
<1>4. b = a + s - r
  <2>1. /\ (call[t].op \in {"addref"}) <=> (call[t].op = "addref")
        /\ (call'[t].op \in {"addref"}) <=> (call'[t].op = "addref")
    OBVIOUS
  <2>2. b = a + One(call'[t].fac = f /\ call'[t].op \in {"addref"})
              - One(call[t].fac = f /\ call[t].op \in {"addref"})
    BY CallsMove
  <2> QED BY <2>1, <2>2 DEF Adds, One
<1>5. refs[f] = held[f] + k + skipped[f] + c - a
  BY DEF FactoryRefsExact
<1>6. refs[f] \in Nat /\ refs'[f] \in Nat /\ skipped[f] \in Nat /\ skipped'[f] \in Nat
      /\ held[f] \in Nat /\ held'[f] \in Nat
  BY DEF ObjInv, TypeInv
<1>7. p \in {0, 1} /\ q \in {0, 1} /\ r \in {0, 1} /\ s \in {0, 1}
  BY DEF One
<1>8. refs'[f] - held'[f] - l - skipped'[f] - q + s
        = refs[f] - held[f] - k - skipped[f] - p + r
  <2> DEFINE u == Owed(call[t], f)
             v == Owed(call'[t], f)
  <2>1. u = p - r /\ v = q - s
    BY DEF Owed, Creates, Adds, One
  <2>2. refs'[f] - held'[f] - l - skipped'[f] - v
          = refs[f] - held[f] - k - skipped[f] - u
    BY DEF Settles
  <2>3. u \in Int /\ v \in Int
    BY DEF Owed
  <2> HIDE DEF k, l, p, q, r, s, u, v
  <2> QED BY <1>1, <1>2, <1>6, <1>7, <2>1, <2>2, <2>3
<1> HIDE DEF a, b, c, d, k, l, p, q, r, s
<1>9. refs'[f] = held'[f] + l + skipped'[f] + (c + q - p) - (a + s - r)
  <2> DEFINE x == refs[f]
             y == refs'[f]
             z == skipped[f]
             w == skipped'[f]
             g == held[f]
             h == held'[f]
  <2>1. x \in Int /\ y \in Int /\ z \in Int /\ w \in Int /\ g \in Int /\ h \in Int
    BY <1>6
  <2>2. /\ c \in Int /\ a \in Int /\ k \in Int /\ l \in Int /\ p \in Int /\ q \in Int
        /\ r \in Int /\ s \in Int
    BY <1>1, <1>2, <1>7
  <2>3. /\ x = g + k + z + c - a
        /\ y - h - l - w - q + s = x - g - k - z - p + r
    BY <1>5, <1>8
  <2>4. y = h + l + w + (c + q - p) - (a + s - r)
    <3> HIDE DEF x, y, z, w, g, h
    <3> QED BY <2>1, <2>2, <2>3
  <2> QED BY <2>4
<1> QED BY <1>3, <1>4, <1>9 DEF l, d, b

(* A factory that is in use is there, unless it is being uninstalled or a  *)
(* thread lost the race for its AddRef().                                  *)
Used(f) ==
  \/ held[f] > 0 \/ Users(f) # {} \/ ClassesIn(f) # {}
  \/ Calls(f, {"found"}) # {} \/ Calls(f, {"create", "made"}) # {}

Lost(f) == f \in uninstalled \/ \E t \in raced : call[t].fac = f

LEMMA DestroyedCause ==
  ASSUME ObjInv, RefsInv, NEW f, Destroyed(f), Used(f)
  PROVE  Lost(f)
<1> SUFFICES ASSUME ~Lost(f) PROVE FALSE
  OBVIOUS
<1>0. f \in Counted \ uninstalled /\ refs[f] = 0
  BY DEF Destroyed, Lost
<1> DEFINE a == Cardinality(Calls(f, {"addref"}))
           c == Cardinality(Calls(f, {"create", "made"}))
           k == Cardinality(ClassesIn(f))
           u == Cardinality(Users(f))
<1>1. /\ a \in Nat /\ c \in Nat /\ k \in Nat /\ u \in Nat
      /\ held[f] \in Nat /\ skipped[f] \in Nat
  BY <1>0, CallsFinite, RegistryFinite, UsersFinite DEF ObjInv, TypeInv
<1>2. /\ (c = 0) => (Calls(f, {"create", "made"}) = {})
      /\ (k = 0) => (ClassesIn(f) = {})
      /\ (u = 0) => (Users(f) = {})
  <2>1. IsFiniteSet(Calls(f, {"create", "made"}))
    BY CallsFinite
  <2>2. IsFiniteSet(ClassesIn(f))
    BY <1>0, RegistryFinite
  <2>3. IsFiniteSet(Users(f))
    BY UsersFinite
  <2>4. (c = 0) => (Calls(f, {"create", "made"}) = {})
    BY <2>1, FS_EmptySet
  <2>5. (k = 0) => (ClassesIn(f) = {})
    BY <2>2, FS_EmptySet
  <2>6. (u = 0) => (Users(f) = {})
    BY <2>3, FS_EmptySet
  <2> QED BY <2>4, <2>5, <2>6
<1>3. \A ops : Calls(f, ops) \ raced = Calls(f, ops)
  BY DEF Lost, Calls
<1>4. a <= k + skipped[f] /\ (Calls(f, {"found"}) # {} => ClassesIn(f) # {})
  <2>1. Covers(f)
    BY <1>0 DEF RefsInv, Covered
  <2> QED BY <1>3, <2>1 DEF Covers
<1>5. a <= u
  <2>1. Calls(f, {"addref"}) \in SUBSET Users(f)
    BY DEF Calls, Users
  <2> QED BY <2>1, UsersFinite, FS_Subset
<1>6. u <= held[f]
  BY <1>0 DEF RefsInv, ClientsHold
<1>7. 0 = held[f] + k + skipped[f] + c - a
  BY <1>0 DEF RefsInv, FactoryRefsExact
<1>8. held[f] = 0 /\ c = 0 /\ u = 0 /\ k = 0
  <2> HIDE DEF a, c, k, u
  <2>1. held[f] = 0 /\ c = 0
    BY <1>1, <1>4, <1>7
  <2> QED BY <1>1, <1>5, <1>6, <1>7, <2>1
<1> QED BY <1>2, <1>4, <1>8 DEF Used

LEMMA DieRefs ==
  ASSUME ObjInv, RefsInv, NEW f, Lost(f), Die(f)
  PROVE  RefsInv'
<1>1. UNCHANGED <<classReg, refs, call, held, uninstalled, skipped, raced>> /\ dead' = f
  BY DEF Die
<1>2. FactoryRefsExact'
  BY <1>1 DEF RefsInv, FactoryRefsExact, Calls, ClassesIn
<1>3. ClientsHold' /\ Covered'
  BY <1>1 DEF RefsInv, ClientsHold, Covered, Covers, Users, Calls, ClassesIn
<1>4. Erasing' /\ UseCause'
  BY <1>1 DEF RefsInv, Erasing, UseCause, Lost
<1> QED BY <1>2, <1>3, <1>4 DEF RefsInv

(* A destroyed factory that a call in stage o works on.                    *)
LEMMA DestroyedInCall ==
  ASSUME ObjInv, RefsInv, NEW t \in Threads, Destroyed(call[t].fac),
         call[t].op \in {"found", "create", "made", "insert", "addref", "erase",
                         "release", "last"},
         Die(call[t].fac)
  PROVE  RefsInv'
<1>1. Used(call[t].fac)
  BY DEF Used, Users, Calls
<1> QED BY <1>1, DestroyedCause, DieRefs

LEMMA DestroyedHeld ==
  ASSUME ObjInv, RefsInv, NEW f, Destroyed(f), ClientHolds(f), Die(f)
  PROVE  RefsInv'
<1>1. f \in Counted /\ held[f] \in Nat /\ held[f] > Cardinality(Users(f))
  BY DEF Destroyed, ClientHolds, ObjInv, TypeInv
<1>2. held[f] > 0
  BY <1>1, UsersFinite
<1> QED BY <1>2, DestroyedCause, DieRefs DEF Used

(* The calls of f that wait for their AddRef(), over a step of thread t.   *)
LEMMA CoverStep ==
  ASSUME ObjInv, ObjInv', RefsInv, NEW t \in Threads,
         \A u \in Threads \ {t} : call'[u] = call[u],
         NEW f \in Counted \ uninstalled, raced \ {t} \subseteq raced',
         Cardinality(ClassesIn(f)') + skipped'[f]
           >= Cardinality(ClassesIn(f)) + skipped[f] + One(Adds(call'[t], f)),
         Finds(call'[t], f) \/ ClassesIn(f) # {} => ClassesIn(f)' # {}
  PROVE  Covers(f)'
<1>0. Covers(f)
  BY DEF RefsInv, Covered
<1>1. Calls(f, {"found"})' \ raced' # {} => ClassesIn(f)' # {}
  <2> SUFFICES ASSUME NEW u \in Calls(f, {"found"})', u \notin raced'
               PROVE  ClassesIn(f)' # {}
    OBVIOUS
  <2>1. CASE u = t
    BY <2>1 DEF Calls, Finds
  <2>2. CASE u # t
    <3>1. u \in Calls(f, {"found"}) \ raced
      BY <2>2 DEF Calls
    <3> QED BY <1>0, <3>1 DEF Covers
  <2> QED BY <2>1, <2>2
<1> DEFINE A == Calls(f, {"addref"}) \ raced
           B == Calls(f, {"addref"})' \ raced'
           k == Cardinality(ClassesIn(f))
           l == Cardinality(ClassesIn(f)')
<1>2. IsFiniteSet(A) /\ IsFiniteSet(B) /\ B \subseteq Threads
  <2>1. A \in SUBSET Threads /\ B \in SUBSET Threads
    BY DEF Calls
  <2> QED BY <2>1, FactoryAssumption, FS_Subset
<1>3. Cardinality(A) \in Nat /\ Cardinality(B) \in Nat
  BY <1>2, FS_CardinalityType
<1>4. Cardinality(B) <= Cardinality(A) + One(Adds(call'[t], f))
  <2>1. B \ {t} \subseteq A
    BY DEF Calls
  <2>2. t \in B => Adds(call'[t], f)
    BY DEF Calls, Adds
  <2> HIDE DEF A, B
  <2>3. CASE t \in B
    <3>1. B \in SUBSET (A \cup {t})
      BY <2>1
    <3>a. /\ IsFiniteSet(A \cup {t})
          /\ \/ Cardinality(A \cup {t}) = Cardinality(A)
             \/ Cardinality(A \cup {t}) = Cardinality(A) + 1
      BY <1>2, FS_AddElement
    <3>2. IsFiniteSet(A \cup {t}) /\ Cardinality(A \cup {t}) <= Cardinality(A) + 1
      BY <1>3, <3>a
    <3>3. Cardinality(B) <= Cardinality(A \cup {t})
      BY <3>1, <3>2, FS_Subset
    <3>4. Cardinality(A \cup {t}) \in Nat
      BY <3>2, FS_CardinalityType
    <3>5. One(Adds(call'[t], f)) = 1
      BY <2>2, <2>3 DEF One
    <3> QED BY <1>3, <3>2, <3>3, <3>4, <3>5
  <2>4. CASE t \notin B
    <3>1. B \in SUBSET A
      BY <2>1, <2>4
    <3>2. Cardinality(B) <= Cardinality(A)
      BY <1>2, <3>1, FS_Subset
    <3> QED BY <1>3, <3>2 DEF One
  <2> QED BY <2>3, <2>4
<1>5. Cardinality(A) <= k + skipped[f]
  BY <1>0 DEF Covers
<1>6. /\ k \in Nat /\ l \in Nat /\ skipped[f] \in Nat /\ skipped'[f] \in Nat
      /\ One(Adds(call'[t], f)) \in Nat
  <2>1. ClassesIn(f)' \in SUBSET Classes
    BY DEF ClassesIn
  <2>2. l \in Nat
    BY <2>1, FactoryAssumption, FS_Subset, FS_CardinalityType
  <2> QED BY <2>2, RegistryFinite DEF ObjInv, TypeInv, One
<1>7. Cardinality(B) <= l + skipped'[f]
  <2> HIDE DEF A, B
  <2>1. l + skipped'[f] >= k + skipped[f] + One(Adds(call'[t], f))
    OBVIOUS
  <2> HIDE DEF k, l
  <2> QED BY <1>3, <1>4, <1>5, <1>6, <2>1
<1> QED BY <1>1, <1>7 DEF Covers

(* A step of thread t that calls no destroyed factory.                     *)
LEMMA RefsStep ==
  ASSUME ObjInv, ObjInv', RefsInv, Alive, NEW t \in Threads,
         \A u \in Threads \ {t} : call'[u] = call[u],
         uninstalled \subseteq uninstalled', dead' = dead,
         \A f \in Counted \ uninstalled' : Settles(t, f),
         \A f \in Counted : HoldsOn(t, f),
         \A f \in Counted \ uninstalled' : Covers(f)',
         call'[t].op \in {"erase", "release", "last"} => call'[t].fac \in uninstalled'
  PROVE  RefsInv'
<1>1. FactoryRefsExact'
  <2> SUFFICES ASSUME NEW f \in Counted \ uninstalled'
               PROVE  refs'[f] = held'[f] + Cardinality(ClassesIn(f)') + skipped'[f]
                                   + Cardinality(Calls(f, {"create", "made"})')
                                   - Cardinality(Calls(f, {"addref"})')
    BY DEF FactoryRefsExact
  <2> QED BY ExactStep DEF RefsInv
<1>2. ClientsHold'
  <2> SUFFICES ASSUME NEW f \in Counted PROVE held'[f] >= Cardinality(Users(f)')
    BY DEF ClientsHold
  <2>1. Cardinality(Users(f)') = Cardinality(Users(f)) + One(Uses(call'[t], f))
                                   - One(Uses(call[t], f))
    BY CallsMove DEF Users, Uses
  <2>2. /\ held[f] \in Nat /\ held'[f] \in Nat /\ Cardinality(Users(f)) \in Nat
        /\ held[f] >= Cardinality(Users(f))
    BY UsersFinite DEF ObjInv, TypeInv, RefsInv, ClientsHold
  <2>3. HoldsOn(t, f)
    OBVIOUS
  <2> QED BY <2>1, <2>2, <2>3 DEF HoldsOn, One
<1>3. Covered'
  BY DEF Covered
<1>4. Erasing'
  BY DEF RefsInv, Erasing
<1>5. UseCause'
  BY DEF UseCause, Alive
<1> QED BY <1>1, <1>2, <1>3, <1>4, <1>5 DEF RefsInv

LEMMA HoldsSame ==
  ASSUME ObjInv, NEW t \in Threads, held' = held,
         \/ call'[t].op \notin {"insert", "addref", "erase", "release", "last"}
         \/ /\ call'[t].fac = call[t].fac
            /\ call[t].op \in {"insert", "addref", "erase", "release", "last"}
  PROVE  \A f \in Counted : HoldsOn(t, f)
<1> TAKE f \in Counted
<1>1. held[f] \in Nat /\ held'[f] = held[f]
  BY DEF ObjInv, TypeInv
<1>2. Uses(call'[t], f) => Uses(call[t], f)
  BY DEF Uses
<1> QED BY <1>1, <1>2 DEF HoldsOn

(* A step that leaves the registry alone and waits for no AddRef().        *)
LEMMA PlainStep ==
  ASSUME ObjInv, ObjInv', RefsInv, Alive, NEW t \in Threads,
         \A u \in Threads \ {t} : call'[u] = call[u],
         uninstalled \subseteq uninstalled', dead' = dead, classReg' = classReg,
         \A f \in Counted \ uninstalled' : skipped'[f] = skipped[f],
         raced \ {t} \subseteq raced', call'[t].op \notin {"found", "addref"},
         \A f \in Counted \ uninstalled' : Settles(t, f),
         \A f \in Counted : HoldsOn(t, f),
         call'[t].op \in {"erase", "release", "last"} => call'[t].fac \in uninstalled'
  PROVE  RefsInv'
<1>1. \A f \in Counted \ uninstalled' : Covers(f)'
  <2> TAKE f \in Counted \ uninstalled'
  <2>1. ClassesIn(f)' = ClassesIn(f) /\ skipped'[f] = skipped[f]
    BY DEF ClassesIn
  <2>2. ~Adds(call'[t], f) /\ ~Finds(call'[t], f)
    BY DEF Adds, Finds
  <2>3. Cardinality(ClassesIn(f)) \in Nat /\ skipped[f] \in Nat
    BY RegistryFinite DEF ObjInv, TypeInv
  <2>4. Cardinality(ClassesIn(f)') + skipped'[f]
          >= Cardinality(ClassesIn(f)) + skipped[f] + One(Adds(call'[t], f))
    BY <2>1, <2>2, <2>3 DEF One
  <2> QED BY <2>1, <2>2, <2>4, CoverStep
<1> QED BY <1>1, RefsStep

(* A step that leaves the registry and the factories alone.                *)
LEMMA QuietStep ==
  ASSUME ObjInv, ObjInv', RefsInv, Alive, NEW t \in Threads,
         \A u \in Threads \ {t} : call'[u] = call[u],
         UNCHANGED <<classReg, refs, dead, held, uninstalled, skipped, raced>>,
         \A f \in Counted : Owed(call'[t], f) = Owed(call[t], f),
         \A f \in Counted : HoldsOn(t, f),
         call'[t].op \notin {"found", "addref", "erase", "release", "last"}
  PROVE  RefsInv'
<1>1. \A f \in Counted : ClassesIn(f)' = ClassesIn(f)
  BY DEF ClassesIn
<1>2. \A f \in Counted \ uninstalled' : Settles(t, f)
  BY <1>1 DEF Settles
<1> QED BY <1>2, PlainStep

LEMMA MovedTo ==
  ASSUME ObjInv, NEW t \in Threads, NEW o, Goto(t, o)
  PROVE  /\ call'[t].op = o /\ call'[t].fac = call[t].fac
         /\ \A u \in Threads \ {t} : call'[u] = call[u]
<1>1. call \in [Threads -> CallType] /\ call[t] \in CallType
  BY DEF ObjInv, TypeInv
<1>2. call'[t] = [call[t] EXCEPT !.op = o]
  BY <1>1 DEF Goto
<1>3. \A u \in Threads \ {t} : call'[u] = call[u]
  BY <1>1 DEF Goto
<1>4. call'[t].op = o /\ call'[t].fac = call[t].fac
  BY <1>1, <1>2 DEF CallType
<1> QED BY <1>3, <1>4

LEMMA LeftCall ==
  ASSUME ObjInv, NEW t \in Threads, Leave(t)
  PROVE  /\ call'[t].op = "none"
         /\ \A u \in Threads \ {t} : call'[u] = call[u]
<1>1. call \in [Threads -> CallType]
  BY DEF ObjInv, TypeInv
<1>2. call'[t] = NoCall
  BY <1>1 DEF Leave
<1> QED BY <1>1, <1>2, NoCallType DEF Leave

LEMMA Begun ==
  ASSUME ObjInv, NEW t \in Threads, NEW f \in Factories, NEW o \in Ops, Begin(t, o, f)
  PROVE  /\ call[t].op = "none" /\ call'[t].op = o /\ call'[t].fac = f
         /\ \A u \in Threads \ {t} : call'[u] = call[u]
<1>1. call \in [Threads -> CallType]
  BY DEF ObjInv, TypeInv
<1>2. call'[t] = [NoCall EXCEPT !.op = o, !.fac = f, !.i = 1] /\ call[t] = NoCall
  BY <1>1 DEF Begin
<1>3. \A u \in Threads \ {t} : call'[u] = call[u]
  BY <1>1 DEF Begin
<1> DEFINE n == [NoCall EXCEPT !.op = o, !.fac = f, !.i = 1]
<1>4. n.op = o /\ n.fac = f
  BY NewCall
<1>5. NoCall.op = "none"
  BY NoCallType
<1> HIDE DEF n
<1>6. call'[t] = n
  BY <1>2 DEF n
<1> QED BY <1>2, <1>3, <1>4, <1>5, <1>6

(* The references of a factory after AddRef() and Release().               *)
LEMMA Counting ==
  ASSUME ObjInv, NEW f, NEW h \in Counted
  PROVE  /\ refs[h] \in Nat
         /\ AddRef(f) => refs'[h] = IF h = f THEN refs[h] + 1 ELSE refs[h]
         /\ Release(f) => refs'[h] = IF h = f THEN refs[h] - 1 ELSE refs[h]
<1>1. refs \in [Counted -> Nat]
  BY DEF ObjInv, TypeInv
<1> QED BY <1>1 DEF AddRef, Release

LEMMA CreateRefs ==
  ASSUME ObjInv, ObjInv', RefsInv, NEW t \in Threads, CreateInstance(t)
  PROVE  RefsInv'
<1> DEFINE f == call[t].fac
<1>0. /\ call[t] \in CallType /\ call \in [Threads -> CallType]
      /\ call'[t] \in CallType
  BY DEF ObjInv, TypeInv
<1>k. classReg' = classReg => \A h \in Counted : ClassesIn(h)' = ClassesIn(h)
  BY DEF ClassesIn
<1>n. \A h \in Counted : /\ Cardinality(ClassesIn(h)) \in Nat /\ skipped[h] \in Nat
                         /\ held[h] \in Nat /\ refs[h] \in Nat
  BY RegistryFinite DEF ObjInv, TypeInv
<1>1. ASSUME NEW c \in Classes, QueryFactory(t, c) PROVE RefsInv'
  <2>1. classReg[c] \in Factories
    BY <1>1 DEF QueryFactory, ObjInv, TypeInv
  <2>2. /\ call[t].op = "none" /\ call'[t].op = "found" /\ call'[t].fac = classReg[c]
        /\ \A u \in Threads \ {t} : call'[u] = call[u]
    BY <1>1, <2>1, OpNames, Begun DEF QueryFactory
  <2>3. Alive /\ UNCHANGED <<classReg, refs, dead, held, uninstalled, skipped, raced>>
    BY <1>1 DEF QueryFactory, Begin
  <2>4. \A h \in Counted \ uninstalled' : Settles(t, h)
    <3> TAKE h \in Counted \ uninstalled'
    <3>1. Owed(call'[t], h) = Owed(call[t], h)
      BY <2>2 DEF Owed, Creates, Adds
    <3> QED BY <1>k, <2>3, <3>1 DEF Settles
  <2>5. \A h \in Counted \ uninstalled' : Covers(h)'
    <3> TAKE h \in Counted \ uninstalled'
    <3>1. ClassesIn(h)' = ClassesIn(h) /\ skipped'[h] = skipped[h]
      BY <1>k, <2>3
    <3>2. ~Adds(call'[t], h)
      BY <2>2 DEF Adds
    <3>3. Finds(call'[t], h) => ClassesIn(h) # {}
      BY <2>2 DEF Finds, ClassesIn
    <3>4. Cardinality(ClassesIn(h)') + skipped'[h]
            >= Cardinality(ClassesIn(h)) + skipped[h] + One(Adds(call'[t], h))
      BY <1>n, <3>1, <3>2 DEF One
    <3> QED BY <2>2, <2>3, <3>1, <3>3, <3>4, CoverStep
  <2>6. \A h \in Counted : HoldsOn(t, h)
    BY <2>2, <2>3, HoldsSame
  <2> QED BY <2>2, <2>3, <2>4, <2>5, <2>6, RefsStep
<1>2. ASSUME QueryAddRef(t) PROVE RefsInv'
  <2>1. CASE Destroyed(f)
    BY <1>2, <2>1, DestroyedInCall DEF QueryAddRef, At
  <2>2. CASE ~Destroyed(f)
    <3>1. /\ Alive /\ call[t].op = "found" /\ AddRef(f) /\ Goto(t, "create")
          /\ raced' = raced \ {t}
          /\ UNCHANGED <<classReg, dead, held, uninstalled, skipped>>
      BY <1>2, <2>2 DEF QueryAddRef, At
    <3>2. /\ call'[t].op = "create" /\ call'[t].fac = f
          /\ \A u \in Threads \ {t} : call'[u] = call[u]
      BY <3>1, MovedTo
    <3>3. \A h \in Counted \ uninstalled' : Settles(t, h)
      <4> TAKE h \in Counted \ uninstalled'
      <4>1. Owed(call[t], h) = 0 /\ Owed(call'[t], h) = IF h = f THEN 1 ELSE 0
        BY <3>1, <3>2 DEF Owed, Creates, Adds
      <4>2. refs'[h] = (IF h = f THEN refs[h] + 1 ELSE refs[h]) /\ refs[h] \in Nat
        BY <3>1, Counting
      <4> QED BY <1>k, <1>n, <3>1, <4>1, <4>2 DEF Settles
    <3>4. \A h \in Counted : HoldsOn(t, h)
      BY <3>1, <3>2, HoldsSame
    <3> QED BY <3>1, <3>2, <3>3, <3>4, PlainStep
  <2> QED BY <2>1, <2>2
<1>3. ASSUME FactoryCreate(t) PROVE RefsInv'
  <2>1. CASE Destroyed(f)
    BY <1>3, <2>1, DestroyedInCall DEF FactoryCreate, At
  <2>2. CASE ~Destroyed(f)
    <3>1. PICK n \in {0, 1} : call' = [call EXCEPT ![t].op = "made", ![t].obj = n]
      BY <1>3, <2>2 DEF FactoryCreate
    <3>2. \A u \in Threads \ {t} : call'[u] = call[u]
      BY <1>0, <3>1
    <3>3. call'[t] = [call[t] EXCEPT !.op = "made", !.obj = n]
      BY <1>0, <3>1
    <3>4. call'[t].op = "made" /\ call'[t].fac = f
      BY <1>0, <3>3 DEF CallType
    <3>5. call[t].op = "create"
      BY <1>3 DEF FactoryCreate, At
    <3>6. \A h \in Counted : Owed(call'[t], h) = Owed(call[t], h)
      BY <3>4, <3>5 DEF Owed, Creates, Adds
    <3>7. Alive /\ UNCHANGED <<classReg, refs, dead, held, uninstalled, skipped, raced>>
      BY <1>3, <2>2 DEF FactoryCreate, At
    <3>8. \A h \in Counted : HoldsOn(t, h)
      BY <3>4, <3>7, HoldsSame
    <3> QED BY <3>2, <3>4, <3>6, <3>7, <3>8, QuietStep
  <2> QED BY <2>1, <2>2
<1>4. ASSUME FactoryRelease(t) PROVE RefsInv'
  <2>1. CASE Destroyed(f)
    BY <1>4, <2>1, DestroyedInCall DEF FactoryRelease, At
  <2>2. CASE ~Destroyed(f)
    <3>1. /\ Alive /\ call[t].op = "made" /\ Release(f)
          /\ Goto(t, IF call[t].obj = 1 THEN "init" ELSE "created")
          /\ UNCHANGED <<classReg, dead, held, uninstalled, skipped, raced>>
      BY <1>4, <2>2 DEF FactoryRelease, At
    <3>2. /\ call'[t].op \in {"init", "created"} /\ call'[t].fac = f
          /\ \A u \in Threads \ {t} : call'[u] = call[u]
      BY <3>1, MovedTo
    <3>3. \A h \in Counted \ uninstalled' : Settles(t, h)
      <4> TAKE h \in Counted \ uninstalled'
      <4>1. Owed(call'[t], h) = 0 /\ Owed(call[t], h) = IF h = f THEN 1 ELSE 0
        BY <3>1, <3>2 DEF Owed, Creates, Adds
      <4>2. refs'[h] = (IF h = f THEN refs[h] - 1 ELSE refs[h]) /\ refs[h] \in Nat
        BY <3>1, Counting
      <4> QED BY <1>k, <1>n, <3>1, <4>1, <4>2 DEF Settles
    <3>4. \A h \in Counted : HoldsOn(t, h)
      BY <3>1, <3>2, HoldsSame
    <3> QED BY <3>1, <3>2, <3>3, <3>4, PlainStep
  <2> QED BY <2>1, <2>2
<1>5. ASSUME InitInstance(t) \/ QueryInstance(t) PROVE RefsInv'
  <2>1. call[t].op \in {"init", "query"}
    BY <1>5 DEF InitInstance, QueryInstance, At
  <2>2. \A u \in Threads \ {t} : call'[u] = call[u]
    BY <1>0, <1>5 DEF InitInstance, QueryInstance, InitFails, InitSucceeds
  <2>3. call'[t].op \in {"query", "created"}
    <3>1. CASE InitFails(t)
      BY <1>0, <3>1 DEF InitFails, CallType
    <3>2. CASE InitSucceeds(t)
      BY <1>0, <3>2 DEF InitSucceeds, CallType
    <3>3. CASE QueryInstance(t)
      <4>1. PICK ok \in BOOLEAN :
          call' = [call EXCEPT ![t].op = "created", ![t].ok = ok,
                               ![t].obj = (IF ok THEN @ + 1 ELSE @) - 1]
        BY <3>3 DEF QueryInstance
      <4> QED BY <1>0, <4>1 DEF CallType
    <3> QED BY <1>5, <3>1, <3>2, <3>3 DEF InitInstance
  <2>4. \A h \in Counted : Owed(call'[t], h) = Owed(call[t], h)
    BY <2>1, <2>3 DEF Owed, Creates, Adds
  <2>5. Alive /\ UNCHANGED <<classReg, refs, dead, held, uninstalled, skipped, raced>>
    BY <1>5 DEF InitInstance, QueryInstance, At
  <2>6. \A h \in Counted : HoldsOn(t, h)
    BY <2>3, <2>5, HoldsSame
  <2> QED BY <2>2, <2>3, <2>4, <2>5, <2>6, QuietStep
<1>6. ASSUME CreateReturn(t) PROVE RefsInv'
  <2>1. call[t].op = "created" /\ Leave(t)
    BY <1>6 DEF CreateReturn, At
  <2>2. call'[t].op = "none" /\ \A u \in Threads \ {t} : call'[u] = call[u]
    BY <2>1, LeftCall
  <2>3. \A h \in Counted : Owed(call'[t], h) = Owed(call[t], h)
    BY <2>1, <2>2 DEF Owed, Creates, Adds
  <2>4. Alive /\ UNCHANGED <<classReg, refs, dead, held, uninstalled, skipped, raced>>
    BY <1>6 DEF CreateReturn, At
  <2>5. \A h \in Counted : HoldsOn(t, h)
    BY <2>2, <2>4, HoldsSame
  <2> QED BY <2>2, <2>3, <2>4, <2>5, QuietStep
<1>7. ASSUME QueryReturn(t) PROVE RefsInv'
  <2>1. /\ Alive /\ call[t].op = "create" /\ Leave(t)
        /\ held' = (IF f \in Counted THEN [held EXCEPT ![f] = @ + 1] ELSE held)
        /\ UNCHANGED <<classReg, refs, dead, uninstalled, skipped, raced>>
    BY <1>7 DEF QueryReturn, At
  <2>2. call'[t].op = "none" /\ \A u \in Threads \ {t} : call'[u] = call[u]
    BY <2>1, LeftCall
  <2>3. \A h \in Counted : held'[h] = IF h = f THEN held[h] + 1 ELSE held[h]
    BY <2>1 DEF ObjInv, TypeInv
  <2>4. \A h \in Counted \ uninstalled' : Settles(t, h)
    <3> TAKE h \in Counted \ uninstalled'
    <3>1. Owed(call'[t], h) = 0 /\ Owed(call[t], h) = IF h = f THEN 1 ELSE 0
      BY <2>1, <2>2 DEF Owed, Creates, Adds
    <3> QED BY <1>k, <1>n, <2>1, <2>3, <3>1 DEF Settles
  <2>5. \A h \in Counted : HoldsOn(t, h)
    BY <1>n, <2>2, <2>3 DEF HoldsOn, Uses
  <2> QED BY <2>1, <2>2, <2>4, <2>5, PlainStep
<1> QED
  BY <1>1, <1>2, <1>3, <1>4, <1>5, <1>6, <1>7 DEF CreateInstance

(* What the registration of a class does to the classes of a factory.      *)
LEMMA ClassesMove ==
  ASSUME NEW c \in Classes, \A d \in Classes \ {c} : classReg'[d] = classReg[d], NEW f
  PROVE  /\ Cardinality(ClassesIn(f)) \in Nat /\ Cardinality(ClassesIn(f)') \in Nat
         /\ Cardinality(ClassesIn(f)') =
              Cardinality(ClassesIn(f)) + (IF classReg'[c] = f THEN 1 ELSE 0)
                                        - (IF classReg[c] = f THEN 1 ELSE 0)
<1> DEFINE S == ClassesIn(f)
           T == ClassesIn(f)'
<1>1. IsFiniteSet(S) /\ IsFiniteSet(T)
  <2>1. S \in SUBSET Classes /\ T \in SUBSET Classes
    BY DEF ClassesIn
  <2> QED BY <2>1, FactoryAssumption, FS_Subset
<1>2. S \ {c} = T \ {c}
  BY DEF ClassesIn
<1>3. (c \in S <=> classReg[c] = f) /\ (c \in T <=> classReg'[c] = f)
  BY DEF ClassesIn
<1> HIDE DEF S, T
<1>4. /\ Cardinality(T) = Cardinality(S) + One(c \in T) - One(c \in S)
      /\ Cardinality(S) \in Nat /\ Cardinality(T) \in Nat
  BY <1>1, <1>2, CardMove
<1>5. /\ One(c \in S) = (IF classReg[c] = f THEN 1 ELSE 0)
      /\ One(c \in T) = (IF classReg'[c] = f THEN 1 ELSE 0)
  BY <1>3 DEF One
<1> QED BY <1>4, <1>5 DEF S, T

LEMMA InstallRefsKeep ==
  ASSUME ObjInv, ObjInv', RefsInv, NEW t \in Threads, Install(t)
  PROVE  RefsInv'
<1> DEFINE fac == call[t].fac
<1>0. /\ call[t] \in CallType /\ call \in [Threads -> CallType]
      /\ call'[t] \in CallType /\ skipped \in [Counted -> Nat]
      /\ classReg \in [Classes -> Factories \cup {NULL}]
  BY DEF ObjInv, TypeInv
<1>k. classReg' = classReg => \A h \in Counted : ClassesIn(h)' = ClassesIn(h)
  BY DEF ClassesIn
<1>n. \A h \in Counted : /\ Cardinality(ClassesIn(h)) \in Nat
                         /\ skipped[h] \in Nat /\ refs[h] \in Nat /\ held[h] \in Nat
  BY RegistryFinite DEF ObjInv, TypeInv
<1>c. \A h \in Counted : h # NULL
  BY FactoryAssumption
<1>1. ASSUME NEW f \in Factories, InstallBegin(t, f) PROVE RefsInv'
  <2>1. CASE Destroyed(f)
    BY <1>1, <2>1, DestroyedHeld DEF InstallBegin
  <2>2. CASE ~Destroyed(f)
    <3>1. /\ call[t].op = "none" /\ call'[t].op = "insert" /\ call'[t].fac = f
          /\ \A u \in Threads \ {t} : call'[u] = call[u]
      BY <1>1, <2>2, OpNames, Begun DEF InstallBegin
    <3>2. \A h \in Counted : Owed(call'[t], h) = Owed(call[t], h)
      BY <3>1 DEF Owed, Creates, Adds
    <3>3. /\ Alive /\ UNCHANGED <<classReg, refs, dead, held, uninstalled, skipped, raced>>
          /\ ClientHolds(f)
      BY <1>1, <2>2 DEF InstallBegin, Begin
    <3>4. \A h \in Counted : HoldsOn(t, h)
      BY <1>n, <3>1, <3>3 DEF HoldsOn, Uses, ClientHolds
    <3> QED BY <3>1, <3>2, <3>3, <3>4, QuietStep
  <2> QED BY <2>1, <2>2
<1>2. ASSUME InstallInsert(t) PROVE RefsInv'
  <2> DEFINE c == Class(t)
  <2>1. /\ Alive /\ call[t].op = "insert" /\ Goto(t, "addref")
        /\ UNCHANGED <<refs, dead, held, uninstalled, raced>>
    BY <1>2 DEF InstallInsert, At
  <2>2. fac \in Factories /\ c \in Classes
    BY <2>1, ClassInRange
  <2>3. /\ call'[t].op = "addref" /\ call'[t].fac = fac
        /\ \A u \in Threads \ {t} : call'[u] = call[u]
    BY <2>1, MovedTo
  <2>4. \A h : Owed(call[t], h) = 0 /\ Owed(call'[t], h) = IF h = fac THEN -1 ELSE 0
    BY <2>1, <2>3 DEF Owed, Creates, Adds
  <2>h. \A h \in Counted : HoldsOn(t, h)
    BY <2>1, <2>3, HoldsSame
  <2>a. \A h : One(Adds(call'[t], h)) = (IF h = fac THEN 1 ELSE 0) /\ ~Finds(call'[t], h)
    BY <2>3 DEF One, Adds, Finds
  <2>5. CASE classReg[c] = NULL
    <3>1. classReg' = [classReg EXCEPT ![c] = fac] /\ skipped' = skipped
      BY <1>2, <2>5 DEF InstallInsert
    <3>2. classReg'[c] = fac /\ \A d \in Classes \ {c} : classReg'[d] = classReg[d]
      BY <1>0, <2>2, <3>1
    <3>3. \A h \in Counted \ uninstalled' : Settles(t, h)
      <4> TAKE h \in Counted \ uninstalled'
      <4>1. Cardinality(ClassesIn(h)') =
              Cardinality(ClassesIn(h)) + (IF fac = h THEN 1 ELSE 0)
                                        - (IF classReg[c] = h THEN 1 ELSE 0)
        BY <2>2, <3>2, ClassesMove
      <4> QED BY <1>n, <1>c, <2>1, <2>4, <2>5, <3>1, <4>1 DEF Settles
    <3>4. \A h \in Counted \ uninstalled' : Covers(h)'
      <4> TAKE h \in Counted \ uninstalled'
      <4>1. Cardinality(ClassesIn(h)') = Cardinality(ClassesIn(h)) + (IF fac = h THEN 1 ELSE 0)
        <5>1. Cardinality(ClassesIn(h)') =
                Cardinality(ClassesIn(h)) + (IF fac = h THEN 1 ELSE 0)
                                          - (IF classReg[c] = h THEN 1 ELSE 0)
          BY <2>2, <3>2, ClassesMove
        <5> QED BY <1>n, <1>c, <2>5, <5>1
      <4>2. ClassesIn(h) \subseteq ClassesIn(h)'
        BY <1>c, <2>5, <3>2 DEF ClassesIn
      <4>3. Cardinality(ClassesIn(h)') + skipped'[h]
              >= Cardinality(ClassesIn(h)) + skipped[h] + One(Adds(call'[t], h))
        BY <1>n, <2>a, <3>1, <4>1
      <4> QED BY <2>1, <2>3, <2>a, <4>2, <4>3, CoverStep
    <3> QED BY <2>1, <2>3, <2>h, <3>3, <3>4, RefsStep
  <2>6. CASE classReg[c] # NULL
    <3>1. /\ classReg' = classReg
          /\ skipped' = IF fac \in Counted \ uninstalled
                        THEN [skipped EXCEPT ![fac] = @ + 1] ELSE skipped
      BY <1>2, <2>6 DEF InstallInsert
    <3>2. \A h \in Counted \ uninstalled' :
            skipped'[h] = IF h = fac THEN skipped[h] + 1 ELSE skipped[h]
      BY <1>0, <2>1, <3>1
    <3>3. \A h \in Counted \ uninstalled' : Settles(t, h)
      <4> TAKE h \in Counted \ uninstalled'
      <4>1. ClassesIn(h)' = ClassesIn(h)
        BY <1>k, <3>1
      <4>2. skipped'[h] = IF h = fac THEN skipped[h] + 1 ELSE skipped[h]
        BY <3>2
      <4> QED BY <1>n, <2>1, <2>4, <4>1, <4>2 DEF Settles
    <3>4. \A h \in Counted \ uninstalled' : Covers(h)'
      <4> TAKE h \in Counted \ uninstalled'
      <4>1. ClassesIn(h)' = ClassesIn(h)
        BY <1>k, <3>1
      <4>2. skipped'[h] = IF h = fac THEN skipped[h] + 1 ELSE skipped[h]
        BY <3>2
      <4>3. Cardinality(ClassesIn(h)') + skipped'[h]
              >= Cardinality(ClassesIn(h)) + skipped[h] + One(Adds(call'[t], h))
        BY <1>n, <2>a, <4>1, <4>2
      <4> QED BY <2>1, <2>3, <2>a, <4>1, <4>3, CoverStep
    <3> QED BY <2>1, <2>3, <2>h, <3>3, <3>4, RefsStep
  <2> QED BY <2>5, <2>6
<1>3. ASSUME InstallFails(t) PROVE RefsInv'
  <2>1. Alive /\ call[t].op = "insert" /\ UNCHANGED <<classReg, refs, held, raced>>
    BY <1>3 DEF InstallFails, At
  <2>2. fac \in Factories
    BY <2>1, ClassInRange
  <2>3. CASE call[t].i = 1
    <3>1. Leave(t) /\ UNCHANGED <<dead, uninstalled, skipped>>
      BY <1>3, <2>3 DEF InstallFails
    <3>2. call'[t].op = "none" /\ \A u \in Threads \ {t} : call'[u] = call[u]
      BY <3>1, LeftCall
    <3>3. \A h \in Counted : Owed(call'[t], h) = Owed(call[t], h)
      BY <2>1, <3>2 DEF Owed, Creates, Adds
    <3>4. \A h \in Counted : HoldsOn(t, h)
      BY <2>1, <3>2, HoldsSame
    <3> QED BY <2>1, <3>1, <3>2, <3>3, <3>4, QuietStep
  <2>4. CASE call[t].i # 1 /\ Destroyed(fac)
    <3>1. Die(fac)
      BY <1>3, <2>4 DEF InstallFails, Die
    <3> QED BY <2>1, <2>4, <3>1, DestroyedInCall
  <2>5. CASE call[t].i # 1 /\ ~Destroyed(fac)
    <3>1. /\ call' = [call EXCEPT ![t].op = "erase", ![t].i = 1]
          /\ Uninstalled(fac) /\ dead' = dead
      BY <1>3, <2>5 DEF InstallFails
    <3>2. \A u \in Threads \ {t} : call'[u] = call[u]
      BY <1>0, <3>1
    <3>3. call'[t] = [call[t] EXCEPT !.op = "erase", !.i = 1]
      BY <1>0, <3>1
    <3>4. call'[t].op = "erase" /\ call'[t].fac = fac
      BY <1>0, <3>3 DEF CallType
    <3>5. uninstalled' = uninstalled \cup {fac}
      BY <3>1 DEF Uninstalled
    <3>6. \A h \in Counted \ uninstalled' : Settles(t, h)
      <4> TAKE h \in Counted \ uninstalled'
      <4>1. skipped'[h] = skipped[h]
        BY <3>1, <3>5 DEF Uninstalled
      <4>2. Owed(call[t], h) = 0 /\ Owed(call'[t], h) = 0
        BY <2>1, <3>4 DEF Owed, Creates, Adds
      <4> QED BY <1>k, <2>1, <4>1, <4>2 DEF Settles
    <3>7. \A h \in Counted : HoldsOn(t, h)
      BY <2>1, <3>4, HoldsSame
    <3>8. uninstalled \subseteq uninstalled' /\ call'[t].fac \in uninstalled' /\ dead' = dead
      BY <3>1, <3>4, <3>5
    <3>9. \A h \in Counted \ uninstalled' : skipped'[h] = skipped[h]
      BY <3>1, <3>5 DEF Uninstalled
    <3> QED BY <2>1, <3>2, <3>4, <3>6, <3>7, <3>8, <3>9, PlainStep
  <2> QED BY <2>3, <2>4, <2>5
<1>4. ASSUME InstallAddRef(t) PROVE RefsInv'
  <2>1. call[t].op = "addref"
    BY <1>4 DEF InstallAddRef, At
  <2>2. CASE Destroyed(fac)
    BY <1>4, <2>1, <2>2, DestroyedInCall DEF InstallAddRef
  <2>3. CASE ~Destroyed(fac)
    <3>1. /\ Alive /\ AddRef(fac) /\ raced' = raced \ {t}
          /\ UNCHANGED <<classReg, dead, held, uninstalled, skipped>>
      BY <1>4, <2>3 DEF InstallAddRef, InstallRefs, At
    <3>2. /\ call'[t].op \in {"none", "insert"}
          /\ call'[t].op = "insert" => call'[t].fac = fac
          /\ \A u \in Threads \ {t} : call'[u] = call[u]
      <4>1. CASE Leave(t)
        BY <4>1, LeftCall
      <4>2. CASE call' = [call EXCEPT ![t].op = "insert", ![t].i = call[t].i + 1]
        <5>1. call'[t] = [call[t] EXCEPT !.op = "insert", !.i = call[t].i + 1]
          BY <1>0, <4>2
        <5>2. call'[t].op = "insert" /\ call'[t].fac = fac
          BY <1>0, <5>1 DEF CallType
        <5> QED BY <1>0, <4>2, <5>2
      <4> QED BY <1>4, <2>3, <4>1, <4>2 DEF InstallAddRef
    <3>3. \A h \in Counted \ uninstalled' : Settles(t, h)
      <4> TAKE h \in Counted \ uninstalled'
      <4>1. Owed(call'[t], h) = 0 /\ Owed(call[t], h) = IF h = fac THEN -1 ELSE 0
        BY <2>1, <3>2 DEF Owed, Creates, Adds
      <4>2. refs'[h] = IF h = fac THEN refs[h] + 1 ELSE refs[h]
        BY <3>1, Counting
      <4> QED BY <1>k, <1>n, <3>1, <4>1, <4>2 DEF Settles
    <3>4. \A h \in Counted : HoldsOn(t, h)
      BY <2>1, <3>1, <3>2, HoldsSame
    <3> QED BY <3>1, <3>2, <3>3, <3>4, PlainStep
  <2> QED BY <2>2, <2>3
<1> QED BY <1>1, <1>2, <1>3, <1>4 DEF Install

LEMMA UninstallRefsKeep ==
  ASSUME ObjInv, ObjInv', RefsInv, NEW t \in Threads, Uninstall(t)
  PROVE  RefsInv'
<1> DEFINE fac == call[t].fac
<1>0. /\ call[t] \in CallType /\ call \in [Threads -> CallType]
      /\ call'[t] \in CallType /\ skipped \in [Counted -> Nat]
      /\ classReg \in [Classes -> Factories \cup {NULL}]
  BY DEF ObjInv, TypeInv
<1>k. classReg' = classReg => \A h \in Counted : ClassesIn(h)' = ClassesIn(h)
  BY DEF ClassesIn
<1>n. \A h \in Counted : /\ Cardinality(ClassesIn(h)) \in Nat
                         /\ skipped[h] \in Nat /\ refs[h] \in Nat /\ held[h] \in Nat
  BY RegistryFinite DEF ObjInv, TypeInv
<1>c. \A h \in Counted : h # NULL
  BY FactoryAssumption
<1>e. call[t].op \in {"erase", "release", "last"} => fac \in uninstalled
  BY DEF RefsInv, Erasing
<1>1. ASSUME NEW f \in Factories, UninstallBegin(t, f) PROVE RefsInv'
  <2>1. CASE Destroyed(f)
    BY <1>1, <2>1, DestroyedHeld DEF UninstallBegin
  <2>2. CASE ~Destroyed(f)
    <3>1. /\ Begin(t, "erase", f) /\ Uninstalled(f) /\ ClientHolds(f)
          /\ UNCHANGED <<classReg, refs, dead, held, raced>>
      BY <1>1, <2>2 DEF UninstallBegin
    <3>a. Alive
      BY <3>1 DEF Begin
    <3>2. /\ call[t].op = "none" /\ call'[t].op = "erase" /\ call'[t].fac = f
          /\ \A u \in Threads \ {t} : call'[u] = call[u]
      BY <3>1, OpNames, Begun
    <3>3. uninstalled' = uninstalled \cup {f}
      BY <3>1 DEF Uninstalled
    <3>4. \A h \in Counted \ uninstalled' : Settles(t, h)
      <4> TAKE h \in Counted \ uninstalled'
      <4>1. skipped'[h] = skipped[h]
        BY <3>1, <3>3 DEF Uninstalled
      <4>2. Owed(call[t], h) = 0 /\ Owed(call'[t], h) = 0
        BY <3>2 DEF Owed, Creates, Adds
      <4> QED BY <1>k, <3>1, <4>1, <4>2 DEF Settles
    <3>5. \A h \in Counted : HoldsOn(t, h)
      BY <1>n, <3>1, <3>2 DEF HoldsOn, Uses, ClientHolds
    <3>6. uninstalled \subseteq uninstalled' /\ call'[t].fac \in uninstalled' /\ dead' = dead
      BY <3>1, <3>2, <3>3
    <3>7. \A h \in Counted \ uninstalled' : skipped'[h] = skipped[h]
      BY <3>1, <3>3 DEF Uninstalled
    <3> QED BY <3>1, <3>2, <3>a, <3>4, <3>5, <3>6, <3>7, PlainStep
  <2> QED BY <2>1, <2>2
<1>2. ASSUME UninstallErase(t) PROVE RefsInv'
  <2> DEFINE c == Class(t)
             g == classReg[c]
  <2>1. call[t].op = "erase"
    BY <1>2 DEF UninstallErase, At
  <2>2. c \in Classes
    BY <2>1, ClassInRange
  <2>3. CASE Destroyed(g)
    <3>1. Used(g)
      BY <2>2 DEF Used, ClassesIn
    <3> QED BY <1>2, <2>3, <3>1, DestroyedCause, DieRefs DEF UninstallErase
  <2>4. CASE ~Destroyed(g)
    <3>1. /\ classReg' = [classReg EXCEPT ![c] = NULL] /\ Release(g)
          /\ Goto(t, "release") /\ UNCHANGED <<dead, held, uninstalled, skipped>>
          /\ raced' = raced \cup Calls(g, {"found", "addref"}) /\ Alive
      BY <1>2, <2>4 DEF UninstallErase, At
    <3>2. /\ call'[t].op = "release" /\ call'[t].fac = fac
          /\ \A u \in Threads \ {t} : call'[u] = call[u]
      BY <3>1, MovedTo
    <3>3. classReg'[c] = NULL /\ \A d \in Classes \ {c} : classReg'[d] = classReg[d]
      BY <1>0, <2>2, <3>1
    <3>4. \A h \in Counted \ uninstalled' : Settles(t, h)
      <4> TAKE h \in Counted \ uninstalled'
      <4>1. Cardinality(ClassesIn(h)') =
              Cardinality(ClassesIn(h)) + (IF NULL = h THEN 1 ELSE 0)
                                        - (IF g = h THEN 1 ELSE 0)
        BY <2>2, <3>3, ClassesMove
      <4>2. refs'[h] = IF h = g THEN refs[h] - 1 ELSE refs[h]
        BY <3>1, Counting
      <4>3. Owed(call[t], h) = 0 /\ Owed(call'[t], h) = 0
        BY <2>1, <3>2 DEF Owed, Creates, Adds
      <4>4. Cardinality(ClassesIn(h)') = Cardinality(ClassesIn(h)) - (IF g = h THEN 1 ELSE 0)
        BY <1>n, <1>c, <4>1
      <4>5. skipped'[h] = skipped[h] /\ held'[h] = held[h]
        BY <3>1
      <4> HIDE DEF g
      <4> QED BY <1>n, <4>2, <4>3, <4>4, <4>5 DEF Settles
    <3>5. \A h \in Counted \ uninstalled' : Covers(h)'
      <4> TAKE h \in Counted \ uninstalled'
      <4>1. CASE h = g
        <5>1. /\ Calls(h, {"found"})' \ raced' = {}
              /\ Calls(h, {"addref"})' \ raced' = {}
          BY <3>1, <3>2, <4>1 DEF Calls
        <5>2. Cardinality(ClassesIn(h)') \in Nat /\ skipped'[h] \in Nat
          BY <1>n, <2>2, <3>1, <3>3, ClassesMove
        <5>3. Cardinality(Calls(h, {"addref"})' \ raced') = 0
          BY <5>1, FS_EmptySet
        <5>4. Cardinality(Calls(h, {"addref"})' \ raced')
                <= Cardinality(ClassesIn(h)') + skipped'[h]
          BY <5>2, <5>3
        <5> QED BY <5>1, <5>4 DEF Covers
      <4>2. CASE h # g
        <5>1. ClassesIn(h)' = ClassesIn(h) /\ skipped'[h] = skipped[h]
          BY <1>c, <2>2, <3>1, <3>3, <4>2 DEF ClassesIn
        <5>2. One(Adds(call'[t], h)) = 0 /\ ~Finds(call'[t], h)
          BY <3>2 DEF One, Adds, Finds
        <5>3. Cardinality(ClassesIn(h)') + skipped'[h]
                >= Cardinality(ClassesIn(h)) + skipped[h] + One(Adds(call'[t], h))
          BY <1>n, <5>1, <5>2
        <5>4. raced \ {t} \subseteq raced'
          BY <3>1
        <5>5. h \in Counted \ uninstalled
          BY <3>1
        <5> QED BY <3>2, <5>1, <5>2, <5>3, <5>4, <5>5, CoverStep
      <4> QED BY <4>1, <4>2
    <3>h. \A h \in Counted : HoldsOn(t, h)
      BY <2>1, <3>1, <3>2, HoldsSame
    <3>6. uninstalled \subseteq uninstalled' /\ call'[t].fac \in uninstalled' /\ dead' = dead
      BY <1>e, <2>1, <3>1, <3>2
    <3> QED BY <3>1, <3>2, <3>4, <3>5, <3>h, <3>6, RefsStep
  <2> QED BY <2>3, <2>4
<1>3. ASSUME UninstallRelease(t) \/ UninstallLast(t) PROVE RefsInv'
  <2>1. call[t].op \in {"release", "last"}
    BY <1>3 DEF UninstallRelease, UninstallLast, At
  <2>2. CASE Destroyed(fac)
    BY <1>3, <2>1, <2>2, DestroyedInCall DEF UninstallRelease, UninstallLast
  <2>3. CASE ~Destroyed(fac)
    <3>1. /\ Alive /\ Release(fac)
          /\ UNCHANGED <<classReg, dead, held, uninstalled, skipped, raced>>
      BY <1>3, <2>3 DEF UninstallRelease, UninstallLast, At
    <3>2. /\ call'[t].op \in {"none", "erase", "last"}
          /\ call'[t].op # "none" => call'[t].fac = fac
          /\ \A u \in Threads \ {t} : call'[u] = call[u]
      <4>1. CASE Leave(t)
        BY <4>1, LeftCall
      <4>2. CASE call' = [call EXCEPT ![t].op = "last"]
        BY <4>2, MovedTo DEF Goto
      <4>3. CASE call' = [call EXCEPT ![t].op = "erase", ![t].i = call[t].i + 1]
        <5>1. call'[t] = [call[t] EXCEPT !.op = "erase", !.i = call[t].i + 1]
          BY <1>0, <4>3
        <5>2. call'[t].op = "erase" /\ call'[t].fac = fac
          BY <1>0, <5>1 DEF CallType
        <5> QED BY <1>0, <4>3, <5>2
      <4> QED BY <1>3, <2>3, <4>1, <4>2, <4>3 DEF UninstallRelease, UninstallLast
    <3>3. fac \in uninstalled
      BY <1>e, <2>1
    <3>4. \A h \in Counted \ uninstalled' : Settles(t, h)
      <4> TAKE h \in Counted \ uninstalled'
      <4>1. h # fac
        BY <3>1, <3>3
      <4>2. Owed(call[t], h) = 0 /\ Owed(call'[t], h) = 0
        BY <2>1, <3>2 DEF Owed, Creates, Adds
      <4>3. refs'[h] = refs[h] /\ skipped'[h] = skipped[h]
        BY <3>1, <4>1, Counting
      <4> QED BY <1>k, <3>1, <4>2, <4>3 DEF Settles
    <3>5. \A h \in Counted : HoldsOn(t, h)
      BY <2>1, <3>1, <3>2, HoldsSame
    <3>6. /\ uninstalled \subseteq uninstalled' /\ dead' = dead
          /\ call'[t].op \in {"erase", "release", "last"} => call'[t].fac \in uninstalled'
      BY <3>1, <3>2, <3>3
    <3> QED BY <3>1, <3>2, <3>4, <3>5, <3>6, PlainStep
  <2> QED BY <2>2, <2>3
<1> QED BY <1>1, <1>2, <1>3 DEF Uninstall

(* A client gives up a reference that no call of its needs.                *)
LEMMA ClientReleaseRefs ==
  ASSUME ObjInv, RefsInv, NEW f \in Counted, ClientRelease(f)
  PROVE  RefsInv'
<1>1. CASE Destroyed(f)
  BY <1>1, DestroyedHeld DEF ClientRelease
<1>2. CASE ~Destroyed(f)
  <2>1. /\ Alive /\ ClientHolds(f) /\ Release(f) /\ held' = [held EXCEPT ![f] = @ - 1]
        /\ UNCHANGED <<classReg, call, dead, uninstalled, skipped, raced>>
    BY <1>2 DEF ClientRelease
  <2>2. /\ \A h : ClassesIn(h)' = ClassesIn(h) /\ Users(h)' = Users(h)
        /\ \A h, ops : Calls(h, ops)' = Calls(h, ops)
    BY <2>1 DEF ClassesIn, Users, Calls
  <2>3. \A h \in Counted :
          /\ held[h] \in Nat /\ refs[h] \in Nat
          /\ held'[h] = (IF h = f THEN held[h] - 1 ELSE held[h])
          /\ refs'[h] = (IF h = f THEN refs[h] - 1 ELSE refs[h])
    BY <2>1, Counting DEF ObjInv, TypeInv
  <2>4. FactoryRefsExact'
    <3> SUFFICES ASSUME NEW h \in Counted \ uninstalled
                 PROVE  refs'[h] = held'[h] + Cardinality(ClassesIn(h)') + skipped'[h]
                                     + Cardinality(Calls(h, {"create", "made"})')
                                     - Cardinality(Calls(h, {"addref"})')
      BY <2>1 DEF FactoryRefsExact
    <3> DEFINE k == Cardinality(ClassesIn(h))
               c == Cardinality(Calls(h, {"create", "made"}))
               a == Cardinality(Calls(h, {"addref"}))
    <3>1. k \in Nat /\ c \in Nat /\ a \in Nat /\ skipped[h] \in Nat
      BY CallsFinite, RegistryFinite DEF ObjInv, TypeInv
    <3>2. refs[h] = held[h] + k + skipped[h] + c - a
      BY DEF RefsInv, FactoryRefsExact
    <3> HIDE DEF k, c, a
    <3>3. refs'[h] = held'[h] + k + skipped[h] + c - a
      BY <2>3, <3>1, <3>2
    <3> QED BY <2>1, <2>2, <3>3 DEF k, c, a
  <2>5. ClientsHold'
    <3> SUFFICES ASSUME NEW h \in Counted PROVE held'[h] >= Cardinality(Users(h)')
      BY DEF ClientsHold
    <3>1. Cardinality(Users(h)) \in Nat /\ held[h] >= Cardinality(Users(h))
      BY UsersFinite DEF RefsInv, ClientsHold
    <3>2. h = f => held[h] > Cardinality(Users(h))
      BY <2>1 DEF ClientHolds
    <3>3. held'[h] >= Cardinality(Users(h))
      BY <2>3, <3>1, <3>2
    <3> QED BY <2>2, <3>3
  <2>6. Covered'
    BY <2>1, <2>2 DEF RefsInv, Covered, Covers
  <2>7. Erasing' /\ UseCause'
    BY <2>1 DEF RefsInv, Erasing, UseCause
  <2> QED BY <2>4, <2>5, <2>6, <2>7 DEF RefsInv
<1> QED BY <1>1, <1>2

(* No thread is in a call, so that every reference beyond the classes is   *)
(* the clients' or has leaked.                                             *)
LEMMA ShutdownRefs ==
  ASSUME ObjInv, RefsInv, Shutdown
  PROVE  RefsInv'
<1> DEFINE late == {f \in Counted : refs[f] < Cardinality(ClassesIn(f))}
<1>1. \A f, ops : "none" \notin ops => Calls(f, ops) = {}
  BY NoCallType DEF Shutdown, Calls
<1>2. \A f \in Counted \ uninstalled :
        /\ refs[f] = held[f] + Cardinality(ClassesIn(f)) + skipped[f]
        /\ held[f] \in Nat /\ Cardinality(ClassesIn(f)) \in Nat /\ skipped[f] \in Nat
  <2> TAKE f \in Counted \ uninstalled
  <2>1. /\ Cardinality(Calls(f, {"create", "made"})) = 0
        /\ Cardinality(Calls(f, {"addref"})) = 0
    BY <1>1, FS_EmptySet
  <2>2. held[f] \in Nat /\ Cardinality(ClassesIn(f)) \in Nat /\ skipped[f] \in Nat
    BY RegistryFinite DEF ObjInv, TypeInv
  <2> QED BY <2>1, <2>2 DEF RefsInv, FactoryRefsExact
<1>3. CASE late # {}
  <2>1. PICK f \in late : Die(f)
    BY <1>3 DEF Shutdown
  <2>2. f \in uninstalled
    BY <1>2
  <2> QED BY <2>1, <2>2, DieRefs DEF Lost
<1>4. CASE late = {}
  <2>1. /\ classReg' = [c \in Classes |-> NULL]
        /\ refs' = [f \in Counted |-> refs[f] - Cardinality(ClassesIn(f))]
        /\ UNCHANGED <<call, dead, held, uninstalled, skipped, raced>>
    BY <1>4 DEF Shutdown
  <2>2. \A f \in Counted : ClassesIn(f)' = {}
    BY <2>1, FactoryAssumption DEF ClassesIn
  <2>3. \A f, ops : Calls(f, ops)' = Calls(f, ops)
    BY <2>1 DEF Calls
  <2>4. FactoryRefsExact'
    <3> SUFFICES ASSUME NEW f \in Counted \ uninstalled
                 PROVE  refs'[f] = held'[f] + Cardinality(ClassesIn(f)') + skipped'[f]
                                     + Cardinality(Calls(f, {"create", "made"})')
                                     - Cardinality(Calls(f, {"addref"})')
      BY <2>1 DEF FactoryRefsExact
    <3>1. /\ Cardinality(ClassesIn(f)') = 0
          /\ Cardinality(Calls(f, {"create", "made"})') = 0
          /\ Cardinality(Calls(f, {"addref"})') = 0
      BY <1>1, <2>2, <2>3, FS_EmptySet
    <3>2. /\ refs'[f] = refs[f] - Cardinality(ClassesIn(f)) /\ skipped'[f] = skipped[f]
          /\ held'[f] = held[f]
      BY <2>1
    <3> QED BY <1>2, <3>1, <3>2
  <2>5. ClientsHold'
    BY <2>1, <2>3 DEF RefsInv, ClientsHold, Users
  <2>c. Covered'
    <3> SUFFICES ASSUME NEW f \in Counted \ uninstalled PROVE Covers(f)'
      BY <2>1 DEF Covered
    <3>1. Calls(f, {"found"})' \ raced' = {} /\ Calls(f, {"addref"})' \ raced' = {}
      BY <1>1, <2>3
    <3>2. Cardinality(ClassesIn(f)') = 0 /\ skipped'[f] \in Nat
      BY <1>2, <2>1, <2>2, FS_EmptySet
    <3>3. Cardinality(Calls(f, {"addref"})' \ raced') = 0
      BY <3>1, FS_EmptySet
    <3>4. Cardinality(Calls(f, {"addref"})' \ raced')
            <= Cardinality(ClassesIn(f)') + skipped'[f]
      BY <3>2, <3>3
    <3> QED BY <3>1, <3>4 DEF Covers
  <2>6. Erasing' /\ UseCause'
    BY <2>1 DEF RefsInv, Erasing, UseCause
  <2> QED BY <2>4, <2>5, <2>c, <2>6 DEF RefsInv
<1> QED BY <1>3, <1>4

LEMMA RefsInit == Init => RefsInv
<1> SUFFICES ASSUME Init PROVE RefsInv
  OBVIOUS
<1>1. \A f, ops : "none" \notin ops => Calls(f, ops) = {}
  BY NoCallType DEF Init, Calls
<1>2. \A f \in Counted : ClassesIn(f) = {}
  BY FactoryAssumption DEF Init, ClassesIn
<1>3. FactoryRefsExact
  <2> SUFFICES ASSUME NEW f \in Counted \ uninstalled
               PROVE  refs[f] = held[f] + Cardinality(ClassesIn(f)) + skipped[f]
                                  + Cardinality(Calls(f, {"create", "made"}))
                                  - Cardinality(Calls(f, {"addref"}))
    BY DEF FactoryRefsExact
  <2>1. /\ Cardinality(ClassesIn(f)) = 0
        /\ Cardinality(Calls(f, {"create", "made"})) = 0
        /\ Cardinality(Calls(f, {"addref"})) = 0
    BY <1>1, <1>2, FS_EmptySet
  <2>2. refs[f] = Held /\ held[f] = Held /\ skipped[f] = 0 /\ Held \in Nat
    BY FactoryAssumption DEF Init
  <2> QED BY <2>1, <2>2
<1>c. ClientsHold
  <2> SUFFICES ASSUME NEW f \in Counted PROVE held[f] >= Cardinality(Users(f))
    BY DEF ClientsHold
  <2>1. Cardinality(Users(f)) = 0
    BY <1>1, FS_EmptySet DEF Users
  <2>2. held[f] = Held /\ Held \in Nat
    BY FactoryAssumption DEF Init
  <2> QED BY <2>1, <2>2
<1>4. Covered
  <2> SUFFICES ASSUME NEW f \in Counted PROVE Covers(f)
    BY DEF Covered
  <2>1. Calls(f, {"found"}) \ raced = {} /\ Calls(f, {"addref"}) \ raced = {}
    BY <1>1
  <2>2. Cardinality(ClassesIn(f)) = 0 /\ skipped[f] = 0
    BY <1>2, FS_EmptySet DEF Init
  <2> QED BY <2>1, <2>2, FS_EmptySet DEF Covers
<1>5. Erasing
  BY NoCallType DEF Init, Erasing
<1>6. UseCause
  BY DEF Init, UseCause
<1> QED BY <1>3, <1>c, <1>4, <1>5, <1>6 DEF RefsInv

LEMMA RefsNext == ObjInv /\ RefsInv /\ [Next]_vars => RefsInv'
<1> SUFFICES ASSUME ObjInv, RefsInv, [Next]_vars PROVE RefsInv'
  OBVIOUS
<1>1. ObjInv'
  BY ObjStep
<1>2. CASE UNCHANGED vars
  <2>1. FactoryRefsExact'
    BY <1>2 DEF vars, RefsInv, FactoryRefsExact, Calls, ClassesIn
  <2>2. ClientsHold' /\ Covered'
    BY <1>2 DEF vars, RefsInv, ClientsHold, Covered, Covers, Users, Calls, ClassesIn
  <2>3. Erasing' /\ UseCause'
    BY <1>2 DEF vars, RefsInv, Erasing, UseCause
  <2> QED BY <2>1, <2>2, <2>3 DEF RefsInv
<1> QED
  BY <1>1, <1>2, CreateRefs, InstallRefsKeep, UninstallRefsKeep, ClientReleaseRefs,
     ShutdownRefs DEF Next

LEMMA RefsSafe == Spec => []RefsInv
BY RefsInit, RefsNext, ObjSafe, PTL DEF Spec

(* A factory that nobody began to uninstall has exactly the references of  *)
(* its clients, of the classes it is or should have been registered for    *)
(* and of the instances being created, whatever the other factories and    *)
(* threads do.                                                             *)
THEOREM ObjectFactoryRefs == Spec => []FactoryRefsExact
<1>1. RefsInv => FactoryRefsExact
  BY DEF RefsInv
<1> QED BY <1>1, RefsSafe, PTL

(* A destroyed factory is called only after its own uninstallation or      *)
(* rollback has begun, or while a query or an installation that released   *)
(* the lock and has not called AddRef() yet lost a class of the factory to *)
(* another factory's uninstallation: whatever references clients keep or   *)
(* give up, a client that owns one is never left with a dangling pointer   *)
(* otherwise.                                                              *)
THEOREM ObjectUseCause == Spec => []UseCause
<1>1. RefsInv => UseCause
  BY DEF RefsInv
<1> QED BY <1>1, RefsSafe, PTL
=============================================================================
