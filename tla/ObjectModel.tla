---------------------------- MODULE ObjectModel -----------------------------
(***************************************************************************)
(* The class registry of NkOM and the creation of instances,               *)
(* src/Noriko/nkom.c, used by several threads.  The lock m_clsRegLock is   *)
(* held only while the table of classes is touched, so every AddRef() and  *)
(* Release() of a factory is a step of its own.  Static factories ignore   *)
(* both (those of db.c, io.c and renderer.c do); a counted factory is      *)
(* destroyed by the Release() that leaves no reference, and calling it     *)
(* after that is recorded in dead.                                         *)
(***************************************************************************)
EXTENDS Integers, Sequences, FiniteSets

CONSTANTS
  Classes,
  Factories,
  Counted,    (* the factories that implement reference counting           *)
  ClassesOf,  (* QueryInstantiableClasses() of each factory                *)
  Held,       (* the references its clients hold on a new counted factory  *)
  Threads,
  MaxRefs,    (* bound: no installation begins with so many references     *)
  MaxHeld,    (* bound: no client keeps a reference beyond so many         *)
  NULL

ASSUME FactoryAssumption ==
  /\ IsFiniteSet(Classes) /\ IsFiniteSet(Threads)
  /\ Counted \subseteq Factories /\ MaxRefs \in Nat /\ MaxHeld \in Nat
  /\ Held \in Nat \ {0}
  /\ ClassesOf \in [Factories -> Seq(Classes) \ {<<>>}]
  /\ NULL \notin Factories

VARIABLES
  up,           (* m_isInitialized                                         *)
  classReg,     (* mp_classReg                                             *)
  refs,         (* the reference count of each counted factory             *)
  call,         (* the call each thread is in                              *)
  dead,         (* the destroyed factory that was called, or NULL          *)
  held,         (* the references clients hold on each counted factory     *)
  uninstalled,  (* history: the factories an uninstallation began for      *)
  skipped,      (* history: how often a factory outside uninstalled was    *)
                (* installed for a class that was registered already       *)
  raced         (* history: the threads about to call AddRef() on a        *)
                (* factory one of whose classes was erased meanwhile       *)

vars == <<up, classReg, refs, call, dead, held, uninstalled, skipped, raced>>

(* i is the loop index of an installation or uninstallation, obj the       *)
(* reference count of the instance that is being created, ok the result.   *)
NoCall == [op |-> "none", fac |-> NULL, i |-> 0, obj |-> 0, ok |-> FALSE]

Init ==
  /\ up = TRUE
  /\ classReg = [c \in Classes |-> NULL]
  /\ refs = [f \in Counted |-> Held]
  /\ call = [t \in Threads |-> NoCall]
  /\ dead = NULL
  /\ held = [f \in Counted |-> Held]
  /\ uninstalled = {} /\ skipped = [f \in Counted |-> 0] /\ raced = {}

Alive == dead = NULL

Destroyed(f) == f \in Counted /\ refs[f] = 0

Die(f) ==
  dead' = f /\ UNCHANGED <<up, classReg, refs, call, held, uninstalled, skipped, raced>>

AddRef(f) == refs' = IF f \in Counted THEN [refs EXCEPT ![f] = @ + 1] ELSE refs

Release(f) == refs' = IF f \in Counted THEN [refs EXCEPT ![f] = @ - 1] ELSE refs

Begin(t, op, f) ==
  /\ Alive /\ up /\ call[t] = NoCall
  /\ call' = [call EXCEPT ![t] = [NoCall EXCEPT !.op = op, !.fac = f, !.i = 1]]

At(t, op) == Alive /\ call[t].op = op

Goto(t, op) == call' = [call EXCEPT ![t].op = op]

Leave(t) == call' = [call EXCEPT ![t] = NoCall]

(* History.                                                                *)
Uninstalled(f) ==
  /\ uninstalled' = uninstalled \cup {f}
  /\ skipped' = [h \in Counted |-> IF h = f THEN 0 ELSE skipped[h]]

Class(t) == ClassesOf[call[t].fac][call[t].i]

(***************************************************************************)
(* NkOMCreateInstance                                                      *)
(***************************************************************************)
(* NkOMQueryFactoryForClass up to NK_UNLOCK, for a class that is there.    *)
QueryFactory(t, c) ==
  /\ classReg[c] # NULL
  /\ Begin(t, "found", classReg[c])
  /\ UNCHANGED <<up, classReg, refs, dead, held, uninstalled, skipped, raced>>

(* Fault: the factory is not referenced.                                   *)
QueryAddRef_None(t) ==
  LET f == call[t].fac
  IN  /\ At(t, "found")
      /\ IF Destroyed(f) THEN Die(f)
         ELSE /\ Goto(t, "create") /\ raced' = raced \ {t}
              /\ UNCHANGED <<up, classReg, refs, dead, held, uninstalled, skipped>>

QueryAddRef(t) ==
  LET f == call[t].fac
  IN  /\ At(t, "found")
      /\ IF Destroyed(f) THEN Die(f)
         ELSE /\ AddRef(f) /\ Goto(t, "create") /\ raced' = raced \ {t}
              /\ UNCHANGED <<up, classReg, dead, held, uninstalled, skipped>>

(* A client that called NkOMQueryFactoryForClass itself keeps the          *)
(* reference.                                                              *)
QueryReturn(t) ==
  LET f == call[t].fac
  IN  /\ At(t, "create")
      /\ f \in Counted => held[f] < MaxHeld
      /\ held' = IF f \in Counted THEN [held EXCEPT ![f] = @ + 1] ELSE held
      /\ Leave(t)
      /\ UNCHANGED <<up, classReg, refs, dead, uninstalled, skipped, raced>>

(* The factory's CreateInstance() returns an instance with one reference,  *)
(* or fails.                                                               *)
FactoryCreate(t) ==
  LET f == call[t].fac
  IN  /\ At(t, "create")
      /\ IF Destroyed(f) THEN Die(f)
         ELSE /\ \E n \in {0, 1} :
                   call' = [call EXCEPT ![t].op = "made", ![t].obj = n]
              /\ UNCHANGED <<up, classReg, refs, dead, held, uninstalled, skipped, raced>>

FactoryRelease(t) ==
  LET f == call[t].fac
  IN  /\ At(t, "made")
      /\ IF Destroyed(f) THEN Die(f)
         ELSE /\ Release(f)
              /\ Goto(t, IF call[t].obj = 1 THEN "init" ELSE "created")
              /\ UNCHANGED <<up, classReg, dead, held, uninstalled, skipped, raced>>

(* Fault: the early return forgets the reference of the instance itself.   *)
InitFails_Once(t) ==
  call' = [call EXCEPT ![t].op = "created", ![t].obj = (@ + 1) - 1]

(* Initialize() failed: the reference of the query and that of the         *)
(* instance are released.                                                  *)
InitFails(t) ==
  call' = [call EXCEPT ![t].op = "created", ![t].obj = (@ + 1) - 2]

(* The instance is not an NkIInitializable, or Initialize() succeeded and  *)
(* the reference of the query is released.                                 *)
InitSucceeds(t) == call' = [call EXCEPT ![t].op = "query"]

InitInstance(t) ==
  /\ At(t, "init")
  /\ InitFails(t) \/ InitSucceeds(t)
  /\ UNCHANGED <<up, classReg, refs, dead, held, uninstalled, skipped, raced>>

(* The query for the caller's interface succeeds and one of the two        *)
(* references is released, or it fails and the only one is.                *)
QueryInstance(t) ==
  /\ At(t, "query")
  /\ \E ok \in BOOLEAN :
       call' = [call EXCEPT ![t].op = "created", ![t].ok = ok,
                            ![t].obj = (IF ok THEN @ + 1 ELSE @) - 1]
  /\ UNCHANGED <<up, classReg, refs, dead, held, uninstalled, skipped, raced>>

CreateReturn(t) ==
  /\ At(t, "created")
  /\ Leave(t)
  /\ UNCHANGED <<up, classReg, refs, dead, held, uninstalled, skipped, raced>>

(***************************************************************************)
(* The clients' own references.  A client that installs or uninstalls a    *)
(* factory holds one during the call, and may release it afterwards: then  *)
(* the registry alone keeps the factory.                                   *)
(***************************************************************************)
Calls(f, ops) == {t \in Threads : call[t].fac = f /\ call[t].op \in ops}

Users(f) == Calls(f, {"insert", "addref", "erase", "release", "last"})

ClientHolds(f) == f \in Counted => held[f] > Cardinality(Users(f))

ClientRelease(f) ==
  /\ Alive /\ f \in Counted /\ ClientHolds(f)
  /\ IF Destroyed(f) THEN Die(f)
     ELSE /\ Release(f) /\ held' = [held EXCEPT ![f] = @ - 1]
          /\ UNCHANGED <<up, classReg, call, dead, uninstalled, skipped, raced>>

(***************************************************************************)
(* NkOMInstallClassFactory                                                 *)
(***************************************************************************)
InstallBegin(t, f) ==
  /\ ClientHolds(f)
  /\ IF Destroyed(f) THEN up /\ Alive /\ call[t] = NoCall /\ Die(f)
     ELSE /\ f \in Counted => refs[f] < MaxRefs
          /\ Begin(t, "insert", f)
          /\ UNCHANGED <<up, classReg, refs, dead, held, uninstalled, skipped, raced>>

(* NkHashtableInsert leaves a class that is there alone and reports        *)
(* success.                                                                *)
InstallInsert(t) ==
  LET f == call[t].fac
      c == Class(t)
  IN  /\ At(t, "insert")
      /\ IF classReg[c] = NULL
         THEN classReg' = [classReg EXCEPT ![c] = f] /\ skipped' = skipped
         ELSE /\ classReg' = classReg
              /\ skipped' = IF f \in Counted \ uninstalled
                            THEN [skipped EXCEPT ![f] = @ + 1] ELSE skipped
      /\ Goto(t, "addref")
      /\ UNCHANGED <<up, refs, dead, held, uninstalled, raced>>

(* NkHashtableInsert fails: a first class ends the call, a later one rolls *)
(* it back with NkOMUninstallClassFactory.                                 *)
InstallFails(t) ==
  LET f == call[t].fac
  IN  /\ At(t, "insert")
      /\ IF call[t].i = 1 THEN Leave(t) /\ UNCHANGED <<dead, uninstalled, skipped>>
         ELSE IF Destroyed(f) THEN dead' = f /\ UNCHANGED <<call, uninstalled, skipped>>
         ELSE /\ call' = [call EXCEPT ![t].op = "erase", ![t].i = 1]
              /\ Uninstalled(f) /\ dead' = dead
      /\ UNCHANGED <<up, classReg, refs, held, raced>>

(* Fault: one reference for all classes, taken with the first.             *)
InstallRefs_First(f, i) == IF i = 1 THEN AddRef(f) ELSE refs' = refs

InstallRefs(f, i) == AddRef(f)

InstallAddRef(t) ==
  LET f == call[t].fac
      i == call[t].i
  IN  /\ At(t, "addref")
      /\ IF Destroyed(f) THEN Die(f)
         ELSE /\ InstallRefs(f, i)
              /\ IF i = Len(ClassesOf[f]) THEN Leave(t)
                 ELSE call' = [call EXCEPT ![t].op = "insert", ![t].i = i + 1]
              /\ raced' = raced \ {t}
              /\ UNCHANGED <<up, classReg, dead, held, uninstalled, skipped>>

(***************************************************************************)
(* NkOMUninstallClassFactory                                               *)
(***************************************************************************)
UninstallBegin(t, f) ==
  /\ ClientHolds(f)
  /\ IF Destroyed(f) THEN up /\ Alive /\ call[t] = NoCall /\ Die(f)
     ELSE /\ Begin(t, "erase", f)
          /\ Uninstalled(f)
          /\ UNCHANGED <<up, classReg, refs, dead, held, raced>>

(* NkHashtableErase: __NkOM_DestroyClsFacFn releases the factory the class *)
(* is registered for, whichever it is.                                     *)
UninstallErase(t) ==
  LET c == Class(t)
      g == classReg[c]
  IN  /\ At(t, "erase")
      /\ IF Destroyed(g) THEN Die(g)
         ELSE /\ classReg' = [classReg EXCEPT ![c] = NULL]
              /\ Release(g)
              /\ Goto(t, "release")
              /\ raced' = raced \cup Calls(g, {"found", "addref"})
              /\ UNCHANGED <<up, dead, held, uninstalled, skipped>>

(* The Release() behind every erasure.                                     *)
UninstallRelease(t) ==
  LET f == call[t].fac
      i == call[t].i
  IN  /\ At(t, "release")
      /\ IF Destroyed(f) THEN Die(f)
         ELSE /\ Release(f)
              /\ call' = IF i = Len(ClassesOf[f]) THEN [call EXCEPT ![t].op = "last"]
                         ELSE [call EXCEPT ![t].op = "erase", ![t].i = i + 1]
              /\ UNCHANGED <<up, classReg, dead, held, uninstalled, skipped, raced>>

(* The Release() behind the loop.                                          *)
UninstallLast(t) ==
  LET f == call[t].fac
  IN  /\ At(t, "last")
      /\ IF Destroyed(f) THEN Die(f)
         ELSE /\ Release(f) /\ Leave(t)
              /\ UNCHANGED <<up, classReg, dead, held, uninstalled, skipped, raced>>

(***************************************************************************)
(* NkOM's shutdown, when no thread is in a call: the destruction of the    *)
(* registry releases a factory once for every class it is registered for.  *)
(***************************************************************************)
ClassesIn(f) == {c \in Classes : classReg[c] = f}

Shutdown ==
  LET late == {f \in Counted : refs[f] < Cardinality(ClassesIn(f))}
  IN  /\ Alive /\ up /\ \A t \in Threads : call[t] = NoCall
      /\ IF late # {} THEN \E f \in late : Die(f)
         ELSE /\ up' = FALSE
              /\ classReg' = [c \in Classes |-> NULL]
              /\ refs' = [f \in Counted |-> refs[f] - Cardinality(ClassesIn(f))]
              /\ UNCHANGED <<call, dead, held, uninstalled, skipped, raced>>

CreateInstance(t) ==
  \/ \E c \in Classes : QueryFactory(t, c)
  \/ QueryAddRef(t) \/ QueryReturn(t) \/ FactoryCreate(t) \/ FactoryRelease(t)
  \/ InitInstance(t) \/ QueryInstance(t) \/ CreateReturn(t)

Install(t) ==
  \/ \E f \in Factories : InstallBegin(t, f)
  \/ InstallInsert(t) \/ InstallFails(t) \/ InstallAddRef(t)

Uninstall(t) ==
  \/ \E f \in Factories : UninstallBegin(t, f)
  \/ UninstallErase(t) \/ UninstallRelease(t) \/ UninstallLast(t)

Next ==
  \/ \E t \in Threads : CreateInstance(t) \/ Install(t) \/ Uninstall(t)
  \/ \E f \in Counted : ClientRelease(f)
  \/ Shutdown

Spec == Init /\ [][Next]_vars
-----------------------------------------------------------------------------
(* As long as no uninstallation or rollback of it began, a factory has the *)
(* clients' references, one for every class it is registered for or should *)
(* have been, and one for every instance being created: whatever factories *)
(* that share its classes do, no reference is missing, and the ones that   *)
(* leak are those of the classes another factory had registered.           *)
FactoryRefsExact ==
  \A f \in Counted \ uninstalled :
    refs[f] = held[f] + Cardinality(ClassesIn(f)) + skipped[f]
                + Cardinality(Calls(f, {"create", "made"}))
                - Cardinality(Calls(f, {"addref"}))

(* A destroyed factory is called only after an uninstallation or rollback  *)
(* of that very factory has begun, or while a thread that found it in the  *)
(* registry, or registered it, has not called AddRef() yet and another     *)
(* factory's uninstallation has erased a class of it meanwhile: the lock   *)
(* is released before AddRef().                                            *)
UseCause ==
  dead # NULL => dead \in uninstalled \/ \E t \in raced : call[t].fac = dead

(* NkOMCreateInstance leaves its caller exactly one reference when it      *)
(* succeeds, and destroys the instance when it fails, on all its exits.    *)
CreateExact ==
  \A t \in Threads : call[t].op = "created" => call[t].obj = IF call[t].ok THEN 1 ELSE 0
=============================================================================
