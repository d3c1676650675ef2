---------------------------- MODULE Application -----------------------------
(***************************************************************************)
(* The life of the application, src/Noriko/application.c, as main() of     *)
(* src/NorikoRt/main.c drives it: the component table is started in order, *)
(* the main loop runs, the table is shut down in reverse order.  A failed  *)
(* startup goes straight to the shutdown, which knows only one component   *)
(* index and one success flag per startup stage, shared by all components. *)
(***************************************************************************)
EXTENDS Integers

CONSTANTS
  N,          (* gl_c_CompInitTblSize                                      *)
  Callbacks,  (* the <<component, callback>> pairs that are not NULL       *)
  NkOMs,      (* the components with m_isNkOM set                          *)
  Registrar,  (* the NkOM component, whose PostStartup makes mp_compReg    *)
  Window      (* the component whose instance NkApplicationRun queries     *)

(* The values of __NkInt_CompCallbackIndex.                                *)
PreStartup == 0
Startup == 1
PostStartup == 2
PreShutdown == 3
Shutdown == 4
PostShutdown == 5

Comp == 0 .. (N - 1)
Stages == {PreStartup, Startup, PostStartup}
Cbs == 0 .. 5

(* What gl_c_CompInitTable has in common with any table the proofs are     *)
(* about: components that register themselves come after the one that      *)
(* makes the registry, the pre-startup and post-shutdown columns are NULL, *)
(* only that component has a pre-shutdown and none after it a post-startup *)
(* callback.                                                               *)
ASSUME TableAssumption ==
  /\ N \in Nat \ {0}
  /\ Callbacks \subseteq Comp \X Cbs
  /\ Registrar \in Comp /\ NkOMs \subseteq Comp /\ Window \in NkOMs
  /\ \A c \in NkOMs : c > Registrar
  /\ \A c \in Comp :
       /\ <<c, PreStartup>> \notin Callbacks /\ <<c, PostShutdown>> \notin Callbacks
       /\ <<c, PostStartup>> \in Callbacks => c <= Registrar
       /\ <<c, PreShutdown>> \in Callbacks => c = Registrar

VARIABLES
  pc,         (* where main() is                                           *)
  i,          (* the component the startup or shutdown loop is at          *)
  j,          (* the stage it is at                                        *)
  compIndex,  (* m_initErrInfo.m_compIndex                                 *)
  compSucc,   (* m_initErrInfo.m_compSucc                                  *)
  regUp,      (* mp_compReg is not NULL                                    *)
  compReg,    (* the components with an instance in mp_compReg             *)
  refs,       (* the references application.c has taken on each instance   *)
  result,     (* history: what each callback of each component returned    *)
  refused     (* history: the components whose instance mp_compReg refused *)

vars == <<pc, i, j, compIndex, compSucc, regUp, compReg, refs, result, refused>>

(* Fault: the stages are undone first stage first.                         *)
Opposite_SameOrder(cb) == (cb + 3) % 6

(* __NkInt_Application_QueryOppositeCbIndex                                *)
Opposite(cb) == 5 - cb

(* Fault: the loop runs one component too far.                             *)
IsLast_TooFar(c) == c = N

IsLast(c) == c + 1 = N

(* Fault: the first component is left out.                                 *)
IsFirst_TooEarly(c) == c <= 1

IsFirst(c) == c = 0

(* What __NkInt_Application_InvokeCompCallback records.  The flags of the  *)
(* shutdown callbacks fall into the padding behind m_compSucc.             *)
Invoked(c, cb, res) ==
  /\ result' = [result EXCEPT ![<<c, cb>>] = res]
  /\ compIndex' = c
  /\ compSucc' = IF cb \in Stages THEN [compSucc EXCEPT ![cb] = (res = "ok")] ELSE compSucc

Init ==
  /\ pc = "boot" /\ i = 0 /\ j = 0
  /\ compIndex = 0 /\ compSucc = [s \in Stages |-> FALSE]
  /\ regUp = FALSE /\ compReg = {} /\ refs = [c \in NkOMs |-> 0]
  /\ result = [x \in Comp \X Cbs |-> "none"] /\ refused = {}

(***************************************************************************)
(* NkApplicationStartup.                                                   *)
(***************************************************************************)
SpecsInvalid ==
  /\ pc = "boot"
  /\ pc' = "left"
  /\ UNCHANGED <<i, j, compIndex, compSucc, regUp, compReg, refs, result, refused>>

SpecsValid ==
  /\ pc = "boot"
  /\ pc' = "starting"
  /\ i' = 0 /\ j' = PreStartup
  /\ compIndex' = 0 /\ compSucc' = [s \in Stages |-> FALSE]
  /\ regUp' = FALSE /\ compReg' = {}
  /\ UNCHANGED <<refs, result, refused>>

(* __NkInt_NkOM_PostStartup                                                *)
MakesRegistry(c, cb) == c = Registrar /\ cb = PostStartup

StageSucceeds ==
  /\ pc = "starting"
  /\ Invoked(i, j, "ok")
  /\ regUp' = (regUp \/ MakesRegistry(i, j))
  /\ IF j = PostStartup THEN pc' = "register" /\ j' = j ELSE pc' = pc /\ j' = j + 1
  /\ UNCHANGED <<i, compReg, refs, refused>>

StageFails ==
  /\ pc = "starting"
  /\ <<i, j>> \in Callbacks
  /\ Invoked(i, j, "err")
  /\ pc' = "left"
  /\ UNCHANGED <<i, j, regUp, compReg, refs, refused>>

StartNext ==
  IF IsLast(i)
  THEN pc' = "started" /\ UNCHANGED <<i, j>>
  ELSE pc' = "starting" /\ i' = i + 1 /\ j' = PreStartup

(* Fault: no reference is taken.                                           *)
AddRefOnReplace_None(c) == refs

(* The reference is taken whether or not the table took the instance.      *)
AddRefOnReplace(c) == [refs EXCEPT ![c] = @ + 1]

(* NkApplicationReplaceInstance with an instance; the insertion may fail.  *)
Register ==
  /\ pc = "register"
  /\ IF i \in NkOMs
     THEN /\ \/ compReg' = compReg \cup {i} /\ refused' = refused
             \/ compReg' = compReg /\ refused' = refused \cup {i}
          /\ refs' = AddRefOnReplace(i)
     ELSE UNCHANGED <<compReg, refs, refused>>
  /\ StartNext
  /\ UNCHANGED <<compIndex, compSucc, regUp, result>>

(***************************************************************************)
(* NkApplicationRun: the window it queries is released when the loop ends. *)
(***************************************************************************)
(* NkApplicationQueryInstance, when it finds the instance.                 *)
AddRefOnQuery(c) == [refs EXCEPT ![c] = @ + 1]

RunEnters ==
  /\ pc = "started"
  /\ IF Window \in compReg
     THEN pc' = "looping" /\ refs' = AddRefOnQuery(Window)
     ELSE pc' = "crashed" /\ refs' = refs
  /\ UNCHANGED <<i, j, compIndex, compSucc, regUp, compReg, result, refused>>

RunLeaves ==
  /\ pc = "looping"
  /\ pc' = "left"
  /\ refs' = [refs EXCEPT ![Window] = @ - 1]
  /\ UNCHANGED <<i, j, compIndex, compSucc, regUp, compReg, result, refused>>

(***************************************************************************)
(* NkApplicationShutdown.                                                  *)
(***************************************************************************)
(* Fault: the component the startup ended at is left out.                  *)
ShutdownEnters_SkipsLast ==
  /\ pc = "left"
  /\ IF compIndex = 0
     THEN pc' = "stopped" /\ i' = i
     ELSE pc' = "unregister" /\ i' = compIndex - 1
  /\ UNCHANGED <<j, compIndex, compSucc, regUp, compReg, refs, result, refused>>

ShutdownEnters ==
  /\ pc = "left"
  /\ IF compIndex = 0
     THEN pc' = "stopped" /\ i' = i
     ELSE pc' = "unregister" /\ i' = compIndex
  /\ UNCHANGED <<j, compIndex, compSucc, regUp, compReg, refs, result, refused>>

(* NkApplicationReplaceInstance with NULL: an instance that is found is    *)
(* released; a table that is not there is dereferenced all the same.       *)
Unregister ==
  /\ pc = "unregister"
  /\ IF i \in NkOMs /\ ~regUp
     THEN pc' = "crashed" /\ UNCHANGED <<j, compReg, refs>>
     ELSE /\ pc' = "stopping" /\ j' = PostStartup
          /\ compReg' = compReg \ {i}
          /\ refs' = IF i \in compReg THEN [refs EXCEPT ![i] = @ - 1] ELSE refs
  /\ UNCHANGED <<i, compIndex, compSucc, regUp, result, refused>>

StopNext ==
  IF j > PreStartup
  THEN pc' = "stopping" /\ j' = j - 1 /\ i' = i
  ELSE IF IsFirst(i) THEN pc' = "stopped" /\ UNCHANGED <<i, j>>
  ELSE pc' = "unregister" /\ i' = i - 1 /\ j' = j

StopSkips ==
  /\ pc = "stopping"
  /\ ~compSucc[j]
  /\ StopNext
  /\ UNCHANGED <<compIndex, compSucc, regUp, compReg, refs, result, refused>>

(* Fault: every component's pre-shutdown destroys the registry.            *)
DestroysRegistry_Any(c, cb) == cb = PreShutdown

(* __NkInt_NkOM_PreShutdown                                                *)
DestroysRegistry(c, cb) == c = Registrar /\ cb = PreShutdown

StopSucceeds ==
  LET cb == Opposite(j)
  IN  /\ pc = "stopping"
      /\ compSucc[j]
      /\ Invoked(i, cb, "ok") /\ refused' = refused
      /\ IF ~DestroysRegistry(i, cb) THEN StopNext /\ UNCHANGED <<regUp, compReg, refs>>
         ELSE IF ~regUp
         THEN pc' = "crashed" /\ UNCHANGED <<i, j, regUp, compReg, refs>>
         ELSE /\ StopNext
              /\ regUp' = FALSE /\ compReg' = {}
              /\ refs' = [c \in NkOMs |-> IF c \in compReg THEN refs[c] - 1 ELSE refs[c]]

StopFails ==
  LET cb == Opposite(j)
  IN  /\ pc = "stopping"
      /\ compSucc[j]
      /\ <<i, cb>> \in Callbacks /\ ~DestroysRegistry(i, cb)
      /\ Invoked(i, cb, "err")
      /\ pc' = "stopped"
      /\ UNCHANGED <<i, j, regUp, compReg, refs, refused>>

Next ==
  \/ SpecsInvalid \/ SpecsValid
  \/ StageSucceeds \/ StageFails \/ Register
  \/ RunEnters \/ RunLeaves
  \/ ShutdownEnters \/ Unregister
  \/ StopSkips \/ StopSucceeds \/ StopFails

Spec == Init /\ [][Next]_vars
-----------------------------------------------------------------------------
Ran(c, cb) == result[<<c, cb>>] # "none"
Succeeded(c, cb) == result[<<c, cb>>] = "ok"
NothingFailed == \A x \in Comp \X Cbs : result[x] # "err"

(* The loops stay inside gl_c_CompInitTable and m_compSucc.                *)
TypeOK ==
  /\ pc \in {"boot", "starting", "register", "started", "looping", "left",
             "unregister", "stopping", "stopped", "crashed"}
  /\ i \in Comp /\ j \in Stages
  /\ compIndex \in Comp /\ compSucc \in [Stages -> BOOLEAN]
  /\ regUp \in BOOLEAN /\ compReg \subseteq NkOMs
  /\ refs \in [NkOMs -> Nat] /\ refused \subseteq NkOMs
  /\ result \in [Comp \X Cbs -> {"none", "ok", "err"}]

Undoes(x) == x[2] \notin Stages
RanBefore(x, y) == x[1] > y[1] \/ (x[1] = y[1] /\ x[2] < y[2])

(* Unless a Startup callback failed, a component is undone only after all  *)
(* components started later, and its stages in reverse order: also when    *)
(* the startup stopped at a later stage or the shutdown stops half way.    *)
ReverseOrder ==
  (\A c \in Comp : result[<<c, Startup>>] # "err") =>
    \A x, y \in Callbacks :
      /\ Undoes(x) /\ Undoes(y) /\ RanBefore(x, y)
      /\ Ran(y[1], y[2]) /\ Succeeded(x[1], Opposite(x[2]))
      => Ran(x[1], x[2])

(* When nothing fails every component is started and stopped completely,   *)
(* and the application keeps no reference to an instance, but for those of *)
(* the instances the registry refused, which nobody releases.              *)
CleanShutdown ==
  pc = "stopped" /\ NothingFailed /\ Succeeded(N - 1, PostStartup) =>
    /\ \A c \in Comp, cb \in Cbs : Succeeded(c, cb)
    /\ compReg = {} /\ ~regUp
    /\ \A c \in NkOMs : refs[c] = IF c \in refused THEN 1 ELSE 0

One(b) == IF b THEN 1 ELSE 0

(* The references on an instance are exact at every point, whatever failed *)
(* before: one of the registry, one of the main loop on the window, and    *)
(* the one that a refused registration has left.                           *)
RefsHeld ==
  /\ \A c \in NkOMs :
       refs[c] = One(c \in compReg) + One(c \in refused) + One(pc = "looping" /\ c = Window)
  /\ compReg # {} => regUp

(* NkOM's PreShutdown destroys the registry only after every instance has  *)
(* left it, wherever the startup failed: __NkInt_NkOM_CompRegIterFn takes  *)
(* what it still finds for a component, which an instance is not.          *)
RegistryDrained == pc = "stopping" /\ i <= Registrar => compReg = {}

(* The null registry is dereferenced only if NkOM itself failed to start,  *)
(* the window only if the registry refused it.                             *)
CrashCause ==
  pc = "crashed" =>
    \/ result[<<Registrar, Startup>>] = "err"
    \/ Window \in refused /\ regUp

(* Only callbacks of which the opposite succeeded are run.                 *)
OnlyOpposites ==
  \A x \in Callbacks : Undoes(x) /\ Ran(x[1], x[2]) => Succeeded(x[1], Opposite(x[2]))
=============================================================================
