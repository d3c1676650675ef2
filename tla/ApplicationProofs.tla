------------------------- MODULE ApplicationProofs --------------------------
(***************************************************************************)
(* Proofs about Application, for component tables of any length.           *)
(***************************************************************************)
EXTENDS Application, TLAPS

(* NkApplicationRun uses the instance that is in the registry.             *)
LoopsOnWindow == pc = "looping" => Window \in compReg

(* By the time an instance is registered, NkOM has made the registry.      *)
RegistryMade ==
  /\ pc \in {"starting", "register"} /\ i > Registrar => regUp
  /\ pc = "register" /\ i = Registrar => regUp

(* An instance in the registry, or used by the main loop, is referenced.   *)
Referenced ==
  /\ \A c \in compReg : refs[c] >= (IF pc = "looping" /\ c = Window THEN 2 ELSE 1)
  /\ compReg # {} => regUp

AppInv == TypeOK /\ Referenced /\ LoopsOnWindow /\ RegistryMade

LEMMA AppInit == Init => AppInv
<1> SUFFICES ASSUME Init PROVE AppInv
  OBVIOUS
<1>1. TypeOK
  <2>1. 0 \in Comp /\ 0 \in Stages
    BY TableAssumption DEF Comp, Stages, PreStartup
  <2>2. pc = "boot" /\ i \in Comp /\ j \in Stages /\ compIndex \in Comp
    BY <2>1 DEF Init
  <2>3. compSucc \in [Stages -> BOOLEAN] /\ regUp \in BOOLEAN /\ compReg \subseteq NkOMs
        /\ refused \subseteq NkOMs
    BY DEF Init
  <2>4. refs \in [NkOMs -> Nat]
    BY DEF Init
  <2>5. result \in [Comp \X Cbs -> {"none", "ok", "err"}]
    BY DEF Init
  <2> QED BY <2>2, <2>3, <2>4, <2>5 DEF TypeOK
<1>2. Referenced /\ LoopsOnWindow /\ RegistryMade
  BY DEF Init, Referenced, LoopsOnWindow, RegistryMade
<1> QED BY <1>1, <1>2 DEF AppInv

(* What InvokeCompCallback records has the declared types.                 *)
LEMMA InvokedType ==
  ASSUME TypeOK, NEW cb \in Cbs, NEW res \in {"none", "ok", "err"}, Invoked(i, cb, res)
  PROVE  /\ compIndex' \in Comp /\ compSucc' \in [Stages -> BOOLEAN]
         /\ result' \in [Comp \X Cbs -> {"none", "ok", "err"}]
<1>1. i \in Comp /\ compSucc \in [Stages -> BOOLEAN]
      /\ result \in [Comp \X Cbs -> {"none", "ok", "err"}]
  BY DEF TypeOK
<1>2. compIndex' = i
  BY DEF Invoked
<1>3. compSucc' \in [Stages -> BOOLEAN]
  BY <1>1 DEF Invoked
<1>4. result' \in [Comp \X Cbs -> {"none", "ok", "err"}]
  BY <1>1 DEF Invoked
<1> QED BY <1>1, <1>2, <1>3, <1>4

LEMMA StageTypes ==
  /\ Stages = {0, 1, 2} /\ Stages \subseteq Cbs
  /\ \A s \in Stages : Opposite(s) \in Cbs
  /\ \A s \in Stages : s # PostStartup => s + 1 \in Stages
  /\ \A s \in Stages : s > PreStartup => s - 1 \in Stages
BY DEF Stages, Cbs, Opposite, PreStartup, Startup, PostStartup

(* The shutdown loop stays inside the table.                               *)
LEMMA StopNextType ==
  ASSUME TypeOK, StopNext
  PROVE  /\ i' \in Comp /\ j' \in Stages
         /\ pc' \in {"stopping", "stopped", "unregister"}
<1>1. i \in Comp /\ j \in Stages
  BY DEF TypeOK
<1>2. CASE j > PreStartup
  BY <1>1, <1>2, StageTypes DEF StopNext
<1>3. CASE ~(j > PreStartup) /\ IsFirst(i)
  BY <1>1, <1>3 DEF StopNext
<1>4. CASE ~(j > PreStartup) /\ ~IsFirst(i)
  <2>1. i - 1 \in Comp
    BY <1>1, <1>4, TableAssumption DEF IsFirst, Comp
  <2> QED BY <1>1, <1>4, <2>1 DEF StopNext
<1> QED BY <1>2, <1>3, <1>4

LEMMA StartNextType ==
  ASSUME TypeOK, StartNext
  PROVE  /\ i' \in Comp /\ j' \in Stages
         /\ \/ pc' = "started"
            \/ pc' = "starting" /\ i' = i + 1
<1>1. i \in Comp /\ j \in Stages /\ PreStartup \in Stages
  BY DEF TypeOK, Stages
<1>2. CASE IsLast(i)
  BY <1>1, <1>2 DEF StartNext
<1>3. CASE ~IsLast(i)
  <2>1. i + 1 \in Comp
    BY <1>1, <1>3, TableAssumption DEF IsLast, Comp
  <2> QED BY <1>1, <1>3, <2>1 DEF StartNext
<1> QED BY <1>2, <1>3

(* Each step keeps the invariant.                                          *)
LEMMA AppStep == AppInv /\ [Next]_vars => AppInv'
<1> SUFFICES ASSUME AppInv, [Next]_vars PROVE AppInv'
  OBVIOUS
<1> USE DEF AppInv
<1>c. Registrar \in Nat /\ Window \in NkOMs /\ \A c \in NkOMs : c \in Nat /\ c > Registrar
  BY TableAssumption DEF Comp
<1>i. i \in Nat /\ i \in Comp /\ j \in Stages /\ refs \in [NkOMs -> Nat] /\ compReg \subseteq NkOMs
  BY DEF TypeOK, Comp
<1>1. CASE SpecsInvalid
  BY <1>1 DEF SpecsInvalid, TypeOK, Referenced, LoopsOnWindow, RegistryMade
<1>2. CASE SpecsValid
  <2>1. 0 \in Comp /\ PreStartup \in Stages /\ ~(0 > Registrar)
    BY <1>c, TableAssumption DEF Comp, Stages
  <2>2. TypeOK'
    BY <1>2, <2>1 DEF SpecsValid, TypeOK
  <2>3. Referenced' /\ LoopsOnWindow'
    BY <1>2 DEF SpecsValid, Referenced, LoopsOnWindow
  <2>4. RegistryMade'
    BY <1>2, <2>1 DEF SpecsValid, RegistryMade
  <2> QED BY <2>2, <2>3, <2>4
<1>3. CASE StageSucceeds
  <2>1. /\ pc = "starting" /\ Invoked(i, j, "ok") /\ UNCHANGED <<i, compReg, refs, refused>>
        /\ regUp' = (regUp \/ (i = Registrar /\ j = PostStartup))
        /\ \/ j = PostStartup /\ pc' = "register" /\ j' = j
           \/ j # PostStartup /\ pc' = "starting" /\ j' = j + 1
    BY <1>3 DEF StageSucceeds, MakesRegistry
  <2>2. /\ compIndex' \in Comp /\ compSucc' \in [Stages -> BOOLEAN]
        /\ result' \in [Comp \X Cbs -> {"none", "ok", "err"}]
    BY <1>i, <2>1, InvokedType, StageTypes
  <2>3. j' \in Stages
    BY <1>i, <2>1, StageTypes
  <2>4. TypeOK'
    BY <2>1, <2>2, <2>3 DEF TypeOK
  <2>5. Referenced' /\ LoopsOnWindow'
    BY <2>1 DEF Referenced, LoopsOnWindow
  <2>6. RegistryMade'
    BY <2>1 DEF RegistryMade
  <2> QED BY <2>4, <2>5, <2>6
<1>4. CASE StageFails
  <2>1. /\ pc = "starting" /\ Invoked(i, j, "err") /\ pc' = "left"
        /\ UNCHANGED <<i, j, regUp, compReg, refs, refused>>
    BY <1>4 DEF StageFails
  <2>2. /\ compIndex' \in Comp /\ compSucc' \in [Stages -> BOOLEAN]
        /\ result' \in [Comp \X Cbs -> {"none", "ok", "err"}]
    BY <1>i, <2>1, InvokedType, StageTypes
  <2>3. TypeOK'
    BY <2>1, <2>2 DEF TypeOK
  <2>4. Referenced' /\ LoopsOnWindow' /\ RegistryMade'
    BY <2>1 DEF Referenced, LoopsOnWindow, RegistryMade
  <2> QED BY <2>3, <2>4
<1>5. CASE Register
  <2>1. /\ pc = "register" /\ StartNext /\ UNCHANGED <<compIndex, compSucc, regUp, result>>
        /\ \/ /\ i \in NkOMs /\ compReg' \in {compReg, compReg \cup {i}}
              /\ refs' = [refs EXCEPT ![i] = @ + 1] /\ refused' \subseteq refused \cup {i}
           \/ i \notin NkOMs /\ UNCHANGED <<compReg, refs, refused>>
    BY <1>5 DEF Register, AddRefOnReplace
  <2>2. i' \in Comp /\ j' \in Stages /\ (pc' = "started" \/ (pc' = "starting" /\ i' = i + 1))
    BY <2>1, StartNextType
  <2>3. refs' \in [NkOMs -> Nat] /\ compReg' \subseteq NkOMs
        /\ \A c \in compReg' : refs'[c] >= 1
    <3>1. \A c \in compReg : refs[c] >= 1
      BY <2>1 DEF Referenced
    <3> QED BY <1>i, <2>1, <3>1
  <2>4. TypeOK'
    <3>1. refused' \subseteq NkOMs
      BY <2>1 DEF TypeOK
    <3> QED BY <2>1, <2>2, <2>3, <3>1 DEF TypeOK
  <2>5. i \in NkOMs => regUp
    BY <1>c, <2>1 DEF RegistryMade
  <2>6. Referenced'
    BY <2>1, <2>2, <2>3, <2>5 DEF Referenced
  <2>7. LoopsOnWindow'
    BY <2>2 DEF LoopsOnWindow
  <2>8. RegistryMade'
    <3>1. i + 1 > Registrar => i = Registrar \/ i > Registrar
      BY <1>c, <1>i
    <3> QED BY <2>1, <2>2, <3>1 DEF RegistryMade
  <2> QED BY <2>4, <2>6, <2>7, <2>8
<1>6. CASE RunEnters
  <2>1. /\ pc = "started" /\ UNCHANGED <<i, j, compIndex, compSucc, regUp, compReg, result, refused>>
        /\ \/ Window \in compReg /\ pc' = "looping" /\ refs' = [refs EXCEPT ![Window] = @ + 1]
           \/ pc' = "crashed" /\ refs' = refs
    BY <1>6 DEF RunEnters, AddRefOnQuery
  <2>2. \A c \in compReg : refs[c] >= 1
    BY <2>1 DEF Referenced
  <2>3. /\ refs' \in [NkOMs -> Nat] /\ \A c \in compReg : refs'[c] >= 1
        /\ pc' = "looping" => refs'[Window] >= 2
    BY <1>c, <1>i, <2>1, <2>2
  <2>4. TypeOK'
    BY <2>1, <2>3 DEF TypeOK
  <2>5. Referenced' /\ LoopsOnWindow' /\ RegistryMade'
    BY <2>1, <2>3 DEF Referenced, LoopsOnWindow, RegistryMade
  <2> QED BY <2>4, <2>5
<1>7. CASE RunLeaves
  <2>1. /\ pc = "looping" /\ pc' = "left" /\ refs' = [refs EXCEPT ![Window] = @ - 1]
        /\ UNCHANGED <<i, j, compIndex, compSucc, regUp, compReg, result, refused>>
    BY <1>7 DEF RunLeaves
  <2>2. refs[Window] >= 2 /\ \A c \in compReg : c # Window => refs[c] >= 1
    BY <2>1 DEF Referenced, LoopsOnWindow
  <2>3. refs' \in [NkOMs -> Nat] /\ \A c \in compReg : refs'[c] >= 1
    BY <1>c, <1>i, <2>1, <2>2
  <2>4. TypeOK'
    BY <2>1, <2>3 DEF TypeOK
  <2>5. Referenced' /\ LoopsOnWindow' /\ RegistryMade'
    BY <2>1, <2>3 DEF Referenced, LoopsOnWindow, RegistryMade
  <2> QED BY <2>4, <2>5
<1>8. CASE ShutdownEnters
  <2>1. /\ pc = "left" /\ pc' \in {"stopped", "unregister"} /\ i' \in Comp
        /\ UNCHANGED <<j, compIndex, compSucc, regUp, compReg, refs, result, refused>>
    BY <1>8, <1>i DEF ShutdownEnters, TypeOK
  <2>2. TypeOK'
    BY <2>1 DEF TypeOK
  <2>3. Referenced' /\ LoopsOnWindow' /\ RegistryMade'
    BY <2>1 DEF Referenced, LoopsOnWindow, RegistryMade
  <2> QED BY <2>2, <2>3
<1>9. CASE Unregister
  <2>1. /\ pc = "unregister" /\ UNCHANGED <<i, compIndex, compSucc, regUp, result, refused>>
        /\ \/ pc' = "crashed" /\ UNCHANGED <<j, compReg, refs>>
           \/ /\ pc' = "stopping" /\ j' = PostStartup /\ compReg' = compReg \ {i}
              /\ refs' = IF i \in compReg THEN [refs EXCEPT ![i] = @ - 1] ELSE refs
    BY <1>9 DEF Unregister
  <2>2. \A c \in compReg : refs[c] >= 1
    BY <2>1 DEF Referenced
  <2>3. /\ refs' \in [NkOMs -> Nat] /\ \A c \in compReg' : refs'[c] >= 1
        /\ compReg' \subseteq compReg
    BY <1>i, <2>1, <2>2
  <2>4. TypeOK'
    BY <2>1, <2>3, StageTypes DEF TypeOK, PostStartup
  <2>5. Referenced'
    BY <2>1, <2>3 DEF Referenced
  <2>6. LoopsOnWindow' /\ RegistryMade'
    BY <2>1 DEF LoopsOnWindow, RegistryMade
  <2> QED BY <2>4, <2>5, <2>6
<1>10. CASE StopSkips
  <2>1. /\ pc = "stopping" /\ StopNext
        /\ UNCHANGED <<compIndex, compSucc, regUp, compReg, refs, result, refused>>
    BY <1>10 DEF StopSkips
  <2>2. i' \in Comp /\ j' \in Stages /\ pc' \in {"stopping", "stopped", "unregister"}
    BY <2>1, StopNextType
  <2>3. TypeOK'
    BY <2>1, <2>2 DEF TypeOK
  <2>4. Referenced' /\ LoopsOnWindow' /\ RegistryMade'
    BY <2>1, <2>2 DEF Referenced, LoopsOnWindow, RegistryMade
  <2> QED BY <2>3, <2>4
<1>11. CASE StopSucceeds
  <2>b. PICK cb \in Cbs : cb = Opposite(j)
    BY <1>i, StageTypes
  <2>1. pc = "stopping" /\ Invoked(i, cb, "ok") /\ refused' = refused
    BY <1>11, <2>b DEF StopSucceeds
  <2>2. /\ compIndex' \in Comp /\ compSucc' \in [Stages -> BOOLEAN]
        /\ result' \in [Comp \X Cbs -> {"none", "ok", "err"}]
    BY <2>1, InvokedType
  <2>3. \/ StopNext /\ UNCHANGED <<regUp, compReg, refs>>
        \/ pc' = "crashed" /\ UNCHANGED <<i, j, regUp, compReg, refs>>
        \/ /\ StopNext /\ regUp' = FALSE /\ compReg' = {}
           /\ refs' = [c \in NkOMs |-> IF c \in compReg THEN refs[c] - 1 ELSE refs[c]]
    BY <1>11 DEF StopSucceeds
  <2>4. i' \in Comp /\ j' \in Stages /\ pc' \in {"stopping", "stopped", "unregister", "crashed"}
    BY <1>i, <2>3, StopNextType
  <2>5. \A c \in compReg : refs[c] >= 1
    BY <2>1 DEF Referenced
  <2>6. refs' \in [NkOMs -> Nat] /\ \A c \in compReg' : refs'[c] >= 1
    BY <1>i, <2>3, <2>5
  <2>7. TypeOK'
    BY <2>1, <2>2, <2>3, <2>4, <2>6 DEF TypeOK
  <2>8. Referenced'
    BY <2>3, <2>4, <2>6 DEF Referenced
  <2>9. LoopsOnWindow' /\ RegistryMade'
    BY <2>4 DEF LoopsOnWindow, RegistryMade
  <2> QED BY <2>7, <2>8, <2>9
<1>12. CASE StopFails
  <2>b. PICK cb \in Cbs : cb = Opposite(j)
    BY <1>i, StageTypes
  <2>1. pc = "stopping" /\ Invoked(i, cb, "err") /\ pc' = "stopped"
        /\ UNCHANGED <<i, j, regUp, compReg, refs, refused>>
    BY <1>12, <2>b DEF StopFails
  <2>2. /\ compIndex' \in Comp /\ compSucc' \in [Stages -> BOOLEAN]
        /\ result' \in [Comp \X Cbs -> {"none", "ok", "err"}]
    BY <2>1, InvokedType
  <2>3. TypeOK'
    BY <2>1, <2>2 DEF TypeOK
  <2>4. Referenced' /\ LoopsOnWindow' /\ RegistryMade'
    BY <2>1 DEF Referenced, LoopsOnWindow, RegistryMade
  <2> QED BY <2>3, <2>4
<1>13. CASE UNCHANGED vars
  BY <1>13 DEF vars, TypeOK, Referenced, LoopsOnWindow, RegistryMade
<1> QED BY <1>1, <1>2, <1>3, <1>4, <1>5, <1>6, <1>7, <1>8, <1>9, <1>10, <1>11, <1>12, <1>13
        DEF Next

(* The startup and shutdown loops never leave the component table or the   *)
(* stage flags, and no reference count goes below zero.                    *)
THEOREM ApplicationTypeOK == Spec => []TypeOK
<1>1. AppInv => TypeOK
  BY DEF AppInv
<1> QED BY <1>1, AppInit, AppStep, PTL DEF Spec

(***************************************************************************)
(* The references on the instances.                                        *)
(***************************************************************************)
(* Every component is registered at most once.                             *)
Fresh ==
  pc \in {"boot", "starting", "register"} =>
    \A c \in compReg \cup refused : pc # "boot" /\ c < i

RefsInv == RefsHeld /\ Fresh

LEMMA RefsInit == Init => RefsInv
<1> SUFFICES ASSUME Init PROVE RefsInv
  OBVIOUS
<1>1. pc = "boot" /\ compReg = {} /\ refused = {} /\ refs = [c \in NkOMs |-> 0]
  BY DEF Init
<1> QED BY <1>1 DEF RefsInv, RefsHeld, Fresh, One

(* A step that leaves the instances and the main loop alone.               *)
LEMMA RefsSame ==
  ASSUME RefsHeld, UNCHANGED <<compReg, refs, refused>>, regUp => regUp',
         pc # "looping", pc' # "looping"
  PROVE  RefsHeld'
<1>1. \A c \in NkOMs : refs'[c] = One(c \in compReg') + One(c \in refused') + One(pc' = "looping" /\ c = Window)
  BY DEF RefsHeld, One
<1>2. compReg' # {} => regUp'
  BY DEF RefsHeld
<1> QED BY <1>1, <1>2 DEF RefsHeld

LEMMA RefsStep == AppInv /\ RefsInv /\ [Next]_vars => RefsInv'
<1> SUFFICES ASSUME AppInv, RefsInv, [Next]_vars PROVE RefsInv'
  OBVIOUS
<1>h. RefsHeld /\ Fresh
  BY DEF RefsInv
<1>c. Window \in NkOMs /\ \A c \in NkOMs : c \in Nat
  BY TableAssumption DEF Comp
<1>i. i \in Nat /\ refs \in [NkOMs -> Nat] /\ compReg \subseteq NkOMs /\ refused \subseteq NkOMs
  BY DEF AppInv, TypeOK, Comp
<1>r. compReg' # {} => regUp'
  BY AppStep DEF AppInv, Referenced
<1>1. CASE SpecsInvalid
  <2>1. pc = "boot" /\ pc' = "left" /\ UNCHANGED <<compReg, refs, refused, regUp>>
    BY <1>1 DEF SpecsInvalid
  <2> QED BY <1>h, <2>1, RefsSame DEF RefsInv, Fresh
<1>2. CASE SpecsValid
  <2>1. pc = "boot" /\ pc' = "starting" /\ compReg' = {} /\ UNCHANGED <<refs, refused>>
    BY <1>2 DEF SpecsValid
  <2>2. compReg = {} /\ refused = {}
    BY <1>h, <2>1 DEF Fresh
  <2>3. RefsHeld'
    BY <1>h, <2>1, <2>2 DEF RefsHeld, One
  <2> QED BY <2>1, <2>2, <2>3 DEF RefsInv, Fresh
<1>3. CASE StageSucceeds
  <2>1. /\ pc = "starting" /\ pc' \in {"starting", "register"} /\ i' = i
        /\ UNCHANGED <<compReg, refs, refused>> /\ (regUp => regUp')
    BY <1>3 DEF StageSucceeds
  <2> QED BY <1>h, <2>1, RefsSame DEF RefsInv, Fresh
<1>4. CASE StageFails
  <2>1. pc = "starting" /\ pc' = "left" /\ UNCHANGED <<compReg, refs, refused, regUp>>
    BY <1>4 DEF StageFails
  <2> QED BY <1>h, <2>1, RefsSame DEF RefsInv, Fresh
<1>5. CASE Register
  <2>1. pc = "register" /\ (pc' = "started" \/ (pc' = "starting" /\ i' = i + 1))
    BY <1>5 DEF Register, StartNext
  <2>2. \A c \in compReg \cup refused : c \in Nat /\ c < i
    BY <1>c, <1>h, <1>i, <2>1 DEF Fresh
  <2>3. i \notin compReg /\ i \notin refused
    BY <1>i, <2>2
  <2>4. compReg' \cup refused' \subseteq compReg \cup refused \cup {i}
    BY <1>5 DEF Register
  <2>5. Fresh'
    BY <1>i, <2>1, <2>2, <2>4 DEF Fresh
  <2>6. CASE i \notin NkOMs
    <3>1. UNCHANGED <<compReg, refs, refused, regUp>>
      BY <1>5, <2>6 DEF Register
    <3> QED BY <1>h, <2>1, <2>5, <3>1, RefsSame DEF RefsInv
  <2>7. CASE i \in NkOMs
    <3>1. /\ refs' = [refs EXCEPT ![i] = @ + 1]
          /\ \/ compReg' = compReg \cup {i} /\ refused' = refused
             \/ compReg' = compReg /\ refused' = refused \cup {i}
      BY <1>5, <2>7 DEF Register, AddRefOnReplace
    <3>2. ASSUME NEW c \in NkOMs
          PROVE  refs'[c] = One(c \in compReg') + One(c \in refused')
                              + One(pc' = "looping" /\ c = Window)
      <4>1. refs[c] = One(c \in compReg) + One(c \in refused) + 0
        BY <1>h, <2>1 DEF RefsHeld, One
      <4>2. CASE c = i
        <5>1. refs[c] = 0 /\ refs'[c] = 1
          BY <1>i, <2>3, <2>7, <3>1, <4>1, <4>2 DEF One
        <5> QED BY <2>1, <2>3, <3>1, <4>2, <5>1 DEF One
      <4>3. CASE c # i
        <5>1. refs'[c] = refs[c] /\ (c \in compReg' <=> c \in compReg)
              /\ (c \in refused' <=> c \in refused)
          BY <1>i, <3>1, <4>3
        <5> QED BY <2>1, <4>1, <5>1 DEF One
      <4> QED BY <4>2, <4>3
    <3> QED BY <1>r, <2>5, <3>2 DEF RefsInv, RefsHeld
  <2> QED BY <2>6, <2>7
<1>6. CASE RunEnters
  <2>1. /\ pc = "started" /\ UNCHANGED <<regUp, compReg, refused>>
        /\ \/ pc' = "looping" /\ refs' = [refs EXCEPT ![Window] = @ + 1]
           \/ pc' = "crashed" /\ refs' = refs
    BY <1>6 DEF RunEnters, AddRefOnQuery
  <2>2. CASE pc' = "crashed"
    BY <1>h, <2>1, <2>2, RefsSame DEF RefsInv, Fresh
  <2>3. CASE pc' = "looping"
    <3>1. ASSUME NEW c \in NkOMs
          PROVE  refs'[c] = One(c \in compReg') + One(c \in refused')
                              + One(pc' = "looping" /\ c = Window)
      <4>1. refs[c] = One(c \in compReg) + One(c \in refused) + 0
        BY <1>h, <2>1 DEF RefsHeld, One
      <4>2. refs'[c] = refs[c] + One(c = Window)
        BY <1>i, <2>1, <2>3 DEF One
      <4> QED BY <2>1, <2>3, <4>1, <4>2 DEF One
    <3> QED BY <1>r, <2>3, <3>1 DEF RefsInv, RefsHeld, Fresh
  <2> QED BY <2>1, <2>2, <2>3
<1>7. CASE RunLeaves
  <2>1. /\ pc = "looping" /\ pc' = "left" /\ UNCHANGED <<regUp, compReg, refused>>
        /\ refs' = [refs EXCEPT ![Window] = @ - 1]
    BY <1>7 DEF RunLeaves
  <2>2. ASSUME NEW c \in NkOMs
        PROVE  refs'[c] = One(c \in compReg') + One(c \in refused')
                            + One(pc' = "looping" /\ c = Window)
    <3>1. refs[c] = One(c \in compReg) + One(c \in refused) + One(c = Window)
      BY <1>h, <2>1 DEF RefsHeld, One
    <3>2. refs'[c] = refs[c] - One(c = Window)
      BY <1>i, <2>1 DEF One
    <3> QED BY <2>1, <3>1, <3>2 DEF One
  <2> QED BY <1>r, <2>1, <2>2 DEF RefsInv, RefsHeld, Fresh
<1>8. CASE ShutdownEnters
  <2>1. /\ pc = "left" /\ pc' \in {"stopped", "unregister"}
        /\ UNCHANGED <<compReg, refs, refused, regUp>>
    BY <1>8 DEF ShutdownEnters
  <2> QED BY <1>h, <2>1, RefsSame DEF RefsInv, Fresh
<1>9. CASE Unregister
  <2>1. /\ pc = "unregister" /\ UNCHANGED <<regUp, refused>>
        /\ \/ pc' = "crashed" /\ UNCHANGED <<compReg, refs>>
           \/ /\ pc' = "stopping" /\ compReg' = compReg \ {i}
              /\ refs' = IF i \in compReg THEN [refs EXCEPT ![i] = @ - 1] ELSE refs
    BY <1>9 DEF Unregister
  <2>2. CASE pc' = "crashed"
    BY <1>h, <2>1, <2>2, RefsSame DEF RefsInv, Fresh
  <2>3. CASE pc' = "stopping"
    <3>1. ASSUME NEW c \in NkOMs
          PROVE  refs'[c] = One(c \in compReg') + One(c \in refused')
                              + One(pc' = "looping" /\ c = Window)
      <4>1. refs[c] = One(c \in compReg) + One(c \in refused) + 0
        BY <1>h, <2>1 DEF RefsHeld, One
      <4>2. refs'[c] = refs[c] - One(c = i /\ c \in compReg)
        BY <1>i, <2>1, <2>3 DEF One
      <4> QED BY <2>1, <2>3, <4>1, <4>2 DEF One
    <3> QED BY <1>r, <2>3, <3>1 DEF RefsInv, RefsHeld, Fresh
  <2> QED BY <2>1, <2>2, <2>3
<1>10. CASE StopSkips
  <2>1. /\ pc = "stopping" /\ pc' \in {"stopping", "stopped", "unregister"}
        /\ UNCHANGED <<compReg, refs, refused, regUp>>
    BY <1>10 DEF StopSkips, StopNext
  <2> QED BY <1>h, <2>1, RefsSame DEF RefsInv, Fresh
<1>11. CASE StopSucceeds
  <2>1. /\ pc = "stopping" /\ pc' \in {"stopping", "stopped", "unregister", "crashed"}
        /\ refused' = refused
        /\ \/ UNCHANGED <<compReg, refs, regUp>>
           \/ /\ compReg' = {}
              /\ refs' = [c \in NkOMs |-> IF c \in compReg THEN refs[c] - 1 ELSE refs[c]]
    BY <1>11 DEF StopSucceeds, StopNext
  <2>2. CASE UNCHANGED <<compReg, refs, regUp>>
    BY <1>h, <2>1, <2>2, RefsSame DEF RefsInv, Fresh
  <2>3. CASE /\ compReg' = {}
             /\ refs' = [c \in NkOMs |-> IF c \in compReg THEN refs[c] - 1 ELSE refs[c]]
    <3>1. ASSUME NEW c \in NkOMs
          PROVE  refs'[c] = One(c \in compReg') + One(c \in refused')
                              + One(pc' = "looping" /\ c = Window)
      <4>1. refs[c] = One(c \in compReg) + One(c \in refused) + 0
        BY <1>h, <2>1 DEF RefsHeld, One
      <4>2. refs'[c] = refs[c] - One(c \in compReg)
        BY <1>i, <2>3 DEF One
      <4> QED BY <2>1, <2>3, <4>1, <4>2 DEF One
    <3> QED BY <1>r, <2>1, <3>1 DEF RefsInv, RefsHeld, Fresh
  <2> QED BY <2>1, <2>2, <2>3
<1>12. CASE StopFails
  <2>1. pc = "stopping" /\ pc' = "stopped" /\ UNCHANGED <<compReg, refs, refused, regUp>>
    BY <1>12 DEF StopFails
  <2> QED BY <1>h, <2>1, RefsSame DEF RefsInv, Fresh
<1>13. CASE UNCHANGED vars
  BY <1>13, <1>h DEF vars, RefsInv, RefsHeld, Fresh, One
<1> QED BY <1>1, <1>2, <1>3, <1>4, <1>5, <1>6, <1>7, <1>8, <1>9, <1>10, <1>11, <1>12, <1>13
        DEF Next

(* The references on an instance are exact, whichever callbacks and        *)
(* registrations failed before: one of the registry, one of the main loop  *)
(* on the window, and one that a refused registration has left for ever.   *)
THEOREM ApplicationRefsHeld == Spec => []RefsHeld
<1>1. RefsInv => RefsHeld
  BY DEF RefsInv
<1> QED BY <1>1, AppInit, AppStep, RefsInit, RefsStep, PTL DEF Spec

(* The instances in the registry belong to components at or below the one  *)
(* the startup ended at, and the shutdown takes them out from the top.     *)
Below ==
  /\ pc \in {"boot", "started", "looping", "left"} => \A c \in compReg : c <= compIndex
  /\ pc = "starting" => \A c \in compReg : c < i
  /\ pc = "register" => compIndex = i /\ \A c \in compReg : c < i
  /\ pc = "unregister" => \A c \in compReg : c <= i
  /\ pc = "stopping" => \A c \in compReg : c < i

LEMMA BelowInit == Init => Below
BY DEF Init, Below

LEMMA BelowStep == AppInv /\ Below /\ [Next]_vars => Below'
<1> SUFFICES ASSUME AppInv, Below, [Next]_vars PROVE Below'
  OBVIOUS
<1>c. \A c \in NkOMs : c \in Nat
  BY TableAssumption DEF Comp
<1>i. i \in Nat /\ compIndex \in Nat /\ compReg \subseteq NkOMs
  BY TableAssumption DEF AppInv, TypeOK, Comp
<1>1. CASE SpecsInvalid
  BY <1>1 DEF SpecsInvalid, Below
<1>2. CASE SpecsValid
  BY <1>2 DEF SpecsValid, Below
<1>3. CASE StageSucceeds
  <2>1. /\ pc = "starting" /\ i' = i /\ compReg' = compReg /\ compIndex' = i
        /\ pc' \in {"starting", "register"}
    BY <1>3 DEF StageSucceeds, Invoked
  <2> QED BY <2>1 DEF Below
<1>4. CASE StageFails
  <2>1. pc = "starting" /\ compReg' = compReg /\ compIndex' = i /\ pc' = "left"
    BY <1>4 DEF StageFails, Invoked
  <2> QED BY <1>c, <1>i, <2>1 DEF Below
<1>5. CASE Register
  <2>1. /\ pc = "register" /\ compIndex' = compIndex /\ compReg' \subseteq compReg \cup {i}
        /\ pc' = "started" \/ (pc' = "starting" /\ i' = i + 1)
    BY <1>5 DEF Register, StartNext
  <2>2. compIndex = i /\ \A c \in compReg' : c \in Nat /\ c <= i
    BY <1>c, <1>i, <2>1 DEF Below
  <2> QED BY <1>i, <2>1, <2>2 DEF Below
<1>6. CASE RunEnters
  <2>1. pc = "started" /\ UNCHANGED <<compIndex, compReg>> /\ pc' \in {"looping", "crashed"}
    BY <1>6 DEF RunEnters
  <2> QED BY <2>1 DEF Below
<1>7. CASE RunLeaves
  BY <1>7 DEF RunLeaves, Below
<1>8. CASE ShutdownEnters
  <2>1. /\ pc = "left" /\ compReg' = compReg
        /\ pc' = "stopped" \/ (pc' = "unregister" /\ i' = compIndex)
    BY <1>8 DEF ShutdownEnters
  <2> QED BY <2>1 DEF Below
<1>9. CASE Unregister
  <2>1. /\ pc = "unregister" /\ i' = i
        /\ pc' = "crashed" \/ (pc' = "stopping" /\ compReg' = compReg \ {i})
    BY <1>9 DEF Unregister
  <2> QED BY <1>c, <1>i, <2>1 DEF Below
<1>n. ASSUME StopNext, pc = "stopping", compReg' \subseteq compReg PROVE Below'
  <2>1. \/ pc' = "stopping" /\ i' = i
        \/ pc' = "stopped"
        \/ pc' = "unregister" /\ i' = i - 1
    BY <1>n DEF StopNext
  <2> QED BY <1>c, <1>i, <1>n, <2>1 DEF Below
<1>10. CASE StopSkips
  BY <1>n, <1>10 DEF StopSkips
<1>11. CASE StopSucceeds
  <2>1. /\ pc = "stopping" /\ compReg' \subseteq compReg
        /\ StopNext \/ pc' = "crashed"
    BY <1>11 DEF StopSucceeds
  <2> QED BY <1>n, <2>1 DEF Below
<1>12. CASE StopFails
  <2>1. pc' = "stopped"
    BY <1>12 DEF StopFails
  <2> QED BY <2>1 DEF Below
<1>13. CASE UNCHANGED vars
  BY <1>13 DEF vars, Below
<1> QED BY <1>1, <1>2, <1>3, <1>4, <1>5, <1>6, <1>7, <1>8, <1>9, <1>10, <1>11, <1>12, <1>13
        DEF Next

LEMMA DrainedFollows == AppInv /\ Below => RegistryDrained
<1> SUFFICES ASSUME AppInv, Below, pc = "stopping", i <= Registrar, NEW c \in compReg
             PROVE  FALSE
  BY DEF RegistryDrained
<1>1. c < i /\ c > Registrar /\ c \in Nat /\ Registrar \in Nat /\ i \in Nat
  BY TableAssumption DEF AppInv, TypeOK, Below, Comp
<1> QED BY <1>1

(* No instance is left in the component registry when NkOM's PreShutdown   *)
(* iterates over it, wherever the startup ended.                           *)
THEOREM ApplicationRegistryDrained == Spec => []RegistryDrained
BY DrainedFollows, AppInit, AppStep, BelowInit, BelowStep, PTL DEF Spec

(***************************************************************************)
(* The history of the callbacks.                                           *)
(***************************************************************************)
(* Before the shutdown no callback of it has run; the startup has run what *)
(* lies before the point it is at, successfully, and nothing after it.     *)
Earlier(c, s, d, t) == c < d \/ (c = d /\ s < t)

StartInv ==
  /\ pc \in {"boot", "starting", "register", "started", "looping", "left"} =>
       \A c \in Comp, s \in Stages : result[<<c, Opposite(s)>>] = "none"
  /\ pc = "boot" => \A c \in Comp, s \in Stages : result[<<c, s>>] = "none"
  /\ pc = "starting" =>
       \A c \in Comp, s \in Stages :
         result[<<c, s>>] = IF Earlier(c, s, i, j) THEN "ok" ELSE "none"
  /\ pc = "register" =>
       \A c \in Comp, s \in Stages : result[<<c, s>>] = IF c <= i THEN "ok" ELSE "none"
  /\ pc \in {"started", "looping", "left"} =>
       \A c \in Comp, s \in Stages : c > compIndex => result[<<c, s>>] = "none"
  /\ Succeeded(N - 1, PostStartup) =>
       \A c \in Comp, s \in Stages : Succeeded(c, s)

(* What the flags still know of the stages.                                *)
FlagInv ==
  /\ \A s \in Stages :
       /\ \E c \in Comp : Succeeded(c, s)
       /\ \A c \in Comp : result[<<c, s>>] # "err"
       => compSucc[s]
  /\ Succeeded(Registrar, PostStartup) => compSucc[PostStartup]

(* The shutdown has passed the stages above <<d, t>>, and of them it has   *)
(* run the undoing callbacks of those that succeeded and are flagged.      *)
UndoneTo(d, t) ==
  \A c \in Comp, s \in Stages :
    /\ Ran(c, Opposite(s)) => Earlier(d, t, c, s)
    /\ Earlier(d, t, c, s) /\ compSucc[s] /\ Succeeded(c, s) => Ran(c, Opposite(s))

UndoInv ==
  /\ pc = "unregister" => UndoneTo(i, PostStartup)
  /\ pc = "stopping" => UndoneTo(i, j)
  /\ pc \in {"stopped", "crashed"} => \E d, t \in Int : UndoneTo(d, t)
  /\ pc = "stopped" =>
       \/ ~NothingFailed \/ ~Succeeded(N - 1, PostStartup)
       \/ UndoneTo(-1, PostStartup) /\ compReg = {}

(* CrashCause in terms of the references.                                  *)
CrashKnown ==
  pc = "crashed" =>
    \/ result[<<Registrar, Startup>>] = "err"
    \/ Window \notin compReg /\ refs[Window] > 0 /\ regUp

(* The registry is there until the shutdown has reached NkOM, unless the   *)
(* startup of NkOM failed.                                                 *)
RegistryInv ==
  /\ pc = "boot" => compIndex = 0 /\ ~compSucc[PostStartup]
  /\ pc \in {"starting", "register"} => \A c \in NkOMs : c < i => refs[c] > 0
  /\ pc \in {"started", "looping"} => regUp /\ refs[Window] > 0
  /\ pc = "left" /\ compIndex > Registrar => regUp
  /\ pc \in {"unregister", "stopping"} /\ i > Registrar => regUp
  /\ \/ pc = "left" /\ compIndex = Registrar
     \/ pc = "unregister" /\ i = Registrar
     \/ pc = "stopping" /\ i = Registrar /\ j = PostStartup
     => ~compSucc[PostStartup] \/ regUp \/ result[<<Registrar, Startup>>] = "err"
  /\ Ran(Registrar, PreShutdown) => ~regUp
  /\ CrashKnown

LEMMA OppositeFacts ==
  /\ \A s \in Stages : Opposite(s) \in Cbs /\ Opposite(s) \notin Stages
  /\ \A s, t \in Stages : Opposite(s) = Opposite(t) => s = t
  /\ Opposite(PostStartup) = PreShutdown /\ Opposite(Startup) = Shutdown
  /\ \A s \in Stages : Opposite(s) = PreShutdown => s = PostStartup
BY DEF Stages, Cbs, Opposite, PreStartup, Startup, PostStartup, PreShutdown, Shutdown

(* What a callback of the startup leaves in the history and the flags.     *)
LEMMA StartInvoked ==
  ASSUME TypeOK, NEW res \in {"ok", "err"}, Invoked(i, j, res)
  PROVE  /\ \A c \in Comp, s \in Stages :
              result'[<<c, s>>] = IF c = i /\ s = j THEN res ELSE result[<<c, s>>]
         /\ \A c \in Comp, s \in Stages :
              result'[<<c, Opposite(s)>>] = result[<<c, Opposite(s)>>]
         /\ \A s \in Stages : s # j => compSucc'[s] = compSucc[s]
         /\ compSucc'[j] <=> res = "ok"
         /\ compIndex' = i
<1>1. /\ i \in Comp /\ j \in Stages /\ compSucc \in [Stages -> BOOLEAN]
      /\ result \in [Comp \X Cbs -> {"none", "ok", "err"}]
  BY DEF TypeOK
<1>2. result' = [result EXCEPT ![<<i, j>>] = res] /\ compIndex' = i
  BY DEF Invoked
<1>3. \A c \in Comp, b \in Cbs : result'[<<c, b>>] = IF c = i /\ b = j THEN res ELSE result[<<c, b>>]
  BY <1>1, <1>2, StageTypes
<1>4. compSucc' = [compSucc EXCEPT ![j] = (res = "ok")]
  BY <1>1 DEF Invoked
<1>5. /\ \A s \in Stages : s # j => compSucc'[s] = compSucc[s]
      /\ compSucc'[j] <=> res = "ok"
  BY <1>1, <1>4
<1>6. \A c \in Comp, s \in Stages : result'[<<c, Opposite(s)>>] = result[<<c, Opposite(s)>>]
  BY <1>1, <1>3, OppositeFacts
<1> QED BY <1>2, <1>3, <1>5, <1>6, StageTypes

(* What a callback of the shutdown leaves there.                           *)
LEMMA StopInvoked ==
  ASSUME TypeOK, NEW res \in {"ok", "err"}, Invoked(i, Opposite(j), res)
  PROVE  /\ \A c \in Comp, s \in Stages : result'[<<c, s>>] = result[<<c, s>>]
         /\ \A c \in Comp, s \in Stages :
              result'[<<c, Opposite(s)>>]
                = IF c = i /\ s = j THEN res ELSE result[<<c, Opposite(s)>>]
         /\ compSucc' = compSucc /\ compIndex' = i
<1>1. /\ i \in Comp /\ j \in Stages
      /\ result \in [Comp \X Cbs -> {"none", "ok", "err"}]
  BY DEF TypeOK
<1>b. PICK b : b = Opposite(j)
  OBVIOUS
<1>2. b \in Cbs /\ b \notin Stages
  BY <1>1, <1>b, OppositeFacts
<1>3. result' = [result EXCEPT ![<<i, b>>] = res] /\ compIndex' = i /\ compSucc' = compSucc
  BY <1>2, <1>b DEF Invoked
<1>4. \A c \in Comp, d \in Cbs : result'[<<c, d>>] = IF c = i /\ d = b THEN res ELSE result[<<c, d>>]
  BY <1>1, <1>2, <1>3
<1>5. \A c \in Comp, s \in Stages : result'[<<c, s>>] = result[<<c, s>>]
  BY <1>2, <1>4, StageTypes
<1>6. \A c \in Comp, s \in Stages :
        result'[<<c, Opposite(s)>>] = IF c = i /\ s = j THEN res ELSE result[<<c, Opposite(s)>>]
  BY <1>1, <1>b, <1>4, OppositeFacts
<1> QED BY <1>3, <1>5, <1>6

LEMMA StopNextCases ==
  ASSUME TypeOK, StopNext
  PROVE  \/ pc' = "stopping" /\ i' = i /\ j' = j - 1 /\ j > 0
         \/ pc' = "stopped" /\ i = 0 /\ j = 0
         \/ pc' = "unregister" /\ i' = i - 1 /\ j = 0 /\ i > 0
<1>1. i \in Nat /\ j \in {0, 1, 2}
  BY StageTypes DEF TypeOK, Comp
<1> QED BY <1>1 DEF StopNext, IsFirst, PreStartup

LEMMA StartInit == Init => StartInv
<1> SUFFICES ASSUME Init PROVE StartInv
  OBVIOUS
<1>1. pc = "boot" /\ \A c \in Comp, b \in Cbs : result[<<c, b>>] = "none"
  BY DEF Init
<1>2. \A c \in Comp, s \in Stages : result[<<c, Opposite(s)>>] = "none" /\ result[<<c, s>>] = "none"
  BY <1>1, StageTypes, OppositeFacts
<1>3. N - 1 \in Comp /\ PostStartup \in Stages
  BY TableAssumption DEF Comp, Stages
<1>4. ~Succeeded(N - 1, PostStartup)
  BY <1>2, <1>3 DEF Succeeded
<1> QED BY <1>1, <1>2, <1>4 DEF StartInv

LEMMA StartStep == AppInv /\ Below /\ StartInv /\ [Next]_vars => StartInv'
<1> SUFFICES ASSUME AppInv, Below, StartInv, [Next]_vars PROVE StartInv'
  OBVIOUS
<1>i. /\ i \in Nat /\ i \in Comp /\ j \in Stages /\ j \in {0, 1, 2} /\ compIndex \in Nat
      /\ N \in Nat /\ N - 1 \in Comp /\ PostStartup \in Stages /\ TypeOK /\ PostStartup = 2
      /\ Comp \subseteq Nat /\ \A c \in Comp : c <= N - 1
  BY TableAssumption, StageTypes DEF AppInv, TypeOK, Comp, PostStartup
<1>1. CASE SpecsInvalid
  <2>1. pc = "boot" /\ pc' = "left" /\ result' = result
    BY <1>1 DEF SpecsInvalid
  <2> QED BY <2>1 DEF StartInv, Succeeded
<1>2. CASE SpecsValid
  <2>1. pc = "boot" /\ pc' = "starting" /\ result' = result /\ i' = 0 /\ j' = 0
    BY <1>2 DEF SpecsValid, PreStartup
  <2>2. \A c \in Comp, s \in Stages : ~Earlier(c, s, 0, 0)
    BY <1>i, StageTypes DEF Earlier
  <2> QED BY <2>1, <2>2 DEF StartInv, Succeeded
<1>3. CASE StageSucceeds
  <2>1. /\ pc = "starting" /\ Invoked(i, j, "ok") /\ i' = i
        /\ \/ j = 2 /\ pc' = "register" /\ j' = j
           \/ j # 2 /\ pc' = "starting" /\ j' = j + 1
    BY <1>3 DEF StageSucceeds, PostStartup
  <2>2. /\ \A c \in Comp, s \in Stages :
             result'[<<c, s>>] = IF c = i /\ s = j THEN "ok" ELSE result[<<c, s>>]
        /\ \A c \in Comp, s \in Stages : result'[<<c, Opposite(s)>>] = result[<<c, Opposite(s)>>]
        /\ compIndex' = i
    BY <1>i, <2>1, StartInvoked
  <2>3. \A c \in Comp, s \in Stages :
          result[<<c, s>>] = IF Earlier(c, s, i, j) THEN "ok" ELSE "none"
    BY <2>1 DEF StartInv
  <2>4. \A c \in Comp, s \in Stages :
          result'[<<c, s>>] = IF Earlier(c, s, i, j + 1) THEN "ok" ELSE "none"
    <3> SUFFICES ASSUME NEW c \in Comp, NEW s \in Stages
                 PROVE  result'[<<c, s>>] = IF Earlier(c, s, i, j + 1) THEN "ok" ELSE "none"
      OBVIOUS
    <3>1. c \in Nat /\ s \in {0, 1, 2}
      BY <1>i, StageTypes
    <3>2. Earlier(c, s, i, j + 1) <=> Earlier(c, s, i, j) \/ (c = i /\ s = j)
      BY <1>i, <3>1 DEF Earlier
    <3> QED BY <2>2, <2>3, <3>2
  <2>5. j = 2 => \A c \in Comp, s \in Stages :
                   result'[<<c, s>>] = IF c <= i THEN "ok" ELSE "none"
    <3> SUFFICES ASSUME j = 2, NEW c \in Comp, NEW s \in Stages
                 PROVE  result'[<<c, s>>] = IF c <= i THEN "ok" ELSE "none"
      OBVIOUS
    <3>1. c \in Nat /\ s \in {0, 1, 2}
      BY <1>i, StageTypes
    <3>2. Earlier(c, s, i, j + 1) <=> c <= i
      BY <1>i, <3>1 DEF Earlier
    <3> QED BY <2>4, <3>2
  <2>6. ASSUME result'[<<N - 1, PostStartup>>] = "ok", NEW c \in Comp, NEW s \in Stages
        PROVE  result'[<<c, s>>] = "ok"
    <3>1. Earlier(N - 1, 2, i, j + 1)
      BY <1>i, <2>4, <2>6
    <3>2. i = N - 1 /\ j = 2
      BY <1>i, <3>1 DEF Earlier
    <3> QED BY <1>i, <2>5, <3>2
  <2>7. \A c \in Comp, s \in Stages : result'[<<c, Opposite(s)>>] = "none"
    BY <2>1, <2>2 DEF StartInv
  <2> QED BY <2>1, <2>4, <2>5, <2>6, <2>7 DEF StartInv, Succeeded
<1>4. CASE StageFails
  <2>1. pc = "starting" /\ Invoked(i, j, "err") /\ pc' = "left" /\ i' = i
    BY <1>4 DEF StageFails
  <2>2. /\ \A c \in Comp, s \in Stages :
             result'[<<c, s>>] = IF c = i /\ s = j THEN "err" ELSE result[<<c, s>>]
        /\ \A c \in Comp, s \in Stages : result'[<<c, Opposite(s)>>] = result[<<c, Opposite(s)>>]
        /\ compIndex' = i
    BY <1>i, <2>1, StartInvoked
  <2>3. \A c \in Comp, s \in Stages :
          result[<<c, s>>] = IF Earlier(c, s, i, j) THEN "ok" ELSE "none"
    BY <2>1 DEF StartInv
  <2>4. \A c \in Comp, s \in Stages : c > i => result'[<<c, s>>] = "none"
    BY <1>i, <2>2, <2>3 DEF Earlier
  <2>5. result'[<<N - 1, PostStartup>>] # "ok"
    <3>1. ~Earlier(N - 1, 2, i, j)
      BY <1>i DEF Earlier
    <3> QED BY <1>i, <2>2, <2>3, <3>1
  <2>6. \A c \in Comp, s \in Stages : result'[<<c, Opposite(s)>>] = "none"
    BY <2>1, <2>2 DEF StartInv
  <2> QED BY <2>1, <2>2, <2>4, <2>5, <2>6 DEF StartInv, Succeeded
<1>5. CASE Register
  <2>1. /\ pc = "register" /\ result' = result /\ compIndex' = compIndex
        /\ \/ pc' = "started" /\ i' = i
           \/ pc' = "starting" /\ i' = i + 1 /\ j' = 0
    BY <1>5 DEF Register, StartNext, PreStartup
  <2>2. compIndex = i
    BY <2>1 DEF Below
  <2>3. \A c \in Comp, s \in Stages : result[<<c, s>>] = IF c <= i THEN "ok" ELSE "none"
    BY <2>1 DEF StartInv
  <2>4. \A c \in Comp, s \in Stages :
          result[<<c, s>>] = IF Earlier(c, s, i + 1, 0) THEN "ok" ELSE "none"
    <3> SUFFICES ASSUME NEW c \in Comp, NEW s \in Stages
                 PROVE  result[<<c, s>>] = IF Earlier(c, s, i + 1, 0) THEN "ok" ELSE "none"
      OBVIOUS
    <3>1. c \in Nat /\ s \in {0, 1, 2}
      BY <1>i, StageTypes
    <3>2. Earlier(c, s, i + 1, 0) <=> c <= i
      BY <1>i, <3>1 DEF Earlier
    <3> QED BY <2>3, <3>2
  <2>5. \A c \in Comp, s \in Stages : c > compIndex => result[<<c, s>>] = "none"
    BY <1>i, <2>2, <2>3
  <2> QED BY <2>1, <2>4, <2>5 DEF StartInv, Succeeded
<1>6. CASE RunEnters
  <2>1. pc = "started" /\ pc' \in {"looping", "crashed"} /\ result' = result /\ compIndex' = compIndex
    BY <1>6 DEF RunEnters
  <2> QED BY <2>1 DEF StartInv, Succeeded
<1>7. CASE RunLeaves
  <2>1. pc = "looping" /\ pc' = "left" /\ result' = result /\ compIndex' = compIndex
    BY <1>7 DEF RunLeaves
  <2> QED BY <2>1 DEF StartInv, Succeeded
<1>8. CASE ShutdownEnters \/ Unregister \/ StopSkips
  <2>1. /\ pc' \in {"stopped", "unregister", "stopping", "crashed"} /\ result' = result
    BY <1>i, <1>8, StopNextType DEF ShutdownEnters, Unregister, StopSkips
  <2> QED BY <2>1 DEF StartInv, Succeeded
<1>9. CASE StopSucceeds \/ StopFails
  <2>1. /\ pc' \in {"stopped", "unregister", "stopping", "crashed"}
        /\ \E res \in {"ok", "err"} : Invoked(i, Opposite(j), res)
    BY <1>i, <1>9, StopNextType DEF StopSucceeds, StopFails
  <2>2. \A c \in Comp, s \in Stages : result'[<<c, s>>] = result[<<c, s>>]
    BY <1>i, <2>1, StopInvoked
  <2>3. result[<<N - 1, PostStartup>>] = "ok" => \A c \in Comp, s \in Stages : result[<<c, s>>] = "ok"
    BY DEF StartInv, Succeeded
  <2>n. PICK n \in Comp : n = N - 1
    BY <1>i
  <2>4. result'[<<N - 1, PostStartup>>] = "ok" => \A c \in Comp, s \in Stages : result'[<<c, s>>] = "ok"
    <3>1. result'[<<n, PostStartup>>] = result[<<n, PostStartup>>]
      BY <1>i, <2>2
    <3> QED BY <2>n, <2>2, <2>3, <3>1
  <2> QED BY <2>1, <2>4 DEF StartInv, Succeeded
<1>10. CASE UNCHANGED vars
  BY <1>10 DEF vars, StartInv, Succeeded
<1> QED BY <1>1, <1>2, <1>3, <1>4, <1>5, <1>6, <1>7, <1>8, <1>9, <1>10 DEF Next

LEMMA FlagInit == Init => FlagInv
<1> SUFFICES ASSUME Init PROVE FlagInv
  OBVIOUS
<1>1. \A c \in Comp, b \in Cbs : result[<<c, b>>] = "none"
  BY DEF Init
<1>2. \A c \in Comp, s \in Stages : ~Succeeded(c, s)
  BY <1>1, StageTypes DEF Succeeded
<1>3. Registrar \in Comp /\ PostStartup \in Stages
  BY TableAssumption DEF Stages
<1> QED BY <1>2, <1>3 DEF FlagInv

LEMMA FlagStep == AppInv /\ StartInv /\ FlagInv /\ [Next]_vars => FlagInv'
<1> SUFFICES ASSUME AppInv, StartInv, FlagInv, [Next]_vars PROVE FlagInv'
  OBVIOUS
<1>i. /\ i \in Nat /\ i \in Comp /\ j \in Stages /\ TypeOK /\ Registrar \in Comp /\ Registrar \in Nat
      /\ PostStartup \in Stages /\ PostStartup = 2 /\ compSucc \in [Stages -> BOOLEAN]
  BY TableAssumption, StageTypes DEF AppInv, TypeOK, Comp, PostStartup
<1>u. ASSUME compSucc' = compSucc,
             \A c \in Comp, s \in Stages : result'[<<c, s>>] = result[<<c, s>>]
      PROVE  FlagInv'
  BY <1>i, <1>u DEF FlagInv, Succeeded
<1>1. CASE SpecsValid
  <2>1. pc = "boot" /\ result' = result
    BY <1>1 DEF SpecsValid
  <2>2. \A c \in Comp, s \in Stages : result'[<<c, s>>] = "none"
    BY <2>1 DEF StartInv
  <2> QED BY <1>i, <2>2 DEF FlagInv, Succeeded
<1>2. CASE StageSucceeds
  <2>1. pc = "starting" /\ Invoked(i, j, "ok")
    BY <1>2 DEF StageSucceeds
  <2>2. /\ \A c \in Comp, s \in Stages :
             result'[<<c, s>>] = IF c = i /\ s = j THEN "ok" ELSE result[<<c, s>>]
        /\ \A s \in Stages : s # j => compSucc'[s] = compSucc[s]
        /\ compSucc'[j] <=> "ok" = "ok"
    BY <1>i, <2>1, StartInvoked
  <2>3. ASSUME NEW s \in Stages, NEW d \in Comp, result'[<<d, s>>] = "ok",
               \A c \in Comp : result'[<<c, s>>] # "err"
        PROVE  compSucc'[s]
    <3>1. CASE s = j
      BY <2>2, <3>1
    <3>2. CASE s # j
      BY <2>2, <2>3, <3>2 DEF FlagInv, Succeeded
    <3> QED BY <3>1, <3>2
  <2>4. ASSUME result'[<<Registrar, PostStartup>>] = "ok" PROVE compSucc'[PostStartup]
    <3>1. CASE j = PostStartup
      BY <2>2, <3>1
    <3>2. CASE j # PostStartup
      BY <1>i, <2>2, <2>4, <3>2 DEF FlagInv, Succeeded
    <3> QED BY <3>1, <3>2
  <2> QED BY <2>3, <2>4 DEF FlagInv, Succeeded
<1>3. CASE StageFails
  <2>1. pc = "starting" /\ Invoked(i, j, "err") /\ <<i, j>> \in Callbacks
    BY <1>3 DEF StageFails
  <2>2. /\ \A c \in Comp, s \in Stages :
             result'[<<c, s>>] = IF c = i /\ s = j THEN "err" ELSE result[<<c, s>>]
        /\ \A s \in Stages : s # j => compSucc'[s] = compSucc[s]
    BY <1>i, <2>1, StartInvoked
  <2>3. ASSUME NEW s \in Stages, NEW d \in Comp, result'[<<d, s>>] = "ok",
               \A c \in Comp : result'[<<c, s>>] # "err"
        PROVE  compSucc'[s]
    <3>1. s # j
      BY <1>i, <2>2, <2>3
    <3> QED BY <2>2, <2>3, <3>1 DEF FlagInv, Succeeded
  <2>4. ASSUME result'[<<Registrar, PostStartup>>] = "ok" PROVE compSucc'[PostStartup]
    <3>1. j # PostStartup
      <4> SUFFICES ASSUME j = PostStartup PROVE FALSE
        OBVIOUS
      <4>1. i <= Registrar
        BY <1>i, <2>1, TableAssumption
      <4>2. ~Earlier(Registrar, PostStartup, i, j)
        BY <1>i, <4>1 DEF Earlier
      <4>3. result[<<Registrar, PostStartup>>] = "none"
        BY <1>i, <2>1, <4>2 DEF StartInv
      <4> QED BY <1>i, <2>2, <2>4, <4>3
    <3> QED BY <1>i, <2>2, <2>4, <3>1 DEF FlagInv, Succeeded
  <2> QED BY <2>3, <2>4 DEF FlagInv, Succeeded
<1>4. CASE StopSucceeds \/ StopFails
  <2>1. \E res \in {"ok", "err"} : Invoked(i, Opposite(j), res)
    BY <1>4 DEF StopSucceeds, StopFails
  <2> QED BY <1>i, <1>u, <2>1, StopInvoked
<1>5. CASE \/ SpecsInvalid \/ Register \/ RunEnters \/ RunLeaves \/ ShutdownEnters
           \/ Unregister \/ StopSkips \/ UNCHANGED vars
  BY <1>5, <1>u DEF SpecsInvalid, Register, RunEnters, RunLeaves, ShutdownEnters,
                    Unregister, StopSkips, vars
<1> QED BY <1>1, <1>2, <1>3, <1>4, <1>5 DEF Next

(* The point the shutdown is at moves past one stage at a time.            *)
LEMMA UndoneMoves ==
  ASSUME TypeOK, UndoneTo(i, j), compSucc' = compSucc,
         \A c \in Comp, s \in Stages : result'[<<c, s>>] = result[<<c, s>>],
         \A c \in Comp, s \in Stages :
           ~(c = i /\ s = j) => result'[<<c, Opposite(s)>>] = result[<<c, Opposite(s)>>],
         compSucc[j] => result'[<<i, Opposite(j)>>] # "none",
         ~compSucc[j] => result'[<<i, Opposite(j)>>] = result[<<i, Opposite(j)>>],
         NEW d \in Int, NEW t \in Int,
         \/ d = i /\ t = j - 1
         \/ j = 0 /\ d = i - 1 /\ t = 2
  PROVE  UndoneTo(d, t)'
<1> SUFFICES ASSUME NEW c \in Comp, NEW s \in Stages
             PROVE  /\ result'[<<c, Opposite(s)>>] # "none" => Earlier(d, t, c, s)
                    /\ Earlier(d, t, c, s) /\ compSucc'[s] /\ result'[<<c, s>>] = "ok"
                         => result'[<<c, Opposite(s)>>] # "none"
  BY DEF UndoneTo, Ran, Succeeded, Earlier
<1>1. c \in Nat /\ s \in {0, 1, 2} /\ i \in Nat /\ j \in {0, 1, 2}
  BY StageTypes DEF TypeOK, Comp
<1>2. Earlier(d, t, c, s) <=> Earlier(i, j, c, s) \/ (c = i /\ s = j)
  BY <1>1 DEF Earlier
<1>3. /\ result[<<c, Opposite(s)>>] # "none" => Earlier(i, j, c, s)
      /\ Earlier(i, j, c, s) /\ compSucc[s] /\ result[<<c, s>>] = "ok"
           => result[<<c, Opposite(s)>>] # "none"
  BY DEF UndoneTo, Ran, Succeeded
<1>4. CASE c = i /\ s = j
  BY <1>2, <1>3, <1>4
<1>5. CASE ~(c = i /\ s = j)
  BY <1>2, <1>3, <1>5
<1> QED BY <1>4, <1>5

LEMMA UndoStep ==
  AppInv /\ Below /\ RegistryDrained /\ StartInv /\ UndoInv /\ [Next]_vars => UndoInv'
<1> SUFFICES ASSUME AppInv, Below, RegistryDrained, StartInv, UndoInv, [Next]_vars PROVE UndoInv'
  OBVIOUS
<1>i. /\ i \in Nat /\ i \in Comp /\ j \in Stages /\ j \in {0, 1, 2} /\ TypeOK
      /\ compIndex \in Nat /\ N \in Nat /\ N - 1 \in Comp /\ N - 1 > 0
      /\ PostStartup \in Stages /\ PostStartup = 2
      /\ Registrar \in Nat /\ Comp \subseteq Nat /\ \A c \in Comp : c < N
      /\ compIndex \in Comp
  BY TableAssumption, StageTypes DEF AppInv, TypeOK, Comp, PostStartup
<1>n. ASSUME \A c \in Comp, s \in Stages : result[<<c, Opposite(s)>>] = "none", result' = result
      PROVE  \E d, t \in Int : UndoneTo(d, t)'
  <2>1. N \in Int /\ 0 \in Int
    BY <1>i
  <2>2. \A c \in Comp, s \in Stages : ~Earlier(N, 0, c, s)
    BY <1>i DEF Earlier
  <2>3. UndoneTo(N, 0)'
    BY <1>n, <2>2 DEF UndoneTo, Ran, Earlier
  <2> QED BY <2>1, <2>3
<1>1. CASE SpecsInvalid \/ SpecsValid \/ StageSucceeds \/ StageFails \/ Register \/ RunLeaves
  <2>1. pc' \in {"left", "starting", "register", "started"}
    BY <1>1 DEF SpecsInvalid, SpecsValid, StageSucceeds, StageFails, Register, StartNext, RunLeaves
  <2> QED BY <2>1 DEF UndoInv
<1>2. CASE RunEnters
  <2>1. pc = "started" /\ pc' \in {"looping", "crashed"} /\ result' = result
    BY <1>2 DEF RunEnters
  <2>2. \A c \in Comp, s \in Stages : result[<<c, Opposite(s)>>] = "none"
    BY <2>1 DEF StartInv
  <2>3. \E d, t \in Int : UndoneTo(d, t)'
    BY <1>n, <2>1, <2>2
  <2> QED BY <2>1, <2>3 DEF UndoInv
<1>3. CASE ShutdownEnters
  <2>1. /\ pc = "left" /\ result' = result /\ compSucc' = compSucc
        /\ \/ compIndex = 0 /\ pc' = "stopped"
           \/ pc' = "unregister" /\ i' = compIndex
    BY <1>3 DEF ShutdownEnters
  <2>2. /\ \A c \in Comp, s \in Stages : result[<<c, Opposite(s)>>] = "none"
        /\ \A c \in Comp, s \in Stages : c > compIndex => result[<<c, s>>] = "none"
    BY <2>1 DEF StartInv
  <2>3. CASE pc' = "stopped"
    <3>1. compIndex = 0
      BY <2>1, <2>3
    <3>2. result[<<N - 1, PostStartup>>] = "none"
      BY <1>i, <2>2, <3>1
    <3>3. ~Succeeded(N - 1, PostStartup)'
      BY <2>1, <3>2 DEF Succeeded
    <3>4. \E d, t \in Int : UndoneTo(d, t)'
      BY <1>n, <2>1, <2>2
    <3> QED BY <2>3, <3>3, <3>4 DEF UndoInv
  <2>4. CASE pc' = "unregister"
    <3>1. i' = compIndex
      BY <2>1, <2>4
    <3>2. \A c \in Comp, s \in Stages : Earlier(compIndex, 2, c, s) => c > compIndex
      BY <1>i, StageTypes DEF Earlier
    <3>3. UndoneTo(i, PostStartup)'
      BY <1>i, <2>1, <2>2, <3>1, <3>2 DEF UndoneTo, Ran, Succeeded, Earlier
    <3> QED BY <2>4, <3>3 DEF UndoInv
  <2> QED BY <2>1, <2>3, <2>4
<1>4. CASE Unregister
  <2>1. /\ pc = "unregister" /\ result' = result /\ compSucc' = compSucc /\ i' = i
        /\ pc' = "crashed" \/ (pc' = "stopping" /\ j' = PostStartup)
    BY <1>4 DEF Unregister
  <2>2. UndoneTo(i, PostStartup)
    BY <2>1 DEF UndoInv
  <2>3. UndoneTo(i, PostStartup)'
    BY <2>1, <2>2 DEF UndoneTo, Ran, Succeeded, Earlier
  <2>4. CASE pc' = "crashed"
    <3>d. PICK d \in Int : d = i
      BY <1>i
    <3>1. UndoneTo(d, 2)'
      BY <1>i, <2>1, <2>2, <3>d DEF UndoneTo, Ran, Succeeded, Earlier
    <3>2. \E e, t \in Int : UndoneTo(e, t)'
      BY <3>1
    <3> QED BY <2>4, <3>2 DEF UndoInv
  <2>5. CASE pc' = "stopping" /\ j' = PostStartup
    BY <2>3, <2>5 DEF UndoInv, UndoneTo, Earlier
  <2> QED BY <2>1, <2>4, <2>5
<1>p. ASSUME pc = "stopping", compSucc' = compSucc,
             \A c \in Comp, s \in Stages : result'[<<c, s>>] = result[<<c, s>>],
             \A c \in Comp, s \in Stages :
               ~(c = i /\ s = j) => result'[<<c, Opposite(s)>>] = result[<<c, Opposite(s)>>],
             compSucc[j] => result'[<<i, Opposite(j)>>] # "none",
             ~compSucc[j] => result'[<<i, Opposite(j)>>] = result[<<i, Opposite(j)>>],
             NEW d \in Int, NEW t \in Int,
             \/ d = i /\ t = j - 1
             \/ j = 0 /\ d = i - 1 /\ t = 2
      PROVE  UndoneTo(d, t)'
  <2>1. UndoneTo(i, j)
    BY <1>p DEF UndoInv
  <2> QED BY <1>i, <1>p, <2>1, UndoneMoves
<1>q. ASSUME pc = "stopping", compSucc' = compSucc, StopNext, compReg' \subseteq compReg,
             \A c \in Comp, s \in Stages : result'[<<c, s>>] = result[<<c, s>>],
             \A c \in Comp, s \in Stages :
               ~(c = i /\ s = j) => result'[<<c, Opposite(s)>>] = result[<<c, Opposite(s)>>],
             compSucc[j] => result'[<<i, Opposite(j)>>] # "none",
             ~compSucc[j] => result'[<<i, Opposite(j)>>] = result[<<i, Opposite(j)>>]
      PROVE  UndoInv'
  <2>1. \/ pc' = "stopping" /\ i' = i /\ j' = j - 1 /\ j > 0
        \/ pc' = "stopped" /\ i = 0 /\ j = 0
        \/ pc' = "unregister" /\ i' = i - 1 /\ j = 0 /\ i > 0
    BY <1>i, <1>q, StopNextCases
  <2>2. CASE pc' = "stopping" /\ i' = i /\ j' = j - 1
    <3>d. PICK d \in Int : d = i
      BY <1>i
    <3>t. PICK t \in Int : t = j - 1
      BY <1>i
    <3>1. UndoneTo(d, t)'
      BY <1>p, <1>q, <3>d, <3>t
    <3>2. UndoneTo(i, j)'
      BY <2>2, <3>1, <3>d, <3>t DEF UndoneTo, Earlier
    <3> QED BY <2>2, <3>2 DEF UndoInv
  <2>3. CASE pc' = "stopped" /\ i = 0 /\ j = 0
    <3>d. PICK d \in Int : d = -1
      OBVIOUS
    <3>t. PICK t \in Int : t = 2
      OBVIOUS
    <3>1. UndoneTo(d, t)'
      BY <1>p, <1>q, <2>3, <3>d, <3>t
    <3>2. compReg' = {}
      BY <1>i, <1>q, <2>3 DEF RegistryDrained
    <3>3. UndoneTo(-1, PostStartup)'
      BY <1>i, <3>1, <3>d, <3>t DEF UndoneTo, Earlier
    <3> QED BY <2>3, <3>1, <3>2, <3>3 DEF UndoInv
  <2>4. CASE pc' = "unregister" /\ i' = i - 1 /\ j = 0
    <3>d. PICK d \in Int : d = i - 1
      BY <1>i
    <3>t. PICK t \in Int : t = 2
      OBVIOUS
    <3>1. UndoneTo(d, t)'
      BY <1>p, <1>q, <2>4, <3>d, <3>t
    <3>2. UndoneTo(i, PostStartup)'
      BY <1>i, <2>4, <3>1, <3>d, <3>t DEF UndoneTo, Earlier
    <3> QED BY <2>4, <3>2 DEF UndoInv
  <2> QED BY <2>1, <2>2, <2>3, <2>4
<1>5. CASE StopSkips
  <2>1. pc = "stopping" /\ ~compSucc[j] /\ StopNext /\ UNCHANGED <<compSucc, compReg, result>>
    BY <1>5 DEF StopSkips
  <2> QED BY <1>q, <2>1
<1>6. CASE StopSucceeds
  <2>1. /\ pc = "stopping" /\ compSucc[j] /\ Invoked(i, Opposite(j), "ok")
        /\ compReg' \subseteq compReg
        /\ StopNext \/ pc' = "crashed"
    BY <1>6 DEF StopSucceeds
  <2>2. /\ \A c \in Comp, s \in Stages : result'[<<c, s>>] = result[<<c, s>>]
        /\ \A c \in Comp, s \in Stages :
             result'[<<c, Opposite(s)>>]
               = IF c = i /\ s = j THEN "ok" ELSE result[<<c, Opposite(s)>>]
        /\ compSucc' = compSucc
    BY <1>i, <2>1, StopInvoked
  <2>3. result'[<<i, Opposite(j)>>] # "none"
    BY <1>i, <2>2
  <2>4. CASE StopNext
    BY <1>q, <2>1, <2>2, <2>3, <2>4
  <2>5. CASE pc' = "crashed"
    <3>d. PICK d \in Int : d = i
      BY <1>i
    <3>t. PICK t \in Int : t = j - 1
      BY <1>i
    <3>1. UndoneTo(d, t)'
      BY <1>p, <2>1, <2>2, <2>3, <3>d, <3>t
    <3> QED BY <2>5, <3>1 DEF UndoInv
  <2> QED BY <2>1, <2>4, <2>5
<1>7. CASE StopFails
  <2>1. /\ pc = "stopping" /\ compSucc[j] /\ Invoked(i, Opposite(j), "err") /\ pc' = "stopped"
    BY <1>7 DEF StopFails
  <2>2. /\ \A c \in Comp, s \in Stages : result'[<<c, s>>] = result[<<c, s>>]
        /\ \A c \in Comp, s \in Stages :
             result'[<<c, Opposite(s)>>]
               = IF c = i /\ s = j THEN "err" ELSE result[<<c, Opposite(s)>>]
        /\ compSucc' = compSucc
    BY <1>i, <2>1, StopInvoked
  <2>3. result'[<<i, Opposite(j)>>] = "err"
    BY <1>i, <2>2
  <2>4. ~NothingFailed'
    BY <1>i, <2>3, OppositeFacts DEF NothingFailed
  <2>d. PICK d \in Int : d = i
    BY <1>i
  <2>t. PICK t \in Int : t = j - 1
    BY <1>i
  <2>5. UndoneTo(d, t)'
    BY <1>p, <2>1, <2>2, <2>3, <2>d, <2>t
  <2> QED BY <2>1, <2>4, <2>5 DEF UndoInv
<1>8. CASE UNCHANGED vars
  <2>1. UNCHANGED <<pc, i, j, compSucc, result, compReg>>
    BY <1>8 DEF vars
  <2>2. \A d, t : UndoneTo(d, t)' <=> UndoneTo(d, t)
    BY <2>1 DEF UndoneTo, Ran, Succeeded, Earlier
  <2> QED BY <2>1, <2>2 DEF UndoInv, NothingFailed, Succeeded
<1> QED BY <1>1, <1>2, <1>3, <1>4, <1>5, <1>6, <1>7, <1>8 DEF Next

LEMMA RegistryInit == Init => RegistryInv
<1> SUFFICES ASSUME Init PROVE RegistryInv
  OBVIOUS
<1>1. Registrar \in Comp /\ PreShutdown \in Cbs
  BY TableAssumption DEF PreShutdown, Cbs
<1>2. ~Ran(Registrar, PreShutdown)
  BY <1>1 DEF Init, Ran
<1>3. PostStartup \in Stages
  BY DEF Stages
<1> QED BY <1>2, <1>3 DEF Init, RegistryInv, CrashKnown

LEMMA RegistryStep ==
  AppInv /\ Below /\ StartInv /\ RegistryInv /\ [Next]_vars => RegistryInv'
<1> SUFFICES ASSUME AppInv, Below, StartInv, RegistryInv, [Next]_vars PROVE RegistryInv'
  OBVIOUS
<1>i. /\ i \in Nat /\ i \in Comp /\ j \in Stages /\ j \in {0, 1, 2} /\ TypeOK
      /\ compIndex \in Nat /\ N \in Nat /\ Registrar \in Nat /\ Registrar \in Comp
      /\ PostStartup \in Stages /\ PostStartup = 2 /\ Startup \in Stages /\ Startup = 1
      /\ PreStartup = 0 /\ Registrar < N
      /\ Window \in NkOMs /\ \A c \in NkOMs : c \in Nat /\ c < N /\ c > Registrar
      /\ refs \in [NkOMs -> Nat] /\ compSucc \in [Stages -> BOOLEAN]
  BY TableAssumption, StageTypes
     DEF AppInv, TypeOK, Comp, PostStartup, Startup, PreStartup, Stages
<1>o. Opposite(PostStartup) = PreShutdown
  BY OppositeFacts
<1>s. ASSUME pc \in {"boot", "starting", "register", "started", "looping", "left"}
      PROVE  result[<<Registrar, PreShutdown>>] = "none"
  BY <1>i, <1>o, <1>s DEF StartInv
<1>1. CASE SpecsInvalid
  <2>1. /\ pc = "boot" /\ pc' = "left" /\ UNCHANGED <<compIndex, result, regUp, compSucc>>
    BY <1>1 DEF SpecsInvalid
  <2>2. compIndex' = 0 /\ ~compSucc'[PostStartup]
    BY <2>1 DEF RegistryInv
  <2>3. ~(compIndex' > Registrar)
    BY <1>i, <2>2
  <2>4. result'[<<Registrar, PreShutdown>>] = "none"
    BY <1>s, <2>1
  <2> QED BY <2>1, <2>2, <2>3, <2>4 DEF RegistryInv, CrashKnown, Ran
<1>2. CASE SpecsValid
  <2>1. /\ pc = "boot" /\ pc' = "starting" /\ i' = 0 /\ regUp' = FALSE
    BY <1>2 DEF SpecsValid
  <2>2. \A c \in NkOMs : ~(c < 0)
    BY <1>i
  <2> QED BY <2>1, <2>2 DEF RegistryInv, CrashKnown
<1>3. CASE StageSucceeds
  <2>1. /\ pc = "starting" /\ pc' \in {"starting", "register"} /\ i' = i /\ refs' = refs
        /\ Invoked(i, j, "ok")
    BY <1>3 DEF StageSucceeds
  <2>2. \A c \in Comp, s \in Stages : result'[<<c, Opposite(s)>>] = result[<<c, Opposite(s)>>]
    BY <1>i, <2>1, StartInvoked
  <2>3. result'[<<Registrar, PreShutdown>>] = "none"
    BY <1>i, <1>o, <1>s, <2>1, <2>2
  <2> QED BY <2>1, <2>3 DEF RegistryInv, CrashKnown, Ran
<1>4. CASE StageFails
  <2>1. /\ pc = "starting" /\ pc' = "left" /\ Invoked(i, j, "err") /\ regUp' = regUp
        /\ <<i, j>> \in Callbacks
    BY <1>4 DEF StageFails
  <2>2. /\ \A c \in Comp, s \in Stages :
             result'[<<c, s>>] = IF c = i /\ s = j THEN "err" ELSE result[<<c, s>>]
        /\ \A c \in Comp, s \in Stages : result'[<<c, Opposite(s)>>] = result[<<c, Opposite(s)>>]
        /\ compSucc'[j] <=> "err" = "ok"
        /\ compIndex' = i
    BY <1>i, <2>1, StartInvoked
  <2>3. result'[<<Registrar, PreShutdown>>] = "none"
    BY <1>i, <1>o, <1>s, <2>1, <2>2
  <2>4. i > Registrar => regUp'
    BY <2>1 DEF AppInv, RegistryMade
  <2>5. ASSUME i = Registrar
        PROVE  ~compSucc'[PostStartup] \/ result'[<<Registrar, Startup>>] = "err"
    <3>1. j # 0
      BY <1>i, <2>1, TableAssumption
    <3>2. CASE j = 1
      BY <1>i, <2>2, <2>5, <3>2
    <3>3. CASE j = 2
      BY <1>i, <2>2, <3>3
    <3> QED BY <1>i, <3>1, <3>2, <3>3
  <2> QED BY <2>1, <2>2, <2>3, <2>4, <2>5 DEF RegistryInv, CrashKnown, Ran
<1>5. CASE Register
  <2>1. /\ pc = "register" /\ UNCHANGED <<regUp, result>>
        /\ \/ pc' = "started" /\ i + 1 = N
           \/ pc' = "starting" /\ i' = i + 1
        /\ \/ i \in NkOMs /\ refs' = [refs EXCEPT ![i] = @ + 1]
           \/ i \notin NkOMs /\ refs' = refs
    BY <1>5 DEF Register, StartNext, IsLast, AddRefOnReplace
  <2>2. \A c \in NkOMs : c < i => refs[c] > 0
    BY <2>1 DEF RegistryInv
  <2>3. \A c \in NkOMs : c <= i => refs'[c] > 0
    <3> SUFFICES ASSUME NEW c \in NkOMs, c <= i PROVE refs'[c] > 0
      OBVIOUS
    <3>1. CASE c = i
      <4>1. refs'[c] = refs[c] + 1 /\ refs[c] \in Nat
        BY <1>i, <2>1, <3>1
      <4> QED BY <4>1
    <3>2. CASE c # i
      <4>1. c < i /\ refs'[c] = refs[c]
        BY <1>i, <2>1, <3>2
      <4> QED BY <2>2, <4>1
    <3> QED BY <3>1, <3>2
  <2>4. pc' = "started" => regUp' /\ refs'[Window] > 0
    <3> SUFFICES ASSUME pc' = "started" PROVE regUp' /\ refs'[Window] > 0
      OBVIOUS
    <3>1. i + 1 = N
      BY <2>1
    <3>2. i > Registrar /\ Window <= i
      <4>1. Window \in Nat /\ Window < N /\ Window > Registrar
        BY <1>i
      <4> QED BY <1>i, <3>1, <4>1
    <3> QED BY <1>i, <2>1, <2>3, <3>2 DEF AppInv, RegistryMade
  <2>5. pc' = "starting" => \A c \in NkOMs : c < i' => refs'[c] > 0
    BY <1>i, <2>1, <2>3
  <2>6. result'[<<Registrar, PreShutdown>>] = "none"
    BY <1>s, <2>1
  <2> QED BY <2>1, <2>4, <2>5, <2>6 DEF RegistryInv, CrashKnown, Ran
<1>6. CASE RunEnters
  <2>1. /\ pc = "started" /\ UNCHANGED <<regUp, result, compReg>>
        /\ \/ pc' = "looping" /\ refs' = [refs EXCEPT ![Window] = @ + 1]
           \/ pc' = "crashed" /\ refs' = refs /\ Window \notin compReg
    BY <1>6 DEF RunEnters, AddRefOnQuery
  <2>2. regUp /\ refs[Window] > 0 /\ refs[Window] \in Nat
    BY <1>i, <2>1 DEF RegistryInv
  <2>3. refs'[Window] > 0
    BY <1>i, <2>1, <2>2
  <2>4. result'[<<Registrar, PreShutdown>>] = "none"
    BY <1>s, <2>1
  <2> QED BY <2>1, <2>2, <2>3, <2>4 DEF RegistryInv, CrashKnown, Ran
<1>7. CASE RunLeaves
  <2>1. pc = "looping" /\ pc' = "left" /\ UNCHANGED <<regUp, result>>
    BY <1>7 DEF RunLeaves
  <2>2. regUp
    BY <2>1 DEF RegistryInv
  <2>3. result'[<<Registrar, PreShutdown>>] = "none"
    BY <1>s, <2>1
  <2> QED BY <2>1, <2>2, <2>3 DEF RegistryInv, CrashKnown, Ran
<1>8. CASE ShutdownEnters
  <2>1. /\ pc = "left" /\ UNCHANGED <<regUp, result, compSucc>>
        /\ \/ pc' = "stopped"
           \/ pc' = "unregister" /\ i' = compIndex
    BY <1>8 DEF ShutdownEnters
  <2> QED BY <2>1 DEF RegistryInv, CrashKnown, Ran
<1>9. CASE Unregister
  <2>1. /\ pc = "unregister" /\ UNCHANGED <<regUp, result, compSucc, i>>
        /\ \/ pc' = "crashed" /\ i \in NkOMs /\ ~regUp
           \/ pc' = "stopping"
    BY <1>9 DEF Unregister
  <2>2. pc' = "stopping"
    BY <1>i, <2>1 DEF RegistryInv
  <2> QED BY <2>1, <2>2 DEF RegistryInv, CrashKnown, Ran
<1>n. ASSUME pc = "stopping", StopNext, compSucc' = compSucc,
             regUp' = regUp, result'[<<Registrar, Startup>>] = result[<<Registrar, Startup>>],
             result'[<<Registrar, PreShutdown>>] = result[<<Registrar, PreShutdown>>]
      PROVE  RegistryInv'
  <2>1. \/ pc' = "stopping" /\ i' = i /\ j' = j - 1 /\ j > 0
        \/ pc' = "stopped" /\ i = 0 /\ j = 0
        \/ pc' = "unregister" /\ i' = i - 1 /\ j = 0 /\ i > 0
    BY <1>i, <1>n, StopNextCases
  <2>2. pc' = "stopping" => j' # PostStartup
    BY <1>i, <2>1
  <2>3. pc' \in {"unregister", "stopping"} /\ i' > Registrar => regUp'
    BY <1>i, <1>n, <2>1 DEF RegistryInv
  <2>4. pc' = "unregister" /\ i' = Registrar => regUp'
    BY <1>i, <1>n, <2>1 DEF RegistryInv
  <2>5. Ran(Registrar, PreShutdown)' => ~regUp'
    BY <1>n DEF RegistryInv, Ran
  <2> QED BY <2>1, <2>2, <2>3, <2>4, <2>5 DEF RegistryInv, CrashKnown
<1>10. CASE StopSkips
  BY <1>n, <1>10 DEF StopSkips
<1>11. CASE StopSucceeds
  <2>1. /\ pc = "stopping" /\ compSucc[j] /\ Invoked(i, Opposite(j), "ok")
        /\ \/ ~DestroysRegistry(i, Opposite(j)) /\ StopNext /\ regUp' = regUp
           \/ DestroysRegistry(i, Opposite(j)) /\ ~regUp /\ pc' = "crashed" /\ regUp' = regUp
           \/ DestroysRegistry(i, Opposite(j)) /\ StopNext /\ regUp' = FALSE
    BY <1>11 DEF StopSucceeds
  <2>2. /\ \A c \in Comp, s \in Stages : result'[<<c, s>>] = result[<<c, s>>]
        /\ \A c \in Comp, s \in Stages :
             result'[<<c, Opposite(s)>>]
               = IF c = i /\ s = j THEN "ok" ELSE result[<<c, Opposite(s)>>]
        /\ compSucc' = compSucc
    BY <1>i, <2>1, StopInvoked
  <2>3. DestroysRegistry(i, Opposite(j)) <=> i = Registrar /\ j = PostStartup
    BY <1>i, OppositeFacts DEF DestroysRegistry
  <2>4. CASE ~DestroysRegistry(i, Opposite(j))
    <3>1. result'[<<Registrar, PreShutdown>>] = result[<<Registrar, PreShutdown>>]
      BY <1>i, <1>o, <2>2, <2>3, <2>4
    <3>2. result'[<<Registrar, Startup>>] = result[<<Registrar, Startup>>]
      BY <1>i, <2>2
    <3> QED BY <1>n, <2>1, <2>2, <2>4, <3>1, <3>2
  <2>5. CASE DestroysRegistry(i, Opposite(j)) /\ ~regUp /\ pc' = "crashed" /\ regUp' = regUp
    <3>1. result[<<Registrar, Startup>>] = "err"
      BY <2>1, <2>3, <2>5 DEF RegistryInv
    <3>2. result'[<<Registrar, Startup>>] = "err"
      BY <1>i, <2>2, <3>1
    <3> QED BY <2>5, <3>2 DEF RegistryInv, CrashKnown
  <2>6. CASE DestroysRegistry(i, Opposite(j)) /\ StopNext /\ regUp' = FALSE
    <3>1. pc' = "stopping" /\ i' = i /\ j' = j - 1
      BY <1>i, <2>3, <2>6, StopNextCases
    <3>2. i = Registrar /\ j' # PostStartup
      BY <1>i, <2>3, <2>6, <3>1
    <3>3. ~(i' > Registrar)
      BY <1>i, <3>1, <3>2
    <3> QED BY <2>6, <3>1, <3>2, <3>3 DEF RegistryInv, CrashKnown
  <2> QED BY <2>1, <2>4, <2>5, <2>6
<1>12. CASE StopFails
  <2>1. /\ pc = "stopping" /\ Invoked(i, Opposite(j), "err") /\ pc' = "stopped"
        /\ ~DestroysRegistry(i, Opposite(j)) /\ regUp' = regUp
    BY <1>12 DEF StopFails
  <2>2. \A c \in Comp, s \in Stages :
          result'[<<c, Opposite(s)>>]
            = IF c = i /\ s = j THEN "err" ELSE result[<<c, Opposite(s)>>]
    BY <1>i, <2>1, StopInvoked
  <2>3. ~(i = Registrar /\ j = PostStartup)
    BY <1>o, <2>1 DEF DestroysRegistry
  <2>4. result'[<<Registrar, PreShutdown>>] = result[<<Registrar, PreShutdown>>]
    BY <1>i, <1>o, <2>2, <2>3
  <2> QED BY <2>1, <2>4 DEF RegistryInv, CrashKnown, Ran
<1>13. CASE UNCHANGED vars
  BY <1>13 DEF vars, RegistryInv, CrashKnown, Ran
<1> QED BY <1>1, <1>2, <1>3, <1>4, <1>5, <1>6, <1>7, <1>8, <1>9, <1>10, <1>11, <1>12, <1>13
        DEF Next

(***************************************************************************)
(* What follows.                                                           *)
(***************************************************************************)
HistoryInv == Below /\ StartInv /\ FlagInv /\ UndoInv /\ RegistryInv

LEMMA UndoInit == Init => UndoInv
BY DEF Init, UndoInv

LEMMA HistoryAlways == Spec => [](AppInv /\ HistoryInv)
<1>1. Init => AppInv /\ HistoryInv
  BY AppInit, BelowInit, StartInit, FlagInit, UndoInit, RegistryInit DEF HistoryInv
<1>2. AppInv /\ HistoryInv /\ [Next]_vars => (AppInv /\ HistoryInv)'
  <2> SUFFICES ASSUME AppInv, HistoryInv, [Next]_vars PROVE AppInv' /\ HistoryInv'
    OBVIOUS
  <2>1. AppInv'
    BY AppStep
  <2>2. Below' /\ StartInv'
    BY BelowStep, StartStep DEF HistoryInv
  <2>3. FlagInv'
    BY FlagStep DEF HistoryInv
  <2>4. UndoInv'
    BY UndoStep, DrainedFollows DEF HistoryInv
  <2>5. RegistryInv'
    BY RegistryStep DEF HistoryInv
  <2> QED BY <2>1, <2>2, <2>3, <2>4, <2>5 DEF HistoryInv
<1> QED BY <1>1, <1>2, PTL DEF Spec

(* The shutdown dereferences a registry that is not there only if NkOM's   *)
(* own Startup failed; a run without a window fails in no other way.       *)
THEOREM ApplicationCrashCause == Spec => []CrashCause
<1>1. AppInv /\ RefsInv /\ HistoryInv => CrashCause
  <2> SUFFICES ASSUME RefsInv, pc = "crashed", Window \notin compReg, refs[Window] > 0
               PROVE  Window \in refused
    BY DEF HistoryInv, RegistryInv, CrashKnown, CrashCause
  <2>1. refs[Window] = 0 + One(Window \in refused) + 0
    BY TableAssumption DEF RefsInv, RefsHeld, One
  <2> QED BY <2>1 DEF One
<1> QED BY <1>1, HistoryAlways, AppInit, AppStep, RefsInit, RefsStep, PTL DEF Spec

(* Unless a Startup callback failed, the shutdown undoes the components in *)
(* the reverse order of the startup, wherever either of them stopped.      *)
THEOREM ApplicationReverseOrder == Spec => []ReverseOrder
<1>1. AppInv /\ HistoryInv => ReverseOrder
  <2> SUFFICES ASSUME AppInv, HistoryInv, \A c \in Comp : result[<<c, Startup>>] # "err",
                      NEW x \in Callbacks, NEW y \in Callbacks,
                      Undoes(x), Undoes(y), RanBefore(x, y), Ran(y[1], y[2]),
                      Succeeded(x[1], Opposite(x[2]))
               PROVE  Ran(x[1], x[2])
    BY DEF ReverseOrder
  <2>1. PICK c \in Comp, b \in Cbs : x = <<c, b>>
    BY TableAssumption
  <2>2. PICK d \in Comp, e \in Cbs : y = <<d, e>>
    BY TableAssumption
  <2>3. PICK s \in Stages : b = Opposite(s) /\ s = Opposite(b)
    <3>1. b \in {3, 4, 5}
      BY <2>1 DEF Undoes, Cbs, Stages, PreStartup, Startup, PostStartup
    <3>2. 5 - b \in Stages /\ Opposite(5 - b) = b /\ Opposite(b) = 5 - b
      BY <3>1, StageTypes DEF Opposite
    <3> QED BY <3>2
  <2>4. PICK t \in Stages : e = Opposite(t)
    <3>1. e \in {3, 4, 5}
      BY <2>2 DEF Undoes, Cbs, Stages, PreStartup, Startup, PostStartup
    <3>2. 5 - e \in Stages /\ Opposite(5 - e) = e
      BY <3>1, StageTypes DEF Opposite
    <3> QED BY <3>2
  <2>5. c \in Nat /\ d \in Nat /\ s \in {0, 1, 2} /\ t \in {0, 1, 2}
    BY StageTypes DEF Comp
  <2>6. c > d \/ (c = d /\ s > t)
    <3>1. c > d \/ (c = d /\ b < e)
      BY <2>1, <2>2 DEF RanBefore
    <3> QED BY <2>3, <2>4, <2>5, <3>1 DEF Opposite
  <2>7. Ran(d, Opposite(t)) /\ Succeeded(c, s)
    BY <2>1, <2>2, <2>3, <2>4
  <2>8. compSucc[s]
    <3>1. CASE s = 0
      <4>1. b = PostShutdown
        BY <2>3, <3>1 DEF Opposite, PostShutdown
      <4> QED BY <2>1, <4>1, TableAssumption
    <3>2. CASE s = 1
      <4>1. s = Startup
        BY <3>2 DEF Startup
      <4> QED BY <2>7, <4>1 DEF HistoryInv, FlagInv
    <3>3. CASE s = 2
      <4>1. b = PreShutdown /\ s = PostStartup
        BY <2>3, <3>3 DEF Opposite, PreShutdown, PostStartup
      <4>2. c = Registrar
        BY <2>1, <4>1, TableAssumption
      <4> QED BY <2>7, <4>1, <4>2 DEF HistoryInv, FlagInv
    <3> QED BY <2>5, <3>1, <3>2, <3>3
  <2>9. PICK f \in Int, g \in Int : UndoneTo(f, g)
    <3>1. pc \in {"unregister", "stopping", "stopped", "crashed"}
      BY <2>7 DEF AppInv, TypeOK, HistoryInv, StartInv, Ran
    <3>2. i \in Int /\ j \in Int /\ PostStartup \in Int
      BY StageTypes DEF AppInv, TypeOK, Comp, PostStartup
    <3> QED BY <3>1, <3>2 DEF HistoryInv, UndoInv
  <2>10. Earlier(f, g, d, t)
    BY <2>7, <2>9 DEF UndoneTo
  <2>11. Earlier(f, g, c, s)
    BY <2>5, <2>6, <2>10 DEF Earlier
  <2>12. Ran(c, Opposite(s))
    BY <2>7, <2>8, <2>9, <2>11 DEF UndoneTo
  <2> QED BY <2>1, <2>3, <2>12
<1> QED BY <1>1, HistoryAlways, PTL

(* A run in which nothing fails starts and stops every component, empties  *)
(* the registry, destroys it and keeps no reference to an instance but to  *)
(* those the registry refused.                                             *)
THEOREM ApplicationCleanShutdown == Spec => []CleanShutdown
<1>1. AppInv /\ RefsInv /\ HistoryInv => CleanShutdown
  <2> SUFFICES ASSUME AppInv, RefsInv, HistoryInv, pc = "stopped", NothingFailed,
                      Succeeded(N - 1, PostStartup)
               PROVE  /\ \A c \in Comp, cb \in Cbs : Succeeded(c, cb)
                      /\ compReg = {} /\ ~regUp
                      /\ \A c \in NkOMs : refs[c] = IF c \in refused THEN 1 ELSE 0
    BY DEF CleanShutdown
  <2>1. UndoneTo(-1, PostStartup) /\ compReg = {}
    BY DEF HistoryInv, UndoInv
  <2>2. \A c \in Comp, s \in Stages : Succeeded(c, s)
    BY DEF HistoryInv, StartInv
  <2>3. \A s \in Stages : compSucc[s]
    <3> SUFFICES ASSUME NEW s \in Stages PROVE compSucc[s]
      OBVIOUS
    <3>1. \A c \in Comp : result[<<c, s>>] # "err"
      BY StageTypes DEF NothingFailed
    <3>2. N - 1 \in Comp
      BY TableAssumption DEF Comp
    <3> QED BY <2>2, <3>1, <3>2 DEF HistoryInv, FlagInv
  <2>4. \A c \in Comp, s \in Stages : Ran(c, Opposite(s))
    <3> SUFFICES ASSUME NEW c \in Comp, NEW s \in Stages PROVE Ran(c, Opposite(s))
      OBVIOUS
    <3>1. Earlier(-1, PostStartup, c, s)
      BY DEF Earlier, Comp
    <3> QED BY <2>1, <2>2, <2>3, <3>1 DEF UndoneTo
  <2>5. ASSUME NEW c \in Comp, NEW cb \in Cbs PROVE Succeeded(c, cb)
    <3>1. CASE cb \in Stages
      BY <2>2, <3>1
    <3>2. CASE cb \notin Stages
      <4>1. PICK s \in Stages : cb = Opposite(s)
        <5>1. cb \in {3, 4, 5}
          BY <3>2 DEF Cbs, Stages, PreStartup, Startup, PostStartup
        <5>2. 5 - cb \in Stages /\ Opposite(5 - cb) = cb
          BY <5>1, StageTypes DEF Opposite
        <5> QED BY <5>2
      <4>2. result[<<c, cb>>] # "none"
        BY <2>4, <4>1 DEF Ran
      <4>3. result[<<c, cb>>] \in {"none", "ok", "err"} /\ result[<<c, cb>>] # "err"
        BY DEF AppInv, TypeOK, NothingFailed
      <4> QED BY <4>2, <4>3 DEF Succeeded
    <3> QED BY <3>1, <3>2
  <2>6. ~regUp
    <3>1. Registrar \in Comp /\ PostStartup \in Stages /\ Opposite(PostStartup) = PreShutdown
      BY TableAssumption, OppositeFacts DEF Stages
    <3>2. Ran(Registrar, PreShutdown)
      BY <2>4, <3>1
    <3> QED BY <3>2 DEF HistoryInv, RegistryInv
  <2>7. \A c \in NkOMs : refs[c] = IF c \in refused THEN 1 ELSE 0
    BY <2>1 DEF RefsInv, RefsHeld, One
  <2> QED BY <2>1, <2>5, <2>6, <2>7
<1> QED BY <1>1, HistoryAlways, AppInit, AppStep, RefsInit, RefsStep, PTL DEF Spec
=============================================================================
