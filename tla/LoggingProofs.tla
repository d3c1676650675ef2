---------------------------- MODULE LoggingProofs ---------------------------
(***************************************************************************)
(* Proofs about Logging, for any devices, threads and size of m_devArray.  *)
(***************************************************************************)
EXTENDS Logging, FiniteSetTheorems, WellFoundedInduction, TLAPS

(* The devices that are installed and not being removed.                   *)
Steady == {d \in ClientDevices : client[d] = "in"}
            \cup {d \in {Conout} \ {NULL} : state # "fresh"}

(* The devices m_nOfDev counts, and those removed from it next.            *)
Counted == Steady \cup Leaving

Erasing == {call[t].dev : t \in {u \in Threads : call[u].op = "erase"}}

Busy == {"install", "release", "erase"}

(* A device is handled by one thread at a time.                            *)
CallInv ==
  \A t \in Threads :
    /\ call[t].op # "none" => state = "up"
    /\ call[t].op \in Busy => call[t].dev \in ClientDevices /\ client[call[t].dev] = "busy"
    /\ \A u \in Threads :
         call[t].op \in Busy /\ call[u].op \in Busy /\ call[t].dev = call[u].dev => t = u

(* m_nOfDev counts devices and not slots.  A counted device is in at most  *)
(* one slot, and in one unless two installations shared a slot.            *)
SlotInv ==
  /\ nOfDev = Cardinality(Counted)
  /\ \A s \in Used : devArray[s] \in Counted
  /\ \A r, s \in Used : devArray[r] = devArray[s] => r = s
  /\ \A t \in Threads, s \in Slot :
       call[t].op \in {"release", "erase"} /\ devArray[s] = call[t].dev => s = call[t].slot
  /\ ~overlap => \A d \in Counted : \E s \in Slot : devArray[s] = d

RefInv ==
  state # "down" => \A d \in Devices : refs[d] = IF d \in Counted \ Erasing THEN 1 ELSE 0

(* A message under way: the devices it owes a call are behind its slot;    *)
(* if none of those it has called was removed, they are all installed and  *)
(* j has not counted more than these.                                      *)
MsgOK(c) ==
  /\ Leaving \subseteq c.gone /\ c.dev \in c.gone \cup Steady /\ c.owed \subseteq Steady
  /\ \A s \in Slot : devArray[s] \in c.owed => s > c.slot
  /\ c.seen \cap c.gone = {} =>
       /\ c.seen \subseteq Steady /\ c.j + 1 <= Cardinality(c.seen)
       /\ \A s \in Slot : devArray[s] \in c.seen => s <= c.slot

MsgInv == \A t \in Threads : call[t].op = "message" => MsgOK(call[t])

FreshInv ==
  state = "fresh" => Used = {} /\ \A d \in ClientDevices : client[d] = "out"

LogInv ==
  /\ TypeOK /\ CallInv /\ SlotInv /\ RefInv /\ MsgInv /\ FreshInv
  /\ LockLeakCause

-----------------------------------------------------------------------------
LEMMA SlotNat == NDev \in Nat /\ Slot \subseteq Nat /\ 0 \in Slot
BY LoggingAssumption DEF Slot

LEMMA FirstFacts ==
  ASSUME NEW S, S \subseteq Slot, S # {}
  PROVE  First(S) \in S /\ \A r \in S : First(S) <= r
<1> DEFINE R == {p \in Nat \X Nat : p[1] < p[2]}
<1>1. IsWellFoundedOn(R, Nat)
  BY NatLessThanWellFounded DEF OpToRel
<1>2. S \subseteq Nat
  BY SlotNat
<1>3. PICK s \in S : \A r \in S : ~(<<r, s>> \in R)
  <2> HIDE DEF R
  <2> QED BY <1>1, <1>2, WFMin
<1>4. \A r \in S : s <= r
  <2> SUFFICES ASSUME NEW r \in S, ~(s <= r) PROVE FALSE
    OBVIOUS
  <2>1. r \in Nat /\ s \in Nat /\ r < s
    BY <1>2
  <2>2. <<r, s>> \in R
    BY <2>1
  <2> QED BY <1>3, <2>2
<1> QED BY <1>4 DEF First

CallOps == {"none", "install", "release", "erase", "message"}

LEMMA CallTyped ==
  ASSUME NEW c \in Call
  PROVE  /\ c.op \in CallOps /\ c.dev \in Devices \cup {NULL} /\ c.slot \in Slot
         /\ c.j \in Nat /\ c.seen \subseteq Devices /\ c.owed \subseteq Devices
         /\ c.gone \subseteq Devices
BY DEF Call, CallOps

LEMMA IdleFacts ==
  /\ Idle \in Call /\ Idle.op = "none" /\ Idle.dev = NULL /\ Idle.slot = 0 /\ Idle.j = 0
  /\ Idle.seen = {} /\ Idle.owed = {} /\ Idle.gone = {}
BY SlotNat DEF Idle, Call

LEMMA AtFacts ==
  ASSUME NEW op \in CallOps, NEW d \in Devices, NEW s \in Slot
  PROVE  At(op, d, s) \in Call /\ At(op, d, s).op = op /\ At(op, d, s).dev = d
         /\ At(op, d, s).slot = s
BY IdleFacts DEF At, Call, CallOps, Idle

LEMMA SetCallFacts ==
  ASSUME call \in [Threads -> Call], NEW t \in Threads, NEW c \in Call, SetCall(t, c)
  PROVE  /\ call' \in [Threads -> Call] /\ call'[t] = c
         /\ \A u \in Threads \ {t} : call'[u] = call[u]
BY DEF SetCall

LEMMA DeviceFacts ==
  /\ NULL \notin Devices /\ ClientDevices \subseteq Devices /\ NULL \notin ClientDevices
  /\ Conout \notin ClientDevices /\ IsFiniteSet(Devices)
BY LoggingAssumption DEF ClientDevices

LEMMA SetFacts ==
  ASSUME CallInv
  PROVE  /\ Steady \subseteq Devices /\ Leaving \subseteq ClientDevices
         /\ Counted \subseteq Devices /\ IsFiniteSet(Counted) /\ NULL \notin Counted
         /\ Steady \cap Leaving = {} /\ Erasing \subseteq Leaving
         /\ Cardinality(Counted) \in Nat
<1>1. Steady \subseteq Devices
  BY LoggingAssumption DEF Steady, ClientDevices
<1>2. Leaving \subseteq ClientDevices /\ Erasing \subseteq Leaving
  BY DEF Leaving, Erasing, CallInv, Busy
<1>3. Steady \cap Leaving = {}
  BY DeviceFacts DEF Leaving, CallInv, Busy, Steady
<1>4. Counted \subseteq Devices
  BY <1>1, <1>2, DeviceFacts DEF Counted
<1>5. IsFiniteSet(Counted) /\ Cardinality(Counted) \in Nat
  BY <1>4, DeviceFacts, FS_Subset, FS_CardinalityType
<1> QED BY <1>1, <1>2, <1>3, <1>4, <1>5, DeviceFacts
-----------------------------------------------------------------------------
(***************************************************************************)
(* The steps                                                               *)
(***************************************************************************)
LEMMA MsgKeeps ==
  ASSUME Steady \subseteq Steady', Leaving' \subseteq Leaving,
         \A s \in Slot : devArray'[s] \in Steady => devArray'[s] = devArray[s]
  PROVE  \A c : MsgOK(c) => MsgOK(c)'
BY DEF MsgOK

(* A step that changes calls and leaves the array and the counted devices  *)
(* alone.                                                                  *)
LEMMA QuietKeeps ==
  ASSUME LogInv, UNCHANGED <<devArray, nOfDev, lockHeld, refs, overlap>>,
         state' = state, Counted' = Counted, Erasing' = Erasing,
         \A u \in Threads : call'[u].op \in {"release", "erase"} =>
           /\ call'[u].slot = call[u].slot /\ call'[u].dev = call[u].dev
           /\ call[u].op \in {"release", "erase"}
  PROVE  SlotInv' /\ RefInv' /\ LockLeakCause'
<1>1. Used' = Used
  BY DEF Used
<1>2. SlotInv'
  BY <1>1 DEF LogInv, SlotInv
<1>3. RefInv' /\ LockLeakCause'
  BY DEF LogInv, RefInv, LockLeakCause
<1> QED BY <1>2, <1>3

LEMMA InstallBeginKeeps ==
  ASSUME LogInv, NEW t \in Threads, NEW d \in ClientDevices, InstallBegin(t, d)
  PROVE  LogInv'
<1> DEFINE c == At("install", d, FreeSlot)
<1>0. /\ Running /\ call[t] = Idle /\ client[d] = "out" /\ Slot \ Used # {}
      /\ SetCall(t, c) /\ client' = [client EXCEPT ![d] = "busy"]
      /\ UNCHANGED <<devArray, nOfDev, lockHeld, state, refs, overlap>>
      /\ TypeOK /\ CallInv
  BY DEF InstallBegin, LogInv
<1>1. c \in Call /\ c.op = "install" /\ c.dev = d
  <2>1. FreeSlot \in Slot
    BY <1>0, FirstFacts DEF FreeSlot
  <2> QED BY <2>1, AtFacts, DeviceFacts DEF CallOps
<1> HIDE DEF c
<1>2. /\ call' \in [Threads -> Call] /\ call'[t] = c
      /\ \A u \in Threads \ {t} : call'[u] = call[u]
  BY <1>0, <1>1, SetCallFacts DEF TypeOK
<1>3. /\ client' \in [ClientDevices -> {"out", "busy", "in"}] /\ client'[d] = "busy"
      /\ \A e \in ClientDevices \ {d} : client'[e] = client[e]
  BY <1>0 DEF TypeOK
<1>4. Steady' = Steady /\ Leaving' = Leaving /\ Erasing' = Erasing
  <2>1. Steady' = Steady
    BY <1>0, <1>3 DEF Steady
  <2>2. Leaving' = Leaving /\ Erasing' = Erasing
    BY <1>0, <1>1, <1>2, IdleFacts DEF Leaving, Erasing
  <2> QED BY <2>1, <2>2
<1>5. TypeOK'
  BY <1>0, <1>2, <1>3 DEF TypeOK
<1>6. CallInv'
  <2>1. \A u \in Threads : call[u].op \in Busy => call[u].dev # d
    BY <1>0 DEF CallInv
  <2> QED BY <1>0, <1>1, <1>2, <1>3, <2>1 DEF CallInv, Running
<1>7. SlotInv' /\ RefInv' /\ LockLeakCause'
  BY <1>0, <1>1, <1>2, <1>4, QuietKeeps DEF Counted
<1>8. MsgInv'
  <2>1. \A b : MsgOK(b) => MsgOK(b)'
    BY <1>0, <1>4, MsgKeeps
  <2> QED BY <1>1, <1>2, <2>1 DEF LogInv, MsgInv, MsgOK
<1>9. FreshInv'
  BY <1>0 DEF FreshInv, Running
<1> QED BY <1>5, <1>6, <1>7, <1>8, <1>9 DEF LogInv

LEMMA InstallFailsKeeps ==
  ASSUME LogInv, NEW t \in Threads, InstallFails(t)
  PROVE  LogInv'
<1> DEFINE d == call[t].dev
<1>0. /\ Running /\ call[t].op = "install"
      /\ SetCall(t, Idle) /\ client' = [client EXCEPT ![d] = "out"]
      /\ UNCHANGED <<devArray, nOfDev, lockHeld, state, refs, overlap>>
      /\ TypeOK /\ CallInv
  BY DEF InstallFails, LogInv
<1>1. d \in ClientDevices /\ client[d] = "busy"
  BY <1>0 DEF CallInv, Busy
<1>2. /\ call' \in [Threads -> Call] /\ call'[t] = Idle
      /\ \A u \in Threads \ {t} : call'[u] = call[u]
  BY <1>0, SetCallFacts, IdleFacts DEF TypeOK
<1>3. /\ client' \in [ClientDevices -> {"out", "busy", "in"}] /\ client'[d] = "out"
      /\ \A e \in ClientDevices \ {d} : client'[e] = client[e]
  BY <1>0, <1>1 DEF TypeOK
<1>4. Steady' = Steady /\ Leaving' = Leaving /\ Erasing' = Erasing
  <2>1. Steady' = Steady
    BY <1>0, <1>1, <1>3 DEF Steady
  <2>2. Leaving' = Leaving /\ Erasing' = Erasing
    BY <1>0, <1>2, IdleFacts DEF Leaving, Erasing
  <2> QED BY <2>1, <2>2
<1>5. TypeOK'
  BY <1>0, <1>2, <1>3 DEF TypeOK
<1>6. CallInv'
  <2>1. \A u \in Threads \ {t} : call[u].op \in Busy => call[u].dev # d
    BY <1>0 DEF CallInv, Busy
  <2> QED BY <1>0, <1>2, <1>3, <2>1, IdleFacts DEF CallInv, Running, Busy
<1>7. SlotInv' /\ RefInv' /\ LockLeakCause'
  BY <1>0, <1>2, <1>4, QuietKeeps, IdleFacts DEF Counted
<1>8. MsgInv'
  <2>1. \A b : MsgOK(b) => MsgOK(b)'
    BY <1>0, <1>4, MsgKeeps
  <2> QED BY <1>2, <2>1, IdleFacts DEF LogInv, MsgInv, MsgOK
<1>9. FreshInv'
  BY <1>0 DEF FreshInv, Running
<1> QED BY <1>5, <1>6, <1>7, <1>8, <1>9 DEF LogInv

LEMMA InstallEndKeeps ==
  ASSUME LogInv, NEW t \in Threads, InstallEnd(t)
  PROVE  LogInv'
<1> DEFINE d == call[t].dev
           s == call[t].slot
<1>0. /\ Running /\ call[t].op = "install" /\ PutDevice(d, s)
      /\ SetCall(t, Idle) /\ client' = [client EXCEPT ![d] = "in"]
      /\ overlap' = (overlap \/ devArray[s] # NULL)
      /\ UNCHANGED <<lockHeld, state>>
      /\ TypeOK /\ CallInv /\ SlotInv
  BY DEF InstallEnd, LogInv
<1>1. d \in ClientDevices /\ d \in Devices /\ d # NULL /\ client[d] = "busy" /\ s \in Slot
  BY <1>0, CallTyped, DeviceFacts DEF CallInv, Busy, TypeOK
<1>2. /\ call' \in [Threads -> Call] /\ call'[t] = Idle
      /\ \A u \in Threads \ {t} : call'[u] = call[u]
  BY <1>0, SetCallFacts, IdleFacts DEF TypeOK
<1>3. /\ client' \in [ClientDevices -> {"out", "busy", "in"}] /\ client'[d] = "in"
      /\ \A e \in ClientDevices \ {d} : client'[e] = client[e]
  BY <1>0, <1>1 DEF TypeOK
<1>a. /\ devArray' \in [Slot -> Devices \cup {NULL}] /\ devArray'[s] = d
      /\ \A r \in Slot \ {s} : devArray'[r] = devArray[r]
  BY <1>0, <1>1 DEF TypeOK, PutDevice
<1>r. /\ refs' \in [Devices -> Int] /\ refs'[d] = refs[d] + 1
      /\ \A e \in Devices \ {d} : refs'[e] = refs[e]
  BY <1>0, <1>1 DEF TypeOK, PutDevice
<1>b. overlap' \in BOOLEAN /\ (~overlap' => ~overlap /\ devArray[s] = NULL)
  BY <1>0 DEF TypeOK
<1>o. \A u \in Threads \ {t} : call[u].op \in Busy => call[u].dev # d
  BY <1>0 DEF CallInv, Busy
<1> HIDE DEF d, s
<1>4. /\ Steady' = Steady \cup {d} /\ Leaving' = Leaving /\ Erasing' = Erasing
      /\ Counted' = Counted \cup {d} /\ d \notin Counted
  <2>1. Steady' = Steady \cup {d} /\ d \notin Steady
    BY <1>0, <1>1, <1>3, DeviceFacts DEF Steady
  <2>2. Leaving' = Leaving /\ Erasing' = Erasing
    BY <1>0, <1>2, IdleFacts DEF Leaving, Erasing
  <2>3. d \notin Leaving
    BY <1>0, <1>o DEF Leaving, Busy
  <2> QED BY <2>1, <2>2, <2>3 DEF Counted
<1>c. /\ IsFiniteSet(Counted) /\ Cardinality(Counted) \in Nat /\ nOfDev = Cardinality(Counted)
      /\ NULL \notin Counted /\ nOfDev' = nOfDev + 1
  BY <1>0, SetFacts DEF SlotInv, PutDevice
<1>5. TypeOK'
  BY <1>0, <1>2, <1>3, <1>a, <1>b, <1>c, <1>r DEF TypeOK
<1>6. CallInv'
  BY <1>0, <1>2, <1>3, <1>o, IdleFacts DEF CallInv, Running, Busy
<1>7. SlotInv'
  <2>1. nOfDev' = Cardinality(Counted')
    BY <1>4, <1>c, FS_AddElement
  <2>2. \A r \in Slot : devArray[r] # d
    BY <1>0, <1>1, <1>4 DEF SlotInv, Used
  <2>3. \A r \in Used' : devArray'[r] \in Counted'
    BY <1>0, <1>4, <1>a DEF SlotInv, Used
  <2>4. \A q, r \in Used' : devArray'[q] = devArray'[r] => q = r
    BY <1>0, <1>a, <2>2 DEF SlotInv, Used
  <2>5. \A u \in Threads, r \in Slot :
          call'[u].op \in {"release", "erase"} /\ devArray'[r] = call'[u].dev
            => r = call'[u].slot
    BY <1>0, <1>2, <1>a, <1>o, IdleFacts DEF SlotInv, Busy
  <2>6. ~overlap' => \A e \in Counted' : \E r \in Slot : devArray'[r] = e
    <3> SUFFICES ASSUME ~overlap', NEW e \in Counted' PROVE \E r \in Slot : devArray'[r] = e
      OBVIOUS
    <3>1. CASE e = d
      BY <1>1, <1>a, <3>1
    <3>2. CASE e # d
      <4>1. PICK r \in Slot : devArray[r] = e
        BY <1>0, <1>4, <1>b, <3>2 DEF SlotInv
      <4>2. r # s
        BY <1>4, <1>b, <1>c, <3>2, <4>1
      <4> QED BY <1>a, <4>1, <4>2
    <3> QED BY <3>1, <3>2
  <2> QED BY <2>1, <2>3, <2>4, <2>5, <2>6 DEF SlotInv
<1>8. RefInv'
  <2>1. state # "down" /\ Erasing \subseteq Leaving
    BY <1>0, SetFacts DEF Running
  <2>2. refs[d] = 0 /\ d \notin Erasing
    BY <1>1, <1>4, <2>1 DEF LogInv, RefInv, Counted
  <2> QED BY <1>4, <1>r, <2>1, <2>2 DEF LogInv, RefInv
<1>9. MsgInv'
  <2>1. \A b : MsgOK(b) => MsgOK(b)'
    BY <1>4, <1>a, MsgKeeps DEF Counted
  <2> QED BY <1>2, <2>1, IdleFacts DEF LogInv, MsgInv, MsgOK
<1>10. FreshInv' /\ LockLeakCause'
  BY <1>0 DEF FreshInv, Running, LockLeakCause
<1> QED BY <1>5, <1>6, <1>7, <1>8, <1>9, <1>10 DEF LogInv

LEMMA LeavesFacts ==
  ASSUME call \in [Threads -> Call], NEW t \in Threads, NEW d \in Devices, NEW c \in Call,
         Leaves(t, d, c)
  PROVE  /\ call' \in [Threads -> Call] /\ call'[t] = c
         /\ \A u \in Threads \ {t} :
              /\ call'[u].op = call[u].op /\ call'[u].dev = call[u].dev
              /\ call'[u].slot = call[u].slot /\ call'[u].j = call[u].j
              /\ call'[u].seen = call[u].seen
              /\ call[u].op # "message" => call'[u] = call[u]
              /\ call[u].op = "message" => /\ call'[u].owed = call[u].owed \ {d}
                                           /\ call'[u].gone = call[u].gone \cup {d}
<1>1. call' = [u \in Threads |->
                IF u = t THEN c
                ELSE IF call[u].op = "message"
                THEN [call[u] EXCEPT !.owed = @ \ {d}, !.gone = @ \cup {d}]
                ELSE call[u]]
  BY DEF Leaves
<1>2. ASSUME NEW u \in Threads \ {t}, call[u].op = "message"
      PROVE  /\ call'[u] \in Call
             /\ call'[u].op = call[u].op /\ call'[u].dev = call[u].dev
             /\ call'[u].slot = call[u].slot /\ call'[u].j = call[u].j
             /\ call'[u].seen = call[u].seen
             /\ call'[u].owed = call[u].owed \ {d} /\ call'[u].gone = call[u].gone \cup {d}
  <2>1. PICK o \in SUBSET Devices, g \in SUBSET Devices :
          o = call[u].owed \ {d} /\ g = call[u].gone \cup {d}
    BY CallTyped
  <2>2. call'[u] = [call[u] EXCEPT !.owed = o, !.gone = g]
    BY <1>1, <1>2, <2>1
  <2> QED BY <2>1, <2>2 DEF Call
<1>3. \A u \in Threads \ {t} : call[u].op # "message" => call'[u] = call[u]
  BY <1>1
<1>4. call' \in [Threads -> Call]
  <2>1. \A u \in Threads : call'[u] \in Call
    BY <1>1, <1>2, <1>3
  <2>2. call' = [u \in Threads |-> call'[u]]
    BY <1>1
  <2> QED BY <2>1, <2>2
<1>5. call'[t] = c
  BY <1>1
<1> QED BY <1>2, <1>3, <1>4, <1>5

LEMMA UninstallBeginKeeps ==
  ASSUME LogInv, NEW t \in Threads, NEW d \in ClientDevices, UninstallBegin(t, d)
  PROVE  LogInv'
<1> DEFINE s == First(FindDevice(d))
           c == At("release", d, s)
<1>0. /\ Running /\ call[t] = Idle /\ client[d] = "in" /\ FindDevice(d) # {}
      /\ Leaves(t, d, c) /\ client' = [client EXCEPT ![d] = "busy"]
      /\ UNCHANGED <<devArray, nOfDev, lockHeld, state, refs, overlap>>
      /\ TypeOK /\ CallInv /\ SlotInv
  BY DEF UninstallBegin, LogInv
<1>s. s \in Slot /\ devArray[s] = d
  BY <1>0, FirstFacts DEF FindDevice
<1> HIDE DEF s
<1>1. c \in Call /\ c.op = "release" /\ c.dev = d /\ c.slot = s /\ d \in Devices /\ d # NULL
  BY <1>s, AtFacts, DeviceFacts DEF CallOps
<1> HIDE DEF c
<1>2. /\ call' \in [Threads -> Call] /\ call'[t] = c
      /\ \A u \in Threads \ {t} :
           /\ call'[u].op = call[u].op /\ call'[u].dev = call[u].dev
           /\ call'[u].slot = call[u].slot /\ call'[u].j = call[u].j
           /\ call'[u].seen = call[u].seen
           /\ call[u].op = "message" => /\ call'[u].owed = call[u].owed \ {d}
                                        /\ call'[u].gone = call[u].gone \cup {d}
  BY <1>0, <1>1, LeavesFacts DEF TypeOK
<1>3. /\ client' \in [ClientDevices -> {"out", "busy", "in"}] /\ client'[d] = "busy"
      /\ \A e \in ClientDevices \ {d} : client'[e] = client[e]
  BY <1>0 DEF TypeOK
<1>4. /\ Steady' = Steady \ {d} /\ Leaving' = Leaving \cup {d} /\ Erasing' = Erasing
      /\ Counted' = Counted
  <2>1. Steady' = Steady \ {d} /\ d \in Steady
    BY <1>0, <1>3, DeviceFacts DEF Steady
  <2>2. Leaving' = Leaving \cup {d}
    BY <1>0, <1>1, <1>2, IdleFacts DEF Leaving
  <2>3. Erasing' = Erasing
    BY <1>0, <1>1, <1>2, IdleFacts DEF Erasing
  <2> QED BY <2>1, <2>2, <2>3 DEF Counted
<1>5. TypeOK'
  BY <1>0, <1>2, <1>3 DEF TypeOK
<1>6. CallInv'
  <2>1. \A u \in Threads : call[u].op \in Busy => call[u].dev # d
    BY <1>0 DEF CallInv
  <2> QED BY <1>0, <1>1, <1>2, <1>3, <2>1 DEF CallInv, Running
<1>7. SlotInv'
  <2>1. Used' = Used /\ s \in Used
    BY <1>0, <1>1, <1>s DEF Used
  <2>2. \A u \in Threads, r \in Slot :
          call'[u].op \in {"release", "erase"} /\ devArray'[r] = call'[u].dev
            => r = call'[u].slot
    <3> SUFFICES ASSUME NEW u \in Threads, NEW r \in Slot,
                        call'[u].op \in {"release", "erase"}, devArray'[r] = call'[u].dev
                 PROVE  r = call'[u].slot
      OBVIOUS
    <3>1. CASE u = t
      <4>1. devArray[r] = d /\ r \in Used
        BY <1>0, <1>1, <1>2, <3>1 DEF Used
      <4> QED BY <1>0, <1>1, <1>2, <1>s, <2>1, <3>1, <4>1 DEF SlotInv
    <3>2. CASE u # t
      BY <1>0, <1>2, <3>2 DEF SlotInv
    <3> QED BY <3>1, <3>2
  <2> QED BY <1>0, <1>4, <2>1, <2>2 DEF SlotInv
<1>8. RefInv' /\ LockLeakCause'
  BY <1>0, <1>4 DEF LogInv, RefInv, LockLeakCause
<1>9. MsgInv'
  <2> SUFFICES ASSUME NEW u \in Threads, call'[u].op = "message"
               PROVE  MsgOK(call[u])'
    BY DEF MsgInv
  <2>1. /\ u # t /\ call[u].op = "message" /\ MsgOK(call[u])
        /\ call'[u].op = call[u].op /\ call'[u].dev = call[u].dev
        /\ call'[u].slot = call[u].slot /\ call'[u].j = call[u].j
        /\ call'[u].seen = call[u].seen
        /\ call'[u].owed = call[u].owed \ {d} /\ call'[u].gone = call[u].gone \cup {d}
    BY <1>1, <1>2 DEF LogInv, MsgInv
  <2> QED BY <1>0, <1>4, <2>1 DEF MsgOK
<1>10. FreshInv'
  BY <1>0 DEF FreshInv, Running
<1> QED BY <1>5, <1>6, <1>7, <1>8, <1>9, <1>10 DEF LogInv

LEMMA UninstallNotFoundKeeps ==
  ASSUME LogInv, NEW t \in Threads, NEW d \in ClientDevices, UninstallNotFound(t, d)
  PROVE  LogInv'
<1>0. /\ client[d] = "in" /\ FindDevice(d) = {} /\ lockHeld' = TRUE
      /\ UNCHANGED <<devArray, nOfDev, state, call, refs, client, overlap>>
  BY DEF UninstallNotFound
<1>1. /\ Steady' = Steady /\ Leaving' = Leaving /\ Erasing' = Erasing
      /\ Counted' = Counted /\ Used' = Used
  BY <1>0 DEF Steady, Leaving, Erasing, Counted, Used
<1>2. overlap
  <2>1. d \in Counted
    BY <1>0 DEF Counted, Steady
  <2> QED BY <1>0, <2>1 DEF LogInv, SlotInv, FindDevice
<1>3. TypeOK'
  BY <1>0 DEF LogInv, TypeOK
<1>4. CallInv' /\ SlotInv' /\ RefInv' /\ FreshInv'
  BY <1>0, <1>1 DEF LogInv, CallInv, SlotInv, RefInv, FreshInv
<1>5. MsgInv'
  BY <1>0, <1>1 DEF LogInv, MsgInv, MsgOK
<1>6. LockLeakCause'
  BY <1>0, <1>2 DEF LockLeakCause
<1> QED BY <1>3, <1>4, <1>5, <1>6 DEF LogInv

LEMMA UninstallReleaseKeeps ==
  ASSUME LogInv, NEW t \in Threads, UninstallRelease(t)
  PROVE  LogInv'
<1> DEFINE d == call[t].dev
<1>0. /\ call[t].op = "release" /\ refs' = [refs EXCEPT ![d] = @ - 1]
      /\ call' = [call EXCEPT ![t].op = "erase"]
      /\ UNCHANGED <<devArray, nOfDev, lockHeld, state, client, overlap>>
      /\ TypeOK /\ CallInv
  BY DEF UninstallRelease, LogInv
<1>1. d \in ClientDevices /\ d \in Devices /\ state = "up" /\ d \in Leaving
  BY <1>0, DeviceFacts DEF CallInv, Busy, Leaving
<1>2. /\ call' \in [Threads -> Call]
      /\ call'[t].op = "erase" /\ call'[t].dev = d /\ call'[t].slot = call[t].slot
      /\ \A u \in Threads \ {t} : call'[u] = call[u]
  <2>1. call[t] \in Call /\ call'[t] = [call[t] EXCEPT !.op = "erase"]
    BY <1>0 DEF TypeOK
  <2>2. /\ call'[t] \in Call /\ call'[t].op = "erase" /\ call'[t].dev = d
        /\ call'[t].slot = call[t].slot
    BY <2>1 DEF Call
  <2> QED BY <1>0, <2>2 DEF TypeOK
<1>o. \A u \in Threads \ {t} : call[u].op \in Busy => call[u].dev # d
  BY <1>0 DEF CallInv, Busy
<1>r. /\ refs' \in [Devices -> Int] /\ refs'[d] = refs[d] - 1
      /\ \A e \in Devices \ {d} : refs'[e] = refs[e]
  BY <1>0, <1>1 DEF TypeOK
<1> HIDE DEF d
<1>4. /\ Steady' = Steady /\ Leaving' = Leaving /\ Counted' = Counted
      /\ Erasing' = Erasing \cup {d} /\ d \notin Erasing /\ d \in Counted
  <2>1. Steady' = Steady
    BY <1>0 DEF Steady
  <2>2. Leaving' = Leaving
    BY <1>0, <1>2 DEF Leaving, d
  <2>3. Erasing' = Erasing \cup {d} /\ d \notin Erasing
    BY <1>0, <1>2, <1>o DEF Erasing, Busy
  <2> QED BY <1>1, <2>1, <2>2, <2>3 DEF Counted
<1>5. TypeOK'
  BY <1>0, <1>2, <1>r DEF TypeOK
<1>6. CallInv'
  BY <1>0, <1>2, <1>o DEF CallInv, Busy, d
<1>7. SlotInv'
  <2>1. Used' = Used
    BY <1>0 DEF Used
  <2> QED BY <1>0, <1>2, <1>4, <2>1 DEF LogInv, SlotInv, d
<1>8. RefInv'
  <2>1. refs[d] = 1
    BY <1>1, <1>4 DEF LogInv, RefInv
  <2> QED BY <1>0, <1>1, <1>4, <1>r, <2>1 DEF LogInv, RefInv
<1>9. MsgInv'
  <2>1. \A b : MsgOK(b) => MsgOK(b)'
    BY <1>0, <1>4, MsgKeeps
  <2> QED BY <1>2, <2>1 DEF LogInv, MsgInv, MsgOK
<1>10. FreshInv' /\ LockLeakCause'
  BY <1>0, <1>1 DEF LogInv, FreshInv, LockLeakCause
<1> QED BY <1>5, <1>6, <1>7, <1>8, <1>9, <1>10 DEF LogInv

LEMMA UninstallEndKeeps ==
  ASSUME LogInv, NEW t \in Threads, UninstallEnd(t)
  PROVE  LogInv'
<1> DEFINE d == call[t].dev
           s == call[t].slot
<1>0. /\ Running /\ call[t].op = "erase" /\ devArray' = [devArray EXCEPT ![s] = NULL]
      /\ nOfDev' = nOfDev - 1
      /\ SetCall(t, Idle) /\ client' = [client EXCEPT ![d] = "out"]
      /\ UNCHANGED <<lockHeld, state, refs, overlap>>
      /\ TypeOK /\ CallInv /\ SlotInv
  BY DEF UninstallEnd, EraseSlot, LogInv
<1>1. d \in ClientDevices /\ d \in Devices /\ d # NULL /\ client[d] = "busy" /\ s \in Slot
  BY <1>0, CallTyped, DeviceFacts DEF CallInv, Busy, TypeOK
<1>2. /\ call' \in [Threads -> Call] /\ call'[t] = Idle
      /\ \A u \in Threads \ {t} : call'[u] = call[u]
  BY <1>0, SetCallFacts, IdleFacts DEF TypeOK
<1>3. /\ client' \in [ClientDevices -> {"out", "busy", "in"}] /\ client'[d] = "out"
      /\ \A e \in ClientDevices \ {d} : client'[e] = client[e]
  BY <1>0, <1>1 DEF TypeOK
<1>a. /\ devArray' \in [Slot -> Devices \cup {NULL}] /\ devArray'[s] = NULL
      /\ \A r \in Slot \ {s} : devArray'[r] = devArray[r]
  BY <1>0, <1>1 DEF TypeOK
<1>o. \A u \in Threads \ {t} : call[u].op \in Busy => call[u].dev # d
  BY <1>0 DEF CallInv, Busy
<1>d. d \in Leaving /\ d \in Erasing /\ \A r \in Slot : devArray[r] = d => r = s
  BY <1>0 DEF Leaving, Erasing, SlotInv
<1> HIDE DEF d, s
<1>4. /\ Steady' = Steady /\ Leaving' = Leaving \ {d} /\ Erasing' = Erasing \ {d}
      /\ Counted' = Counted \ {d} /\ d \in Counted
  <2>1. Steady' = Steady
    BY <1>0, <1>1, <1>3 DEF Steady
  <2>2. Leaving' = Leaving \ {d} /\ Erasing' = Erasing \ {d}
    BY <1>0, <1>2, <1>o, IdleFacts DEF Leaving, Erasing, Busy, d
  <2>3. d \notin Steady
    BY <1>0, <1>d, SetFacts
  <2> QED BY <1>d, <2>1, <2>2, <2>3 DEF Counted
<1>c. /\ IsFiniteSet(Counted) /\ Cardinality(Counted) \in Nat /\ nOfDev = Cardinality(Counted)
      /\ NULL \notin Counted
  BY <1>0, SetFacts DEF SlotInv
<1>n. nOfDev' = Cardinality(Counted')
  BY <1>0, <1>4, <1>c, FS_RemoveElement
<1>6. CallInv'
  BY <1>0, <1>2, <1>3, <1>o, IdleFacts DEF CallInv, Running, Busy
<1>5. TypeOK'
  <2>1. nOfDev' \in Nat
    <3>1. IsFiniteSet(Counted')
      BY <1>4, <1>c, FS_RemoveElement
    <3> QED BY <1>n, <3>1, FS_CardinalityType
  <2> QED BY <1>0, <1>2, <1>3, <1>a, <2>1 DEF TypeOK
<1>7. SlotInv'
  <2>1. \A r \in Used' : r \in Used /\ r # s /\ devArray'[r] = devArray[r]
    BY <1>1, <1>a DEF Used
  <2>2. \A r \in Used' : devArray'[r] \in Counted'
    BY <1>0, <1>4, <1>d, <2>1 DEF SlotInv, Used
  <2>3. \A q, r \in Used' : devArray'[q] = devArray'[r] => q = r
    BY <1>0, <2>1 DEF SlotInv
  <2>4. \A u \in Threads, r \in Slot :
          call'[u].op \in {"release", "erase"} /\ devArray'[r] = call'[u].dev
            => r = call'[u].slot
    <3> SUFFICES ASSUME NEW u \in Threads, NEW r \in Slot,
                        call'[u].op \in {"release", "erase"}, devArray'[r] = call'[u].dev
                 PROVE  r = call'[u].slot
      OBVIOUS
    <3>1. u # t /\ call'[u] = call[u] /\ call[u].dev # NULL
      BY <1>0, <1>2, IdleFacts, DeviceFacts DEF CallInv, Busy
    <3>2. devArray[r] = call[u].dev
      BY <1>a, <3>1
    <3> QED BY <1>0, <3>1, <3>2 DEF SlotInv
  <2>5. ~overlap' => \A e \in Counted' : \E r \in Slot : devArray'[r] = e
    <3> SUFFICES ASSUME ~overlap', NEW e \in Counted' PROVE \E r \in Slot : devArray'[r] = e
      OBVIOUS
    <3>1. devArray[s] = d
      BY <1>0, <1>4, <1>d DEF SlotInv
    <3>2. PICK r \in Slot : devArray[r] = e
      BY <1>0, <1>4 DEF SlotInv
    <3>3. r # s
      BY <1>4, <3>1, <3>2
    <3> QED BY <1>a, <3>2, <3>3
  <2> QED BY <1>n, <2>2, <2>3, <2>4, <2>5 DEF SlotInv
<1>8. RefInv'
  <2>1. Counted' \ Erasing' = Counted \ Erasing
    BY <1>4, <1>d
  <2> QED BY <1>0, <2>1 DEF LogInv, RefInv
<1>9. MsgInv'
  <2>0. NULL \notin Steady
    BY <1>c DEF Counted
  <2>1. \A b : MsgOK(b) => MsgOK(b)'
    BY <1>4, <1>a, <2>0, MsgKeeps
  <2> QED BY <1>2, <2>1, IdleFacts DEF LogInv, MsgInv, MsgOK
<1>10. FreshInv' /\ LockLeakCause'
  BY <1>0 DEF FreshInv, Running, LockLeakCause
<1> QED BY <1>5, <1>6, <1>7, <1>8, <1>9, <1>10 DEF LogInv

(* The loop of NkLogMessage from a slot on.                                *)
Visited(c, v, f, n) ==
  /\ v \in Call /\ v.op = c.op /\ v.dev = devArray[f] /\ v.slot = f /\ v.j = n
  /\ v.seen = c.seen \cup {devArray[f]} /\ v.owed = c.owed \ {devArray[f]}
  /\ v.gone = c.gone

LEMMA VisitEffect ==
  ASSUME TypeOK, NEW c \in Call, NEW from \in Nat, NEW n \in Nat
  PROVE  \/ /\ Visit(c, from, n) = Idle
            /\ n >= nOfDev \/ \A s \in Used : ~(s >= from)
         \/ \E f \in Used : /\ f >= from /\ \A s \in Used : s >= from => f <= s
                            /\ Visited(c, Visit(c, from, n), f, n)
<1> DEFINE here == {s \in Used : s >= from}
           f == First(here)
<1>0. nOfDev \in Nat /\ Used \subseteq Slot
  BY DEF TypeOK, Used
<1>1. CASE here # {} /\ n < nOfDev
  <2>1. f \in here /\ \A s \in here : f <= s
    BY <1>0, <1>1, FirstFacts
  <2>2. f \in Used /\ f >= from /\ (\A s \in Used : s >= from => f <= s) /\ f \in Slot
    BY <1>0, <2>1
  <2>3. PICK d \in Devices : d = devArray[f]
    BY <2>2 DEF TypeOK, Used
  <2>4. Visit(c, from, n) = [c EXCEPT !.dev = devArray[f], !.slot = f, !.j = n,
                                      !.seen = @ \cup {devArray[f]},
                                      !.owed = @ \ {devArray[f]}]
    BY <1>1 DEF Visit
  <2> HIDE DEF f
  <2>5. PICK a \in SUBSET Devices, b \in SUBSET Devices :
          a = c.seen \cup {d} /\ b = c.owed \ {d}
    BY CallTyped
  <2>6. Visit(c, from, n) = [c EXCEPT !.dev = d, !.slot = f, !.j = n, !.seen = a, !.owed = b]
    BY <2>3, <2>4, <2>5
  <2>7. Visited(c, Visit(c, from, n), f, n)
    <3> DEFINE v == Visit(c, from, n)
    <3> HIDE DEF v
    <3>1. /\ v \in Call /\ v.op = c.op /\ v.dev = d /\ v.slot = f /\ v.j = n
          /\ v.seen = a /\ v.owed = b /\ v.gone = c.gone
      BY <2>2, <2>6 DEF Call, v
    <3> QED BY <2>3, <2>5, <3>1 DEF Visited, v
  <2> QED BY <2>2, <2>7
<1>2. CASE ~(here # {} /\ n < nOfDev)
  <2>1. Visit(c, from, n) = Idle
    BY <1>2 DEF Visit
  <2> QED BY <1>0, <1>2, <2>1
<1> QED BY <1>1, <1>2

(* What holds when the loop goes on at a slot with n devices served.       *)
Ready(c, from, n) ==
  /\ Leaving \subseteq c.gone /\ c.owed \subseteq Steady
  /\ \A s \in Slot : devArray[s] \in c.owed => s >= from
  /\ c.seen \cap c.gone = {} =>
       /\ c.seen \subseteq Steady /\ n <= Cardinality(c.seen)
       /\ \A s \in Slot : devArray[s] \in c.seen => s < from

LEMMA VisitReady ==
  ASSUME TypeOK, CallInv, SlotInv, NEW c \in Call, NEW v \in Call, NEW from \in Nat,
         NEW n \in Nat, NEW f \in Used, f >= from, \A s \in Used : s >= from => f <= s,
         Visited(c, v, f, n), Ready(c, from, n)
  PROVE  MsgOK(v)
<1> DEFINE d == devArray[f]
<1>0. /\ v.dev = d /\ v.slot = f /\ v.j = n /\ v.seen = c.seen \cup {d}
      /\ v.owed = c.owed \ {d} /\ v.gone = c.gone
  BY DEF Visited
<1>1. d \in Counted /\ f \in Slot /\ Slot \subseteq Nat /\ f \in Nat
  BY SlotNat DEF SlotInv, Used
<1>2. Leaving \subseteq v.gone /\ v.owed \subseteq Steady
  BY <1>0 DEF Ready
<1>3. d \in c.gone \cup Steady
  BY <1>1 DEF Ready, Counted
<1>4. ASSUME NEW s \in Slot, devArray[s] \in v.owed PROVE s > v.slot
  <2>1. s >= from /\ devArray[s] # d /\ devArray[s] # NULL
    BY <1>0, <1>2, <1>4, SetFacts DEF Ready, Counted
  <2>2. f <= s /\ s # f
    BY <2>1 DEF Used
  <2> QED BY <1>0, <1>1, <2>2
<1>5. ASSUME v.seen \cap v.gone = {}
      PROVE  /\ v.seen \subseteq Steady /\ v.j + 1 <= Cardinality(v.seen)
             /\ \A s \in Slot : devArray[s] \in v.seen => s <= v.slot
  <2>1. c.seen \cap c.gone = {} /\ d \notin c.gone
    BY <1>0, <1>5
  <2>2. /\ c.seen \subseteq Steady /\ n <= Cardinality(c.seen)
        /\ \A s \in Slot : devArray[s] \in c.seen => s < from
    BY <2>1 DEF Ready
  <2>3. d \in Steady
    BY <1>3, <2>1
  <2>4. d \notin c.seen
    BY <1>1, <2>2
  <2>5. IsFiniteSet(c.seen) /\ Cardinality(c.seen) \in Nat
    BY CallTyped, DeviceFacts, FS_Subset, FS_CardinalityType
  <2>6. Cardinality(c.seen \cup {d}) = Cardinality(c.seen) + 1
    BY <2>4, <2>5, FS_AddElement
  <2>7. n + 1 <= Cardinality(v.seen)
    BY <1>0, <2>2, <2>5, <2>6
  <2>8. ASSUME NEW s \in Slot, devArray[s] \in v.seen PROVE s <= f
    <3>1. CASE devArray[s] = d
      <4>1. s \in Used
        BY <3>1 DEF Used
      <4> QED BY <1>1, <3>1, <4>1 DEF SlotInv
    <3>2. CASE devArray[s] \in c.seen
      BY <1>1, <2>2, <3>2
    <3> QED BY <1>0, <2>8, <3>1, <3>2
  <2> QED BY <1>0, <2>2, <2>3, <2>7, <2>8
<1> QED BY <1>0, <1>2, <1>3, <1>4, <1>5 DEF MsgOK

(* A message begins or goes on.                                            *)
LEMMA MessageStep ==
  ASSUME LogInv, Running, NEW t \in Threads, call[t].op \in {"none", "message"},
         NEW c \in Call, c.op = "message", NEW from \in Nat, NEW n \in Nat,
         Ready(c, from, n), SetCall(t, Visit(c, from, n)),
         UNCHANGED <<devArray, nOfDev, lockHeld, state, refs, client, overlap>>
  PROVE  LogInv'
<1> DEFINE v == Visit(c, from, n)
<1>0. TypeOK /\ CallInv /\ SlotInv
  BY DEF LogInv
<1>1. \/ v = Idle
      \/ v \in Call /\ v.op = "message" /\ MsgOK(v)
  <2>1. CASE \E f \in Used : /\ f >= from /\ \A s \in Used : s >= from => f <= s
                             /\ Visited(c, v, f, n)
    <3>1. PICK f \in Used : /\ f >= from /\ \A s \in Used : s >= from => f <= s
                            /\ Visited(c, v, f, n)
      BY <2>1
    <3> HIDE DEF v
    <3>2. v \in Call /\ v.op = "message"
      BY <3>1 DEF Visited
    <3> QED BY <1>0, <3>1, <3>2, VisitReady
  <2> QED BY <1>0, <2>1, VisitEffect
<1> HIDE DEF v
<1>2. v \in Call /\ v.op \in {"none", "message"}
  BY <1>1, IdleFacts
<1>3. /\ call' \in [Threads -> Call] /\ call'[t] = v
      /\ \A u \in Threads \ {t} : call'[u] = call[u]
  BY <1>0, <1>2, SetCallFacts DEF TypeOK, v
<1>4. /\ Steady' = Steady /\ Leaving' = Leaving /\ Erasing' = Erasing
      /\ Counted' = Counted
  <2>1. Steady' = Steady
    BY DEF Steady
  <2>2. Leaving' = Leaving /\ Erasing' = Erasing
    BY <1>2, <1>3 DEF Leaving, Erasing
  <2> QED BY <2>1, <2>2 DEF Counted
<1>5. TypeOK'
  BY <1>0, <1>3 DEF TypeOK
<1>6. CallInv'
  BY <1>0, <1>2, <1>3 DEF CallInv, Running, Busy
<1>7. SlotInv' /\ RefInv' /\ LockLeakCause'
  BY <1>2, <1>3, <1>4, QuietKeeps
<1>8. MsgInv'
  <2> SUFFICES ASSUME NEW u \in Threads, call'[u].op = "message"
               PROVE  MsgOK(call[u])'
    BY DEF MsgInv
  <2>1. MsgOK(call'[u])
    <3>1. CASE u = t
      BY <1>1, <1>3, <3>1, IdleFacts
    <3>2. CASE u # t
      BY <1>3, <3>2 DEF LogInv, MsgInv
    <3> QED BY <3>1, <3>2
  <2> QED BY <1>4, <2>1 DEF MsgOK
<1>9. FreshInv'
  BY DEF FreshInv, Running
<1> QED BY <1>5, <1>6, <1>7, <1>8, <1>9 DEF LogInv

LEMMA MessageFacts ==
  ASSUME NEW owed \in SUBSET Devices, NEW gone \in SUBSET Devices
  PROVE  LET c == Message(owed, gone)
         IN  /\ c \in Call /\ c.op = "message" /\ c.owed = owed /\ c.gone = gone
             /\ c.seen = {}
BY IdleFacts DEF Message, Call, Idle

LEMMA MessageBeginKeeps ==
  ASSUME LogInv, NEW t \in Threads, MessageBegin(t)
  PROVE  LogInv'
<1> DEFINE owed == {devArray[s] : s \in Used} \ Leaving
           c == Message(owed, Leaving)
<1>0. /\ Running /\ call[t] = Idle /\ SetCall(t, Visit(c, 0, 0))
      /\ UNCHANGED <<devArray, nOfDev, lockHeld, state, refs, client, overlap>>
  BY DEF MessageBegin
<1>1. owed \subseteq Steady
  BY DEF LogInv, SlotInv, Counted
<1>2. Steady \subseteq Devices /\ Leaving \subseteq Devices
  BY SetFacts, DeviceFacts DEF LogInv
<1> HIDE DEF owed
<1>3. /\ c \in Call /\ c.op = "message" /\ c.owed = owed /\ c.gone = Leaving
      /\ c.seen = {}
  <2>1. owed \in SUBSET Devices /\ Leaving \in SUBSET Devices
    BY <1>1, <1>2
  <2> QED BY <2>1, MessageFacts
<1> HIDE DEF c
<1>4. Ready(c, 0, 0)
  BY <1>1, <1>3, SlotNat, FS_EmptySet DEF Ready
<1> QED BY <1>0, <1>3, <1>4, IdleFacts, MessageStep

LEMMA NextReady ==
  ASSUME LogInv, NEW t \in Threads, call[t].op = "message"
  PROVE  /\ call[t] \in Call /\ call[t].slot + 1 \in Nat /\ call[t].j + 1 \in Nat
         /\ Ready(call[t], call[t].slot + 1, call[t].j + 1)
<1>1. call[t] \in Call /\ call[t].slot \in Nat /\ call[t].j \in Nat /\ MsgOK(call[t])
  BY CallTyped, SlotNat DEF LogInv, TypeOK, MsgInv
<1>2. Slot \subseteq Nat
  BY SlotNat
<1> QED BY <1>1, <1>2 DEF MsgOK, Ready

LEMMA MessageNextKeeps ==
  ASSUME LogInv, NEW t \in Threads, MessageNext(t)
  PROVE  LogInv'
<1>1. /\ Running /\ call[t].op = "message"
      /\ SetCall(t, Visit(call[t], call[t].slot + 1, call[t].j + 1))
      /\ UNCHANGED <<devArray, nOfDev, lockHeld, state, refs, client, overlap>>
  BY DEF MessageNext
<1> QED BY <1>1, NextReady, MessageStep

LEMMA StartupKeeps ==
  ASSUME LogInv, Startup
  PROVE  LogInv'
<1>0. /\ state = "fresh" /\ state' = "up" /\ UNCHANGED <<lockHeld, call, client, overlap>>
      /\ TypeOK /\ CallInv /\ SlotInv
  BY DEF Startup, LogInv
<1>1. /\ \A t \in Threads : call[t].op = "none"
      /\ Used = {} /\ \A d \in ClientDevices : client[d] = "out"
  BY <1>0 DEF LogInv, CallInv, FreshInv
<1>2. /\ Leaving = {} /\ Leaving' = {} /\ Erasing = {} /\ Erasing' = {}
      /\ Counted = {} /\ Counted' = {Conout} \ {NULL}
  <2>1. Leaving = {} /\ Leaving' = {} /\ Erasing = {} /\ Erasing' = {}
    BY <1>0, <1>1 DEF Leaving, Erasing
  <2>2. Steady = {} /\ Steady' = {Conout} \ {NULL}
    BY <1>0, <1>1 DEF Steady
  <2> QED BY <2>1, <2>2 DEF Counted
<1>3. nOfDev = 0 /\ \A d \in Devices : refs[d] = 0
  BY <1>0, <1>2, FS_EmptySet DEF LogInv, SlotInv, RefInv
<1>4. CallInv' /\ MsgInv' /\ FreshInv' /\ LockLeakCause'
  <2>1. CallInv' /\ FreshInv'
    BY <1>0, <1>1 DEF CallInv, FreshInv, Busy
  <2>2. MsgInv'
    BY <1>0, <1>1 DEF MsgInv
  <2>3. LockLeakCause'
    BY <1>0 DEF LogInv, LockLeakCause
  <2> QED BY <2>1, <2>2, <2>3
<1>5. CASE Conout = NULL
  <2>1. UNCHANGED <<devArray, refs, nOfDev>> /\ Counted' = {} /\ Used' = {}
    BY <1>1, <1>2, <1>5 DEF Startup, Used
  <2>2. TypeOK'
    BY <1>0, <2>1 DEF TypeOK
  <2>3. SlotInv'
    BY <1>0, <1>1, <1>3, <2>1, FS_EmptySet DEF SlotInv
  <2>4. RefInv'
    BY <1>3, <2>1 DEF RefInv
  <2> QED BY <1>4, <2>2, <2>3, <2>4 DEF LogInv
<1>6. CASE Conout # NULL
  <2>1. PutDevice(Conout, 0) /\ Counted' = {Conout} /\ Conout \in Devices /\ 0 \in Slot
    BY <1>2, <1>6, LoggingAssumption, SlotNat DEF Startup
  <2>2. /\ devArray' \in [Slot -> Devices \cup {NULL}] /\ devArray'[0] = Conout
        /\ \A r \in Slot \ {0} : devArray'[r] = NULL
    BY <1>0, <1>1, <2>1 DEF TypeOK, PutDevice, Used
  <2>3. /\ refs' \in [Devices -> Int] /\ nOfDev' = 1
        /\ \A d \in Devices : refs'[d] = IF d = Conout THEN 1 ELSE 0
    BY <1>0, <1>3, <2>1 DEF TypeOK, PutDevice
  <2>4. TypeOK'
    BY <1>0, <2>2, <2>3 DEF TypeOK
  <2>5. Used' = {0}
    BY <1>6, <2>1, <2>2 DEF Used
  <2>6. SlotInv'
    <3>1. Cardinality(Counted') = 1
      BY <2>1, FS_Singleton
    <3> QED BY <1>0, <1>1, <2>1, <2>2, <2>3, <2>5, <3>1 DEF SlotInv
  <2>7. RefInv'
    BY <1>2, <2>1, <2>3 DEF RefInv
  <2> QED BY <1>4, <2>4, <2>6, <2>7 DEF LogInv
<1> QED BY <1>5, <1>6

LEMMA UsedFacts ==
  ASSUME TypeOK, CallInv, SlotInv
  PROVE  /\ IsFiniteSet(Slot) /\ IsFiniteSet(Used) /\ Cardinality(Used) \in Nat
         /\ Cardinality(Used) <= nOfDev /\ (~overlap => Cardinality(Used) = nOfDev)
<1>1. IsFiniteSet(Slot)
  <2>1. NDev - 1 \in Int
    BY SlotNat
  <2> QED BY <2>1, FS_Interval DEF Slot
<1>2. IsFiniteSet(Used) /\ Cardinality(Used) \in Nat
  BY <1>1, FS_Subset, FS_CardinalityType DEF Used
<1> DEFINE f == [s \in Used |-> devArray[s]]
<1>3. f \in Injection(Used, Counted)
  BY DEF SlotInv, Injection, IsInjective
<1>4. IsFiniteSet(Counted) /\ nOfDev = Cardinality(Counted)
  BY SetFacts DEF SlotInv
<1>5. ~overlap => f \in Surjection(Used, Counted)
  <2> SUFFICES ASSUME ~overlap PROVE f \in Surjection(Used, Counted)
    OBVIOUS
  <2>1. \A d \in Counted : \E s \in Used : f[s] = d
    <3> TAKE d \in Counted
    <3>1. PICK s \in Slot : devArray[s] = d
      BY DEF SlotInv
    <3>2. s \in Used
      BY <3>1, SetFacts DEF Used
    <3> QED BY <3>1, <3>2
  <2>2. f \in [Used -> Counted]
    BY DEF SlotInv
  <2> QED BY <2>1, <2>2 DEF Surjection
<1> HIDE DEF f
<1> QED BY <1>1, <1>2, <1>3, <1>4, <1>5, FS_Injection

LEMMA FindFacts ==
  ASSUME TypeOK, CallInv, SlotInv, NEW d \in Devices
  PROVE  /\ d \notin Counted => Cardinality(FindDevice(d)) = 0
         /\ ~overlap /\ d \in Counted => Cardinality(FindDevice(d)) = 1
<1>1. \A s \in FindDevice(d) : s \in Used /\ devArray[s] = d
  BY DeviceFacts DEF FindDevice, Used
<1>2. CASE d \notin Counted
  <2>1. FindDevice(d) = {}
    BY <1>1, <1>2 DEF SlotInv
  <2> QED BY <1>2, <2>1, FS_EmptySet
<1>3. CASE ~overlap /\ d \in Counted
  <2>1. PICK s \in Slot : devArray[s] = d
    BY <1>3 DEF SlotInv
  <2>2. FindDevice(d) = {s}
    <3>1. s \in FindDevice(d)
      BY <2>1 DEF FindDevice
    <3> QED BY <1>1, <3>1 DEF SlotInv
  <2> QED BY <1>3, <2>2, FS_Singleton
<1> QED BY <1>2, <1>3

(* The devices the shutdown reaches.                                       *)
Reached == {s \in Used : Cardinality({r \in Used : r < s}) < nOfDev}

LEMMA ShutdownKeeps ==
  ASSUME LogInv, Shutdown
  PROVE  /\ LogInv'
         /\ ~overlap' => \A d \in Devices : refs'[d] = 0
<1>0. /\ state = "up" /\ state' = "down" /\ \A t \in Threads : call[t] = Idle
      /\ refs' = [d \in Devices |-> refs[d] - Cardinality({s \in Reached : devArray[s] = d})]
      /\ UNCHANGED <<devArray, nOfDev, lockHeld, call, client, overlap>>
      /\ TypeOK /\ CallInv /\ SlotInv
  BY DEF Shutdown, Reached, LogInv
<1>1. Leaving = {} /\ Erasing = {}
  BY <1>0, IdleFacts DEF Leaving, Erasing
<1>2. Steady' = Steady /\ Leaving' = Leaving /\ Counted' = Counted /\ Used' = Used
  BY <1>0 DEF Steady, Leaving, Counted, Used
<1>3. TypeOK'
  <2>1. \A d \in Devices : Cardinality({s \in Reached : devArray[s] = d}) \in Nat
    <3> TAKE d \in Devices
    <3>1. {s \in Reached : devArray[s] = d} \in SUBSET Used
      BY DEF Reached
    <3> QED BY <1>0, <3>1, UsedFacts, FS_Subset, FS_CardinalityType
  <2>2. refs' \in [Devices -> Int]
    BY <1>0, <2>1 DEF TypeOK
  <2> QED BY <1>0, <2>2 DEF TypeOK
<1>4. CallInv' /\ FreshInv' /\ RefInv'
  BY <1>0, IdleFacts DEF CallInv, FreshInv, RefInv, Busy
<1>5. SlotInv' /\ MsgInv' /\ LockLeakCause'
  <2>1. SlotInv'
    BY <1>0, <1>2 DEF SlotInv
  <2>2. MsgInv'
    BY <1>0, IdleFacts DEF MsgInv
  <2>3. LockLeakCause'
    BY <1>0 DEF LogInv, LockLeakCause
  <2> QED BY <2>1, <2>2, <2>3
<1>6. ASSUME ~overlap', NEW d \in Devices PROVE refs'[d] = 0
  <2>1. ~overlap /\ nOfDev = Cardinality(Used) /\ IsFiniteSet(Used) /\ nOfDev \in Nat
    BY <1>0, <1>6, UsedFacts
  <2>2. ASSUME NEW s \in Used PROVE s \in Reached
    <3> DEFINE below == {r \in Used : r < s}
    <3>1. below \in SUBSET Used /\ s \notin below
      BY SlotNat DEF Used
    <3>2. /\ IsFiniteSet(below) /\ Cardinality(below) <= Cardinality(Used)
          /\ Cardinality(below) # Cardinality(Used) /\ Cardinality(below) \in Nat
      <4> HIDE DEF below
      <4> QED BY <2>1, <2>2, <3>1, FS_Subset, FS_CardinalityType
    <3>3. Cardinality(below) < nOfDev
      BY <2>1, <3>2
    <3> QED BY <2>2, <3>3 DEF Reached
  <2>3. {s \in Reached : devArray[s] = d} = FindDevice(d)
    BY <2>2, DeviceFacts DEF Reached, FindDevice, Used
  <2>4. refs'[d] = refs[d] - Cardinality(FindDevice(d))
    BY <1>0, <2>3
  <2>5. refs[d] = IF d \in Counted THEN 1 ELSE 0
    BY <1>0, <1>1 DEF LogInv, RefInv
  <2>6. Cardinality(FindDevice(d)) = IF d \in Counted THEN 1 ELSE 0
    BY <1>0, <2>1, FindFacts
  <2> QED BY <2>4, <2>5, <2>6
<1> QED BY <1>3, <1>4, <1>5, <1>6 DEF LogInv

-----------------------------------------------------------------------------
LEMMA LogInit == Init => LogInv
<1> SUFFICES ASSUME Init PROVE LogInv
  OBVIOUS
<1>1. /\ devArray = [s \in Slot |-> NULL] /\ nOfDev = 0
      /\ lockHeld = FALSE /\ state = "fresh" /\ call = [t \in Threads |-> Idle]
      /\ refs = [d \in Devices |-> 0]
      /\ client = [d \in ClientDevices |-> "out"] /\ overlap = FALSE
  BY DEF Init
<1>2. Used = {} /\ Leaving = {} /\ Steady = {} /\ Counted = {}
  <2>1. Used = {} /\ Steady = {}
    BY <1>1 DEF Used, Steady
  <2>2. Leaving = {}
    BY <1>1, IdleFacts DEF Leaving
  <2> QED BY <2>1, <2>2 DEF Counted
<1>3. TypeOK
  <2>1. /\ devArray \in [Slot -> Devices \cup {NULL}] /\ nOfDev \in Nat
        /\ state \in {"fresh", "up", "down"} /\ call \in [Threads -> Call]
        /\ refs \in [Devices -> Int] /\ client \in [ClientDevices -> {"out", "busy", "in"}]
    BY <1>1, IdleFacts
  <2>2. lockHeld \in BOOLEAN /\ overlap \in BOOLEAN
    BY <1>1
  <2> QED BY <2>1, <2>2 DEF TypeOK
<1>4. CallInv
  BY <1>1, IdleFacts DEF CallInv, Busy
<1>5. SlotInv
  BY <1>1, <1>2, IdleFacts, FS_EmptySet DEF SlotInv
<1>6. RefInv /\ FreshInv
  BY <1>1, <1>2 DEF RefInv, FreshInv
<1>7. MsgInv
  BY <1>1, IdleFacts DEF MsgInv
<1>8. LockLeakCause
  BY <1>1 DEF LockLeakCause
<1> QED BY <1>3, <1>4, <1>5, <1>6, <1>7, <1>8 DEF LogInv

LEMMA LogNext == LogInv /\ [Next]_vars => LogInv'
<1> SUFFICES ASSUME LogInv, [Next]_vars PROVE LogInv'
  OBVIOUS
<1>1. CASE UNCHANGED vars
  <2>1. /\ UNCHANGED <<devArray, nOfDev, lockHeld, state, call, refs, client, overlap>>
    BY <1>1 DEF vars
  <2>2. /\ Steady' = Steady /\ Leaving' = Leaving /\ Erasing' = Erasing
        /\ Counted' = Counted /\ Used' = Used
    BY <2>1 DEF Steady, Leaving, Erasing, Counted, Used
  <2>3. TypeOK' /\ CallInv'
    BY <2>1 DEF LogInv, TypeOK, CallInv
  <2>4. SlotInv' /\ RefInv' /\ FreshInv' /\ LockLeakCause'
    BY <2>1, <2>2 DEF LogInv, SlotInv, RefInv, FreshInv, LockLeakCause
  <2>5. MsgInv'
    BY <2>1, <2>2 DEF LogInv, MsgInv, MsgOK
  <2> QED BY <2>3, <2>4, <2>5 DEF LogInv
<1>2. CASE \E t \in Threads, d \in ClientDevices : InstallRefused(t, d)
  BY <1>1, <1>2 DEF InstallRefused
<1>3. CASE \E t \in Threads : MessageDisabled(t)
  BY <1>1, <1>3 DEF MessageDisabled
<1> QED
  BY <1>1, <1>2, <1>3, StartupKeeps, ShutdownKeeps, InstallBeginKeeps, InstallFailsKeeps,
     InstallEndKeeps, UninstallBeginKeeps, UninstallNotFoundKeeps, UninstallReleaseKeeps,
     UninstallEndKeeps, MessageBeginKeeps, MessageNextKeeps DEF Next

LEMMA LogSafe == Spec => []LogInv
BY LogInit, LogNext, PTL DEF Spec

(* The slots used after the lock was taken again are inside m_devArray,    *)
(* and m_nOfDev, which is unsigned, never drops below zero.                *)
THEOREM LoggingTypeOK == Spec => []TypeOK
<1>1. LogInv => TypeOK
  BY DEF LogInv
<1> QED BY <1>1, LogSafe, PTL

(* m_nOfDev, which ends the loops over m_devArray, is never lower than the *)
(* number of slots in use, and it is that number unless two installations  *)
(* shared a slot.                                                          *)
THEOREM LoggingCountsDevices == Spec => []CountsDevices
<1>1. LogInv => CountsDevices
  BY UsedFacts DEF LogInv, CountsDevices
<1> QED BY <1>1, LogSafe, PTL

(* NkLogUninstallDevice leaves the lock behind, for a device its client    *)
(* did install, only after two installations shared a slot.                *)
THEOREM LoggingLockLeak == Spec => []LockLeakCause
<1>1. LogInv => LockLeakCause
  BY DEF LogInv
<1> QED BY <1>1, LogSafe, PTL

(* NkLogMessage calls a device the logger has released only if the removal *)
(* overlaps the call.                                                      *)
THEOREM LoggingNoLateCall == Spec => []NoLateCall
<1>1. LogInv => NoLateCall
  <2> SUFFICES ASSUME LogInv, NEW t \in Threads, call[t].op = "message",
                      refs[call[t].dev] <= 0, call[t].dev \notin call[t].gone
               PROVE  FALSE
    BY DEF NoLateCall
  <2>1. call[t].dev \in Steady /\ state = "up"
    BY DEF LogInv, MsgInv, MsgOK, CallInv
  <2>2. call[t].dev \in Devices /\ call[t].dev \in Counted \ Erasing
    BY <2>1, SetFacts DEF LogInv, Counted
  <2>3. refs[call[t].dev] = 1
    BY <2>1, <2>2 DEF LogInv, RefInv
  <2> QED BY <2>3
<1> QED BY <1>1, LogSafe, PTL

(* After the shutdown.                                                     *)
DownInv == state = "down" /\ ~overlap => \A d \in Devices : refs[d] = 0

LEMMA DownNext == LogInv /\ DownInv /\ [Next]_vars => DownInv'
<1> SUFFICES ASSUME LogInv, DownInv, [Next]_vars PROVE DownInv'
  OBVIOUS
<1>1. CASE UNCHANGED vars
  BY <1>1 DEF DownInv, vars
<1>2. CASE Shutdown
  BY <1>2, ShutdownKeeps DEF DownInv
<1>3. ASSUME state' # "down" PROVE DownInv'
  BY <1>3 DEF DownInv
<1>4. CASE Startup
  BY <1>3, <1>4 DEF Startup
<1>5. CASE \E t \in Threads : UninstallRelease(t)
  BY <1>3, <1>5 DEF UninstallRelease, LogInv, CallInv
<1>6. CASE \E t \in Threads : \/ \E d \in ClientDevices : InstallRefused(t, d)
                              \/ MessageDisabled(t)
  BY <1>1, <1>6 DEF InstallRefused, MessageDisabled
<1>7. CASE \E t \in Threads :
             \/ \E d \in ClientDevices : \/ InstallBegin(t, d) \/ UninstallBegin(t, d)
                                         \/ UninstallNotFound(t, d)
             \/ InstallFails(t) \/ InstallEnd(t) \/ UninstallEnd(t)
             \/ MessageBegin(t) \/ MessageNext(t)
  <2>1. state = "up" /\ state' = state
    BY <1>7 DEF Running, InstallBegin, UninstallBegin, UninstallNotFound, InstallFails,
                InstallEnd, UninstallEnd, MessageBegin, MessageNext
  <2> QED BY <1>3, <2>1
<1> QED BY <1>1, <1>2, <1>4, <1>5, <1>6, <1>7 DEF Next

(* One reference per slot a device is in, none on a device whose removal   *)
(* has released it and none after the shutdown, unless two installations   *)
(* shared a slot.                                                          *)
THEOREM LoggingRefsExact == Spec => []RefsExact
<1>1. Init => DownInv
  BY DEF Init, DownInv
<1>2. LogInv /\ DownInv => RefsExact
  <2> SUFFICES ASSUME LogInv, DownInv, ~overlap, state # "down", NEW d \in Devices
               PROVE  refs[d] = Cardinality(FindDevice(d)) - Cardinality(Releasing(d))
    BY DEF RefsExact, DownInv
  <2>1. refs[d] = IF d \in Counted \ Erasing THEN 1 ELSE 0
    BY DEF LogInv, RefInv
  <2>2. Cardinality(FindDevice(d)) = IF d \in Counted THEN 1 ELSE 0
    BY FindFacts DEF LogInv
  <2>3. CASE d \in Erasing
    <3>1. PICK t \in Threads : call[t].op = "erase" /\ call[t].dev = d
      BY <2>3 DEF Erasing
    <3>2. Releasing(d) = {t}
      BY <3>1 DEF Releasing, LogInv, CallInv, Busy
    <3>3. d \in Counted /\ Cardinality(Releasing(d)) = 1
      BY <2>3, <3>2, SetFacts, FS_Singleton DEF LogInv, Counted
    <3> QED BY <2>1, <2>2, <2>3, <3>3
  <2>4. CASE d \notin Erasing
    <3>1. Releasing(d) = {}
      BY <2>4 DEF Erasing, Releasing
    <3>2. Cardinality(Releasing(d)) = 0
      BY <3>1, FS_EmptySet
    <3> QED BY <2>1, <2>2, <2>4, <3>2
  <2> QED BY <2>3, <2>4
<1> QED BY <1>1, <1>2, DownNext, LogSafe, PTL DEF Spec

(* NkLogMessage returns without having called a device that stayed         *)
(* installed only if one it had called was removed meanwhile, or two       *)
(* installations shared a slot.                                            *)
THEOREM LoggingMessageComplete == Spec => MessageComplete
<1>1. ASSUME LogInv, Next, NEW t \in Threads, Returns(t) PROVE MessageNext(t)
  <2>0. /\ call[t].op = "message" /\ call'[t].op = "none"
        /\ call \in [Threads -> Call]
    BY <1>1 DEF Returns, LogInv, TypeOK
  <2>1. ASSUME call' = call PROVE FALSE
    BY <2>0, <2>1
  <2>2. ASSUME NEW u \in Threads, NEW c, SetCall(u, c), call[u].op # "message" PROVE FALSE
    BY <2>0, <2>2 DEF SetCall
  <2>3. ASSUME NEW u \in Threads, u # t, NEW c, SetCall(u, c) PROVE FALSE
    BY <2>0, <2>3 DEF SetCall
  <2>4. CASE Startup \/ Shutdown
    BY <2>1, <2>4 DEF Startup, Shutdown
  <2>5. ASSUME NEW u \in Threads,
               \/ \E d \in ClientDevices : \/ InstallRefused(u, d) \/ InstallBegin(u, d)
                                           \/ UninstallNotFound(u, d)
               \/ InstallFails(u) \/ InstallEnd(u) \/ UninstallEnd(u)
               \/ MessageBegin(u) \/ MessageDisabled(u)
        PROVE  FALSE
    <3>1. CASE \E d \in ClientDevices : InstallRefused(u, d) \/ UninstallNotFound(u, d)
      BY <2>1, <3>1 DEF InstallRefused, UninstallNotFound, vars
    <3>2. CASE MessageDisabled(u)
      BY <2>1, <3>2 DEF MessageDisabled, vars
    <3>3. CASE \E d \in ClientDevices : InstallBegin(u, d)
      BY <2>2, <3>3, IdleFacts DEF InstallBegin
    <3>4. CASE InstallFails(u) \/ InstallEnd(u) \/ UninstallEnd(u)
      BY <2>2, <3>4 DEF InstallFails, InstallEnd, UninstallEnd
    <3>5. CASE MessageBegin(u)
      BY <2>2, <3>5, IdleFacts DEF MessageBegin
    <3> QED BY <2>5, <3>1, <3>2, <3>3, <3>4, <3>5
  <2>6. ASSUME NEW u \in Threads, NEW d \in ClientDevices, UninstallBegin(u, d) PROVE FALSE
    <3> DEFINE c == At("release", d, First(FindDevice(d)))
    <3>1. Leaves(u, d, c) /\ call[u] = Idle /\ u # t
      BY <2>0, <2>6, IdleFacts DEF UninstallBegin
    <3>2. call'[t] = [call[t] EXCEPT !.owed = @ \ {d}, !.gone = @ \cup {d}]
      BY <2>0, <3>1 DEF Leaves
    <3>3. call'[t].op = call[t].op
      BY <2>0, <3>2 DEF Call
    <3> QED BY <2>0, <3>3
  <2>7. ASSUME NEW u \in Threads, UninstallRelease(u) PROVE FALSE
    <3>1. u # t /\ call'[t] = call[t]
      BY <2>0, <2>7 DEF UninstallRelease
    <3> QED BY <2>0, <3>1
  <2>8. ASSUME NEW u \in Threads, MessageNext(u) PROVE MessageNext(t)
    BY <2>3, <2>8 DEF MessageNext
  <2> QED BY <1>1, <2>4, <2>5, <2>6, <2>7, <2>8 DEF Next
<1>2. ASSUME LogInv, NEW t \in Threads, Returns(t), MessageNext(t),
             ~overlap, call[t].seen \cap call[t].gone = {}, NEW d \in call[t].owed
      PROVE  FALSE
  <2> DEFINE c == call[t]
             from == c.slot + 1
             n == c.j + 1
             v == Visit(c, from, n)
  <2>0. /\ c \in Call /\ from \in Nat /\ n \in Nat /\ Ready(c, from, n)
        /\ TypeOK /\ CallInv /\ SlotInv
    BY <1>2, NextReady DEF Returns, LogInv
  <2>1. call'[t] = v
    BY <1>2, <2>0 DEF MessageNext, SetCall, TypeOK
  <2>2. v.op = "none" /\ c.op = "message"
    BY <1>2, <2>1 DEF Returns
  <2> HIDE DEF c, from, n
  <2>3. n >= nOfDev \/ \A s \in Used : ~(s >= from)
    <3> HIDE DEF v
    <3>1. \A f : ~Visited(c, v, f, n)
      BY <2>2 DEF Visited
    <3> QED BY <2>0, <3>1, VisitEffect DEF v
  <2>4. /\ d \in Steady /\ c.seen \subseteq Steady /\ n <= Cardinality(c.seen)
        /\ \A s \in Slot : devArray[s] \in c.owed => s >= from
        /\ \A s \in Slot : devArray[s] \in c.seen => s < from
    BY <1>2, <2>0 DEF Ready, c
  <2>5. PICK s \in Slot : devArray[s] = d
    BY <1>2, <2>0, <2>4 DEF SlotInv, Counted
  <2>6. s \in Used /\ s >= from /\ d \notin c.seen
    <3>1. s >= from /\ s \in Nat
      BY <1>2, <2>4, <2>5, SlotNat DEF c
    <3>2. d \notin c.seen
      BY <2>0, <2>4, <2>5, <3>1
    <3>3. d # NULL
      BY <2>0, <2>4, SetFacts DEF Counted
    <3> QED BY <2>5, <3>1, <3>2, <3>3 DEF Used
  <2>7. n < nOfDev
    <3>1. /\ IsFiniteSet(Counted) /\ Cardinality(Counted) = nOfDev /\ nOfDev \in Nat
          /\ c.seen \cup {d} \in SUBSET Counted /\ c.seen \in SUBSET Counted
      BY <2>0, <2>4, SetFacts DEF SlotInv, Counted
    <3>2. IsFiniteSet(c.seen) /\ Cardinality(c.seen) \in Nat
      BY <3>1, FS_Subset, FS_CardinalityType
    <3>3. Cardinality(c.seen \cup {d}) = Cardinality(c.seen) + 1
      BY <2>6, <3>2, FS_AddElement
    <3>4. Cardinality(c.seen \cup {d}) <= nOfDev
      BY <3>1, FS_Subset
    <3> QED BY <2>0, <2>4, <3>1, <3>2, <3>3, <3>4
  <2> QED BY <2>0, <2>3, <2>6, <2>7 DEF TypeOK
<1>3. LogInv /\ [Next]_vars =>
        [\A t \in Threads : Returns(t) =>
           call[t].owed = {} \/ call[t].seen \cap call[t].gone # {} \/ overlap]_vars
  BY <1>1, <1>2
<1> QED BY <1>3, LogSafe, PTL DEF Spec, MessageComplete
=============================================================================
