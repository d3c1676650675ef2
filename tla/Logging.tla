------------------------------ MODULE Logging -------------------------------
(***************************************************************************)
(* The log devices, src/Noriko/log.c, used by several threads.  Every      *)
(* operation holds m_mtxLock except while it calls a device: those calls   *)
(* cut an operation into steps, and what it found before (a free slot, the *)
(* slot of a device, its place in the array) is used after.  A call made   *)
(* from inside a device's callback interleaves like one of another thread. *)
(* refs are the references log.c holds; client, overlap and the fields     *)
(* seen, owed and gone of a call are history.                              *)
(***************************************************************************)
EXTENDS Integers, FiniteSets

CONSTANTS
  NDev,     (* NK_LOG_NDEV                                                 *)
  Devices,  (* the log devices                                             *)
  Conout,   (* gl_ConoutDevice, or NULL in deploy builds                   *)
  Threads,
  NULL

ASSUME LoggingAssumption ==
  /\ NDev \in Nat \ {0}
  /\ IsFiniteSet(Devices)
  /\ NULL \notin Devices /\ Conout \in Devices \cup {NULL}

VARIABLES
  devArray,  (* m_devArray                                                 *)
  nOfDev,    (* m_nOfDev                                                   *)
  lockHeld,  (* m_mtxLock was left locked                                  *)
  state,     (* "fresh", "up" between startup and shutdown, then "down"    *)
  call,      (* what each thread is doing inside the logger                *)
  refs,      (* AddRef() calls minus Release() calls, per device           *)
  client,    (* history: whether its client sees a device as installed     *)
  overlap    (* history: two installations used the same slot              *)

vars == <<devArray, nOfDev, lockHeld, state, call, refs, client, overlap>>

Slot == 0 .. (NDev - 1)
ClientDevices == Devices \ {Conout}

(* A thread's locals: the device it calls without the lock, the slot       *)
(* (devIndex or i) and j.  seen: the devices a message went to.  owed:     *)
(* those it still has to reach, installed all the time since the call      *)
(* began.  gone: those whose removal overlapped the call.                  *)
Idle == [op |-> "none", dev |-> NULL, slot |-> 0, j |-> 0,
         seen |-> {}, owed |-> {}, gone |-> {}]

At(op, d, s) == [Idle EXCEPT !.op = op, !.dev = d, !.slot = s]

SetCall(t, c) == call' = [call EXCEPT ![t] = c]

Used == {s \in Slot : devArray[s] # NULL}

First(S) == CHOOSE s \in S : \A r \in S : s <= r

Running == state = "up" /\ ~lockHeld

(* gl_LogContext before startup.                                           *)
Init ==
  /\ devArray = [s \in Slot |-> NULL] /\ nOfDev = 0
  /\ lockHeld = FALSE /\ state = "fresh"
  /\ call = [t \in Threads |-> Idle]
  /\ refs = [d \in Devices |-> 0]
  /\ client = [d \in ClientDevices |-> "out"] /\ overlap = FALSE

(* Fault: the device is not counted.                                       *)
PutDevice_NotCounted(d, s) ==
  /\ devArray' = [devArray EXCEPT ![s] = d]
  /\ refs' = [refs EXCEPT ![d] = @ + 1]
  /\ nOfDev' = nOfDev

(* Fault: no reference is taken.                                           *)
PutDevice_NoRef(d, s) ==
  /\ devArray' = [devArray EXCEPT ![s] = d]
  /\ refs' = refs
  /\ nOfDev' = nOfDev + 1

PutDevice(d, s) ==
  /\ devArray' = [devArray EXCEPT ![s] = d]
  /\ refs' = [refs EXCEPT ![d] = @ + 1]
  /\ nOfDev' = nOfDev + 1

(* No other thread runs yet: the console device gets the first slot.       *)
Startup ==
  /\ state = "fresh"
  /\ state' = "up"
  /\ IF Conout = NULL THEN UNCHANGED <<devArray, refs, nOfDev>> ELSE PutDevice(Conout, 0)
  /\ UNCHANGED <<lockHeld, call, client, overlap>>

(* All calls are over.  The loop ends after m_nOfDev devices; array and    *)
(* counter are left as they are.                                           *)
Shutdown ==
  /\ state = "up"
  /\ \A t \in Threads : call[t] = Idle
  /\ state' = "down"
  /\ LET reached == {s \in Used : Cardinality({r \in Used : r < s}) < nOfDev}
     IN  refs' = [d \in Devices |-> refs[d] - Cardinality({s \in reached : devArray[s] = d})]
  /\ UNCHANGED <<devArray, nOfDev, lockHeld, call, client, overlap>>

(***************************************************************************)
(* NkLogInstallDevice                                                      *)
(***************************************************************************)
(* The loop over the array.  It always finds a slot, m_nOfDev being no     *)
(* lower than the number of slots in use (CountsDevices).                  *)
FreeSlot == First(Slot \ Used)

InstallRefused(t, d) ==
  /\ Running /\ call[t] = Idle /\ client[d] = "out"
  /\ nOfDev >= NDev
  /\ UNCHANGED vars

InstallBegin(t, d) ==
  /\ Running /\ call[t] = Idle /\ client[d] = "out"
  /\ nOfDev < NDev /\ Slot \ Used # {}
  /\ SetCall(t, At("install", d, FreeSlot))
  /\ client' = [client EXCEPT ![d] = "busy"]
  /\ UNCHANGED <<devArray, nOfDev, lockHeld, state, refs, overlap>>

(* OnInstall() refused.                                                    *)
InstallFails(t) ==
  /\ Running /\ call[t].op = "install"
  /\ SetCall(t, Idle)
  /\ client' = [client EXCEPT ![call[t].dev] = "out"]
  /\ UNCHANGED <<devArray, nOfDev, lockHeld, state, refs, overlap>>

InstallEnd(t) ==
  /\ Running /\ call[t].op = "install"
  /\ PutDevice(call[t].dev, call[t].slot)
  /\ SetCall(t, Idle)
  /\ client' = [client EXCEPT ![call[t].dev] = "in"]
  /\ overlap' = (overlap \/ devArray[call[t].slot] # NULL)
  /\ UNCHANGED <<lockHeld, state>>

(***************************************************************************)
(* NkLogUninstallDevice                                                    *)
(***************************************************************************)
(* Fault: the search ends before the last slot.                            *)
FindDevice_NotLast(d) == {s \in Slot : s + 1 < NDev /\ devArray[s] = d}

(* __NkInt_LogFindDevice; empty stands for SIZE_MAX.                       *)
FindDevice(d) == {s \in Slot : devArray[s] = d}

(* The messages under way no longer owe d anything.                        *)
Leaves(t, d, c) ==
  call' = [u \in Threads |->
             IF u = t THEN c
             ELSE IF call[u].op = "message"
             THEN [call[u] EXCEPT !.owed = @ \ {d}, !.gone = @ \cup {d}]
             ELSE call[u]]

UninstallBegin(t, d) ==
  /\ Running /\ call[t] = Idle /\ client[d] = "in"
  /\ FindDevice(d) # {}
  /\ Leaves(t, d, At("release", d, First(FindDevice(d))))
  /\ client' = [client EXCEPT ![d] = "busy"]
  /\ UNCHANGED <<devArray, nOfDev, lockHeld, state, refs, overlap>>

(* NkErr_ItemNotFound is returned without unlocking.                       *)
UninstallNotFound(t, d) ==
  /\ Running /\ call[t] = Idle /\ client[d] = "in"
  /\ FindDevice(d) = {}
  /\ lockHeld' = TRUE
  /\ UNCHANGED <<devArray, nOfDev, state, call, refs, client, overlap>>

(* OnUninstall() and Release(), without the lock.                          *)
UninstallRelease(t) ==
  /\ call[t].op = "release"
  /\ refs' = [refs EXCEPT ![call[t].dev] = @ - 1]
  /\ call' = [call EXCEPT ![t].op = "erase"]
  /\ UNCHANGED <<devArray, nOfDev, lockHeld, state, client, overlap>>

(* Fault: the device stays in the array.                                   *)
EraseSlot_Keeps(s) == devArray

EraseSlot(s) == [devArray EXCEPT ![s] = NULL]

(* Whatever is in the slot by now is erased.                               *)
UninstallEnd(t) ==
  /\ Running /\ call[t].op = "erase"
  /\ devArray' = EraseSlot(call[t].slot)
  /\ nOfDev' = nOfDev - 1
  /\ SetCall(t, Idle)
  /\ client' = [client EXCEPT ![call[t].dev] = "out"]
  /\ UNCHANGED <<lockHeld, state, refs, overlap>>

(***************************************************************************)
(* NkLogMessage                                                            *)
(***************************************************************************)
(* Fault: an empty slot counts as a device that was served.                *)
Visit_CountsEmpty(c, from, n) ==
  LET here == {s \in Used : s >= from}
  IN  IF here # {} /\ n + First(here) - from < nOfDev
      THEN [c EXCEPT !.dev = devArray[First(here)], !.slot = First(here),
                     !.j = n + First(here) - from,
                     !.seen = @ \cup {devArray[First(here)]},
                     !.owed = @ \ {devArray[First(here)]}]
      ELSE Idle

(* The loop from slot "from" on, with j = n: the next device's OnMessage() *)
(* is called, or the function returns.                                     *)
Visit(c, from, n) ==
  LET here == {s \in Used : s >= from}
  IN  IF here # {} /\ n < nOfDev
      THEN [c EXCEPT !.dev = devArray[First(here)], !.slot = First(here), !.j = n,
                     !.seen = @ \cup {devArray[First(here)]},
                     !.owed = @ \ {devArray[First(here)]}]
      ELSE Idle

Leaving == {call[t].dev : t \in {u \in Threads : call[u].op \in {"release", "erase"}}}

Message(owed, gone) == [Idle EXCEPT !.op = "message", !.owed = owed, !.gone = gone]

(* With no device installed the function returns at once.                  *)
MessageBegin(t) ==
  /\ Running /\ call[t] = Idle
  /\ SetCall(t, Visit(Message({devArray[s] : s \in Used} \ Leaving, Leaving), 0, 0))
  /\ UNCHANGED <<devArray, nOfDev, lockHeld, state, refs, client, overlap>>

(* The level is outside m_glMinLevel .. m_glMaxLevel.                      *)
MessageDisabled(t) ==
  /\ Running /\ call[t] = Idle
  /\ UNCHANGED vars

(* OnMessage() has returned, the lock is taken again, m_nOfDev read again. *)
MessageNext(t) ==
  /\ Running /\ call[t].op = "message"
  /\ SetCall(t, Visit(call[t], call[t].slot + 1, call[t].j + 1))
  /\ UNCHANGED <<devArray, nOfDev, lockHeld, state, refs, client, overlap>>

Next ==
  \/ Startup \/ Shutdown
  \/ \E t \in Threads :
       \/ \E d \in ClientDevices :
            \/ InstallRefused(t, d) \/ InstallBegin(t, d)
            \/ UninstallBegin(t, d) \/ UninstallNotFound(t, d)
       \/ InstallFails(t) \/ InstallEnd(t)
       \/ UninstallRelease(t) \/ UninstallEnd(t)
       \/ MessageBegin(t) \/ MessageDisabled(t) \/ MessageNext(t)

Spec == Init /\ [][Next]_vars
-----------------------------------------------------------------------------
Call == [op : {"none", "install", "release", "erase", "message"},
         dev : Devices \cup {NULL}, slot : Slot, j : Nat,
         seen : SUBSET Devices, owed : SUBSET Devices, gone : SUBSET Devices]

(* The slots used after the lock was taken again are inside m_devArray,    *)
(* and the counter, which is unsigned, never drops below zero.             *)
TypeOK ==
  /\ devArray \in [Slot -> Devices \cup {NULL}] /\ nOfDev \in Nat
  /\ lockHeld \in BOOLEAN /\ state \in {"fresh", "up", "down"}
  /\ call \in [Threads -> Call]
  /\ refs \in [Devices -> Int]
  /\ client \in [ClientDevices -> {"out", "busy", "in"}] /\ overlap \in BOOLEAN

(* m_nOfDev, which ends the loops over m_devArray, is never lower than the *)
(* number of devices in it, and higher only after two installations shared *)
(* a slot.                                                                 *)
CountsDevices ==
  /\ Cardinality(Used) <= nOfDev
  /\ overlap \/ Cardinality(Used) = nOfDev

Releasing(d) == {t \in Threads : call[t].op = "erase" /\ call[t].dev = d}

(* The logger holds one reference per slot a device is in, none on a       *)
(* device whose removal has released it, and none after the shutdown,      *)
(* unless two installations shared a slot.                                 *)
RefsExact ==
  ~overlap => \A d \in Devices :
    refs[d] = IF state = "down" THEN 0
              ELSE Cardinality(FindDevice(d)) - Cardinality(Releasing(d))

(* The lock is left behind by the removal of a device that its client did  *)
(* install only after two installations shared a slot.                     *)
LockLeakCause == lockHeld => overlap

(* A message calls a device the logger has released only if the removal    *)
(* overlaps NkLogMessage: once NkLogUninstallDevice has returned, no later *)
(* message reaches the device, however its slots are shared.               *)
NoLateCall ==
  \A t \in Threads :
    call[t].op = "message" /\ refs[call[t].dev] <= 0 => call[t].dev \in call[t].gone

Returns(t) == call[t].op = "message" /\ call'[t].op = "none"

(* NkLogMessage returns without having called a device that stayed         *)
(* installed only if one it had called was removed meanwhile, or two       *)
(* installations shared a slot.                                            *)
MessageComplete ==
  [][\A t \in Threads : Returns(t) =>
       call[t].owed = {} \/ call[t].seen \cap call[t].gone # {} \/ overlap]_vars

(* NkLogMessage reaches every device that stays installed during the call  *)
(* (and was not overwritten by another installation).                      *)
AllInstalledReached ==
  [][\A t \in Threads : Returns(t) => call[t].owed = {} \/ overlap]_vars
=============================================================================
