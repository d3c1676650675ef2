------------------------------ MODULE MainLoop ------------------------------
(***************************************************************************)
(* The main loop, NkApplicationRun of src/Noriko/application.c with the    *)
(* message pump of winloop.c and the window procedure's WM_CLOSE, on top   *)
(* of the layer stack.  The world layer (world.c) is pushed before the     *)
(* loop and popped behind it; client threads push and pop other layers.    *)
(***************************************************************************)
EXTENDS LayerStack

CONSTANTS
  Main,            (* the thread that runs the loop                        *)
  World,           (* gl_WorldLayer                                        *)
  TicksPerUpdate,  (* (NkUint64)ticksPerUpdate                             *)
  MaxElapsed,      (* maxElapsed                                           *)
  Elapsed          (* the ticks that may pass from one frame to the next   *)

(* 16 ms are less than two updates of 8.333 ms.                            *)
ASSUME LoopAssumption ==
  /\ Main \in Threads /\ World \in Layers
  /\ TicksPerUpdate \in Nat \ {0} /\ MaxElapsed \in Nat
  /\ MaxElapsed < 2 * TicksPerUpdate
  /\ Elapsed \subseteq Nat

VARIABLES
  phase,    (* where the main thread is                                    *)
  currLag,
  quit,     (* PostQuitMessage was called                                  *)
  updates   (* history: updates run in this frame                          *)

loopVars == <<phase, currLag, quit, updates>>
vars == <<layerVars, loopVars>>

Init ==
  /\ LayerInit
  /\ phase = "start" /\ currLag = 0 /\ quit = FALSE /\ updates = 0

(***************************************************************************)
(* The world layer's startup: its push as NK_AS_NORMAL.                    *)
(***************************************************************************)
WorldPush ==
  /\ phase = "start"
  /\ \/ PushBegin(Main, World, NK_AS_NORMAL) /\ phase' = phase
     \/ PushRefused(Main) /\ phase' = "down"
     \/ PushInsert(Main) /\ phase' = phase
     \/ PushAddRef(Main) /\ phase' = "frame"
  /\ UNCHANGED <<currLag, quit, updates>>

(***************************************************************************)
(* One frame                                                               *)
(***************************************************************************)
(* Fault: the time step is not limited.                                    *)
TimeStep_Unlimited(e) == e

TimeStep(e) == IF e < MaxElapsed THEN e ELSE MaxElapsed

FrameBegin ==
  /\ Alive /\ phase = "frame"
  /\ \E e \in Elapsed : currLag' = currLag + TimeStep(e)
  /\ phase' = "pump" /\ updates' = 0
  /\ UNCHANGED <<layerVars, quit>>

(* Where the main thread goes on after the traversal of a phase.           *)
After(ph) ==
  CASE ph \in {"event", "close"} -> "pump"
    [] ph = "updating" -> "update"
    [] ph = "rendering" -> "frame"

(* Fault: the time of two updates is taken off for one.                    *)
CatchUp_Twice == currLag - 2 * TicksPerUpdate

CatchUp == currLag - TicksPerUpdate

(* What follows the traversal: WM_CLOSE exits the application, an update   *)
(* reduces the lag.                                                        *)
Continue(ph) ==
  /\ phase' = IF pass' = NoPass THEN After(ph) ELSE ph
  /\ quit' = (quit \/ (ph = "close" /\ pass' = NoPass))
  /\ IF ph = "updating" /\ pass' = NoPass
     THEN currLag' = CatchUp /\ updates' = updates + 1
     ELSE UNCHANGED <<currLag, updates>>

(* PeekMessage found an input message: the window procedure dispatches it. *)
PumpEvent ==
  /\ phase = "pump"
  /\ \E ph \in {"event", "close"} : PassBegin("event") /\ Continue(ph)

PumpEmpty ==
  /\ Alive /\ phase = "pump" /\ ~quit
  /\ phase' = "update"
  /\ UNCHANGED <<layerVars, currLag, quit, updates>>

(* Fault: WM_QUIT does not leave the loop.                                 *)
PumpQuit_Stays ==
  /\ Alive /\ phase = "pump" /\ quit
  /\ phase' = "update" /\ quit' = FALSE
  /\ UNCHANGED <<layerVars, currLag, updates>>

(* WM_QUIT, which PeekMessage returns when no other message is waiting.    *)
PumpQuit ==
  /\ Alive /\ phase = "pump" /\ quit
  /\ phase' = "left"
  /\ UNCHANGED <<layerVars, currLag, quit, updates>>

UpdateBegin ==
  /\ phase = "update" /\ currLag > TicksPerUpdate
  /\ PassBegin("update") /\ Continue("updating")

RenderBegin ==
  /\ phase = "update" /\ currLag <= TicksPerUpdate
  /\ PassBegin("render") /\ Continue("rendering")

(* The callback of a layer has returned.                                   *)
Traverse == call[Main] = NoCall /\ (PassNext \/ EventHandled) /\ Continue(phase)

(***************************************************************************)
(* The world layer's shutdown, which fails when the layer is not found.    *)
(* The reference of the stack is kept.                                     *)
(***************************************************************************)
WorldPop ==
  /\ phase = "left"
  /\ \/ PopQuery(Main, World) /\ phase' = phase
     \/ PopErase(Main) /\ phase' = "popped"
     \/ /\ Alive /\ call[Main] = NoCall /\ QueryIndex(World) = Vec!SizeMax
        /\ phase' = "down" /\ UNCHANGED layerVars
  /\ UNCHANGED <<currLag, quit, updates>>

(* The shutdown of the layer stack, when no thread uses it any more.       *)
Shutdown ==
  /\ Alive /\ phase = "popped"
  /\ \A t \in Threads \ {Main} : call[t] = NoCall
  /\ phase' = "down"
  /\ UNCHANGED <<layerVars, currLag, quit, updates>>

(* NkApplicationExit called by a layer, as the world layer does on F4.     *)
LayerExit ==
  /\ Alive /\ pass # NoPass /\ call[Main] = NoCall
  /\ quit' = TRUE
  /\ UNCHANGED <<layerVars, phase, currLag, updates>>

MainStep ==
  \/ WorldPush
  \/ FrameBegin \/ PumpEvent \/ PumpEmpty \/ PumpQuit
  \/ UpdateBegin \/ RenderBegin \/ Traverse
  \/ WorldPop \/ Shutdown

(***************************************************************************)
(* Pushes and pops of other layers, by other threads and by the layers'    *)
(* callbacks on the main thread.                                           *)
(***************************************************************************)
(* A layer is pushed when it is not in the stack, nor referenced by it, at *)
(* an index that is valid at that time, and popped when it is in it.       *)
(* Bound: no call begins after an insertion below the end, which leaves    *)
(* behind what no property speaks of.                                      *)
CallBegins(t) ==
  /\ ~scrambled
  /\ \E l \in Layers \ {World} :
       /\ \A u \in Threads : call[u].layer # l
       /\ \/ /\ l \notin Vec!Elements(stack) /\ refs[l] = 0
             /\ \E where \in (0 .. Count) \cup {NK_AS_NORMAL} : PushBegin(t, l, where)
          \/ PopQuery(t, l)

CallContinues(t) ==
  \/ PushRefused(t) \/ PushInsert(t) \/ PushAddRef(t)
  \/ PopErase(t) \/ PopRelease(t)

MayCall(t) == IF t = Main THEN pass # NoPass ELSE phase \notin {"start", "down"}

ClientBegins == \E t \in Threads : MayCall(t) /\ CallBegins(t) /\ UNCHANGED loopVars

ClientContinues(t) == MayCall(t) /\ CallContinues(t) /\ UNCHANGED loopVars

Next == MainStep \/ LayerExit \/ ClientBegins \/ \E t \in Threads : ClientContinues(t)

(* The main thread is scheduled, layers return, and the message queue runs *)
(* empty again and again: input does not arrive faster than it is handled. *)
Fairness ==
  /\ WF_vars(MainStep \/ ClientContinues(Main))
  /\ SF_vars(Traverse)
  /\ SF_vars(PumpEmpty \/ PumpQuit)

Spec == Init /\ [][Next]_vars /\ Fairness
-----------------------------------------------------------------------------
TypeOK ==
  /\ LayerTypeOK
  /\ phase \in {"start", "frame", "pump", "event", "close", "update", "updating",
                "rendering", "left", "popped", "down"}
  /\ currLag \in Nat /\ quit \in BOOLEAN /\ updates \in Nat

(* The lag that is left when a frame is drawn is at most one update,       *)
(* however late the frame was, and a frame runs at most two of them: the   *)
(* loop cannot fall behind further and further.                            *)
LagBounded ==
  /\ updates <= 2
  /\ phase \in {"rendering", "frame"} => currLag <= TicksPerUpdate

(* Closing the main window, or a layer's NkApplicationExit, ends the main  *)
(* loop, unless the process ends.                                          *)
CloseLeaves == quit ~> (phase \in {"left", "popped", "down"} \/ ~Alive)
=============================================================================
