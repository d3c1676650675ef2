--------------------------- MODULE MCApplication ----------------------------
(***************************************************************************)
(* TLC instance of Application: two components before NkOM, of which the   *)
(* second, as Env, has a post-startup callback (Env's returns NkErr_Ok in  *)
(* any case, which the loop does not rely on), NkOM itself, one after it   *)
(* and two that register an instance, the last but one being the window.   *)
(* Which callbacks are NULL is as in gl_c_CompInitTable.                   *)
(***************************************************************************)
EXTENDS Application

MCCallbacks ==
  (Comp \X {Startup, Shutdown})
    \cup {<<Registrar - 1, PostStartup>>, <<Registrar, PostStartup>>,
           <<Registrar, PreShutdown>>}
=============================================================================
