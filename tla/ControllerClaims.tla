-------------------------- MODULE ControllerClaims --------------------------
(* Whether the Controller's calls and the joins of its tasks end. They do for *)
(* the calls they were written for, not when a test or an observer overlaps.  *)
EXTENDS Controller

InCall(c) == pc[c] \notin {"idle", "subscribed"}

\* Every RPC is answered. It is, without tests, observers and Dell fans
\* (Controller.cpp:28-84, 107-115, 18-26).
CallsReturn == \A c \in Callers : InCall(c) ~> pc[c] = "idle"

\* "End gracefully": a task told to stop does, and its join returns
\* (FanTask.cpp:23).
JoinEndsGracefully ==
  \A c \in Callers : pc[c] = "disable_join" ~> pc[c] # "disable_join"
=============================================================================
