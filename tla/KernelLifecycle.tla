--------------------------- MODULE KernelLifecycle ---------------------------
(***************************************************************************)
(* What the REPL session promises about its kernel, with the blocks, the   *)
(* channel and the identity of kernel processes left out.  The kernel      *)
(* state is one of the Kernel variants.  It changes in exactly three ways: *)
(*   - the user's shutdown() and restart(), with the effects of            *)
(*     crates/repl/src/session.rs;                                          *)
(*   - a grace-period timer those spawned firing;                          *)
(*   - an outstanding launch task completing.                               *)
(*                                                                         *)
(* Only the number of outstanding launches and timers is kept.  A launch   *)
(* is outstanding while it has not completed and something still holds    *)
(* its shared task.  Leaving StartingKernel drops the session's handle,    *)
(* so it may cancel the launch that state held, unless a queued execution  *)
(* holds it too.                                                           *)
(*                                                                         *)
(* Neither the timers nor the completions look at the state they find:     *)
(* the code applies them whenever they run.  Spec section 4.1 intends a    *)
(* narrower machine, in which a launch completes only from Starting and a  *)
(* timer fires only from ShuttingDown or Restarting.                       *)
(***************************************************************************)
EXTENDS Naturals

VARIABLES
  state,    \* the Kernel variant of Session.kernel
  pending,  \* launch tasks that have not completed and are still held
  shut,     \* shutdown grace-period timers not yet fired
  rest      \* restart grace-period timers not yet fired

avars == <<state, pending, shut, rest>>

States == {"Starting", "Running", "Errored", "ShuttingDown", "Shutdown",
           "Restarting"}

(* Leaving a state for another with n launches outstanding before the      *)
(* drop: the handle StartingKernel held is released, which cancels its     *)
(* launch when nothing else holds it.                                      *)
Leave(n) ==
  pending' \in IF state = "Starting" THEN {n, n - 1} ELSE {n}

Init ==
  /\ state = "Starting"
  /\ pending = 1
  /\ shut = 0
  /\ rest = 0

(* shutdown(): a running kernel is given a grace period; from any other    *)
(* state the session is Shutdown at once.                                  *)
ShutdownReq ==
  \/ /\ state = "Running"
     /\ state' = "ShuttingDown"
     /\ shut' = shut + 1
     /\ UNCHANGED <<pending, rest>>
  \/ /\ state # "Running"
     /\ state' = "Shutdown"
     /\ Leave(pending)
     /\ UNCHANGED <<shut, rest>>

(* restart(): ignored while Restarting.  A running kernel is given a grace *)
(* period.  From any other state a new launch starts at once.              *)
RestartReq ==
  /\ state # "Restarting"
  /\ \/ /\ state = "Running"
        /\ state' = "Restarting"
        /\ rest' = rest + 1
        /\ UNCHANGED <<pending, shut>>
     \/ /\ state # "Running"
        /\ state' = "Starting"
        /\ Leave(pending + 1)
        /\ UNCHANGED <<shut, rest>>

(* A shutdown timer fires: the session is Shutdown, whatever it was.       *)
ShutdownTimer ==
  /\ shut > 0
  /\ shut' = shut - 1
  /\ state' = "Shutdown"
  /\ Leave(pending)
  /\ UNCHANGED rest

(* A restart timer fires: a new launch starts, whatever the state was.     *)
RestartTimer ==
  /\ rest > 0
  /\ rest' = rest - 1
  /\ state' = "Starting"
  /\ Leave(pending + 1)
  /\ UNCHANGED shut

(* An outstanding launch completes: the session takes its kernel or its    *)
(* error, whatever the state was.                                          *)
LaunchDone ==
  /\ pending > 0
  /\ state' \in {"Running", "Errored"}
  /\ Leave(pending - 1)
  /\ UNCHANGED <<shut, rest>>

Next ==
  \/ ShutdownReq
  \/ RestartReq
  \/ ShutdownTimer
  \/ RestartTimer
  \/ LaunchDone

Spec == Init /\ [][Next]_avars
=============================================================================
