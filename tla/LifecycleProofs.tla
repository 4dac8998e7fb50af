--------------------------- MODULE LifecycleProofs ---------------------------
(***************************************************************************)
(* Proof that the Session specification implements KernelLifecycle under   *)
(* the refinement mapping Session!Lifecycle, for every value of the        *)
(* constants.                                                              *)
(***************************************************************************)
EXTENDS SessionProofs

(* Grace-period continuations target kernels that have run, and never the *)
(* kernel that is running now (it is a different launch).                  *)
ContsOK ==
  /\ \A c \in conts : c.proc \in resolved
  /\ kernel = "Running" => kid \in resolved /\ \A c \in conts : c.proc # kid

(* The invariant the refinement proof rests on.                            *)
RInv == IInv /\ NoStuckTransient /\ ContsOK

USE LaunchesAssumption, ExecAssumption, PointsAssumption
USE DEF SetKernel, NewBlock

-----------------------------------------------------------------------------
(* Counting                                                                *)

(* Dropping at most the element k from a finite set.                       *)
LEMMA DropAtMostOne ==
  ASSUME NEW S, NEW T, NEW k, IsFiniteSet(S), T \subseteq S, S \ T \subseteq {k}
  PROVE  /\ IsFiniteSet(T)
         /\ \/ Cardinality(T) = Cardinality(S)
            \/ k \in S /\ Cardinality(T) = Cardinality(S) - 1
<1>1. IsFiniteSet(T)
  BY FS_Subset
<1>2. CASE T = S
  BY <1>1, <1>2
<1>3. CASE T # S
  <2>1. k \in S /\ T = S \ {k}
    BY <1>3
  <2>2. Cardinality(S \ {k}) = Cardinality(S) - 1
    BY <2>1, FS_RemoveElement
  <2>3. QED
    BY <1>1, <2>1, <2>2
<1>4. QED
  BY <1>2, <1>3

(* The cardinality of a finite set is a natural number.                   *)
LEMMA CardNat ==
  ASSUME NEW S, IsFiniteSet(S)
  PROVE  Cardinality(S) \in Nat
BY FS_CardinalityType

(* LiveLaunches is a finite set of launches.                               *)
LEMMA LiveFinite ==
  ASSUME launches \in Nat
  PROVE  IsFiniteSet(LiveLaunches) /\ LiveLaunches \subseteq 1..launches
<1>1. IsFiniteSet(1..launches)
  BY FS_Interval
<1>2. QED
  BY <1>1, FS_Subset DEF LiveLaunches

-----------------------------------------------------------------------------
(* The continuations' targets                                              *)

(* ContsOK is preserved by every step of a state of IInv.                  *)
LEMMA ContsStep ==
  IInv /\ NoStuckTransient /\ ContsOK /\ [Next]_vars => ContsOK'
<1> SUFFICES ASSUME IInv, NoStuckTransient, ContsOK, [Next]_vars
             PROVE  ContsOK'
  OBVIOUS
<1> USE DEF IInv, TypeOK, KernelStates, kernelVars, taskVars
<1>1. ASSUME NEW r \in Ranges, Execute(r) PROVE ContsOK'
  BY <1>1 DEF Execute, ContsOK
<1>2. ASSUME NEW p \in Points, Edit(p) PROVE ContsOK'
  BY <1>2 DEF Edit, ContsOK
<1>3. ASSUME NEW m \in Msgs, CloseBlock(m) PROVE ContsOK'
  BY <1>3 DEF CloseBlock, ContsOK
<1>4. CASE Clear
  BY <1>4 DEF Clear, ClearOutputs, ContsOK
<1>5. CASE Interrupt
  BY <1>5 DEF Interrupt, ContsOK
<1>6. CASE Shutdown
  BY <1>6 DEF Shutdown, ContsOK
<1>7. CASE Restart
  BY <1>7 DEF Restart, StartKernel, ContsOK
<1>8. ASSUME NEW c \in conts, ShutdownDone(c) PROVE ContsOK'
  BY <1>8 DEF ShutdownDone, ContsOK
<1>9. ASSUME NEW c \in conts, RestartDone(c) PROVE ContsOK'
  BY <1>9 DEF RestartDone, StartKernel, ContsOK
<1>10. ASSUME NEW t \in Launches, LaunchSucceeds(t) PROVE ContsOK'
  BY <1>10 DEF LaunchSucceeds, ContsOK
<1>11. ASSUME NEW t \in Launches, LaunchFails(t) PROVE ContsOK'
  BY <1>11 DEF LaunchFails, ContsOK
<1>12. ASSUME NEW q \in queued, QueuedSend(q) PROVE ContsOK'
  BY <1>12 DEF QueuedSend, ContsOK
<1>13. ASSUME NEW m \in 0..MaxExec, NEW st \in {"idle", "busy"},
              KernelStatus(m, st)
       PROVE ContsOK'
  BY <1>13 DEF KernelStatus, ContsOK
<1>14. CASE KernelInfoReply
  BY <1>14 DEF KernelInfoReply, ContsOK
<1>15. CASE UNCHANGED vars
  BY <1>15 DEF vars, ContsOK
<1>16. QED
  BY <1>1, <1>2, <1>3, <1>4, <1>5, <1>6, <1>7, <1>8, <1>9, <1>10, <1>11,
     <1>12, <1>13, <1>14, <1>15 DEF Next

(* RInv holds initially and is preserved by every step.                    *)
LEMMA InitRInv == Init => RInv
BY InitIInv DEF Init, RInv, NoStuckTransient, ContsOK

(* Every step from a state of RInv reaches a state of RInv.               *)
LEMMA NextRInv == RInv /\ [Next]_vars => RInv'
BY NextIInv, NoStuckStep, ContsStep DEF RInv

-----------------------------------------------------------------------------
(* How each kind of step changes the live launches                        *)

(* A step that leaves the launches, their results and the queued          *)
(* executions alone and leaves StartingKernel (or was not in it) keeps     *)
(* every live launch except, when leaving StartingKernel, the one it held. *)
LEMMA LiveOnLeave ==
  ASSUME TypeOK, launches' = launches, resolved' = resolved,
         queued' = queued, kernel' # "Starting"
  PROVE  /\ IsFiniteSet(LiveLaunches')
         /\ Cardinality(LiveLaunches') \in
              IF kernel = "Starting"
              THEN {Cardinality(LiveLaunches), Cardinality(LiveLaunches) - 1}
              ELSE {Cardinality(LiveLaunches)}
<1> DEFINE S == LiveLaunches  T == LiveLaunches'
<1>1. T \subseteq S
  BY DEF LiveLaunches, Alive
<1>2. S \ T \subseteq {kid}
  BY DEF LiveLaunches, Alive
<1>3. kernel # "Starting" => T = S
  BY DEF LiveLaunches, Alive
<1>4. IsFiniteSet(S) /\ Cardinality(S) \in Nat
  BY LiveFinite, CardNat DEF TypeOK, Launches
<1>5. IsFiniteSet(T) /\ (Cardinality(T) = Cardinality(S)
                          \/ Cardinality(T) = Cardinality(S) - 1)
  BY <1>1, <1>2, <1>4, DropAtMostOne
<1>6. QED
  BY <1>3, <1>4, <1>5

(* start_kernel: launch launches + 1 becomes live; the launch the          *)
(* StartingKernel left behind held may be dropped.                         *)
LEMMA LiveOnStart ==
  ASSUME TypeOK, launches' = launches + 1, kid' = launches + 1,
         kernel' = "Starting", resolved' = resolved, queued' = queued
  PROVE  Cardinality(LiveLaunches') \in
           IF kernel = "Starting"
           THEN {Cardinality(LiveLaunches) + 1, Cardinality(LiveLaunches)}
           ELSE {Cardinality(LiveLaunches) + 1}
<1> DEFINE S == LiveLaunches  n == launches + 1  T == LiveLaunches' \ {n}
<1>1. n \in LiveLaunches' /\ n \notin T
  BY DEF LiveLaunches, Alive, TypeOK, Launches
<1>2. T \subseteq S
  BY DEF LiveLaunches, Alive, TypeOK, Launches
<1>3. S \ T \subseteq {kid}
  BY DEF LiveLaunches, Alive, TypeOK, Launches
<1>4. kernel # "Starting" => T = S
  BY DEF LiveLaunches, Alive, TypeOK, Launches
<1>5. IsFiniteSet(S) /\ Cardinality(S) \in Nat
  BY LiveFinite, CardNat DEF TypeOK, Launches
<1>6. IsFiniteSet(T) /\ (Cardinality(T) = Cardinality(S)
                          \/ Cardinality(T) = Cardinality(S) - 1)
  BY <1>2, <1>3, <1>5, DropAtMostOne
<1>7. LiveLaunches' = T \cup {n}
  BY <1>1
<1>8. Cardinality(LiveLaunches') = Cardinality(T) + 1
  BY <1>1, <1>6, <1>7, FS_AddElement
<1>9. Cardinality(T) \in Nat
  BY <1>6, CardNat
<1>10. QED
  BY <1>4, <1>5, <1>6, <1>8, <1>9

(* A launch t completes: it stops being live, and so may the launch that  *)
(* the StartingKernel it replaces held.                                    *)
LEMMA LiveOnDone ==
  ASSUME TypeOK, NEW t \in LiveLaunches, launches' = launches,
         resolved' = resolved \cup {t}, queued' = queued,
         kernel' # "Starting"
  PROVE  /\ Cardinality(LiveLaunches) > 0
         /\ Cardinality(LiveLaunches') \in
              IF kernel = "Starting"
              THEN {Cardinality(LiveLaunches) - 1, Cardinality(LiveLaunches) - 2}
              ELSE {Cardinality(LiveLaunches) - 1}
<1> DEFINE S == LiveLaunches \ {t}  T == LiveLaunches'
<1>1. T \subseteq S
  BY DEF LiveLaunches, Alive
<1>2. S \ T \subseteq {kid}
  BY DEF LiveLaunches, Alive
<1>3. kernel # "Starting" => T = S
  BY DEF LiveLaunches, Alive
<1>4. IsFiniteSet(LiveLaunches) /\ Cardinality(LiveLaunches) \in Nat
  BY LiveFinite, CardNat DEF TypeOK, Launches
<1>5. Cardinality(S) = Cardinality(LiveLaunches) - 1 /\ IsFiniteSet(S)
  BY <1>4, FS_RemoveElement
<1>6. Cardinality(LiveLaunches) > 0
  BY <1>4, FS_EmptySet
<1>7. IsFiniteSet(T) /\ (Cardinality(T) = Cardinality(S)
                          \/ Cardinality(T) = Cardinality(S) - 1)
  BY <1>1, <1>2, <1>5, DropAtMostOne
<1>8. QED
  BY <1>3, <1>4, <1>5, <1>6, <1>7

-----------------------------------------------------------------------------
(* How each kind of step changes the counted continuations                 *)

(* The pending shutdown continuations are finitely many.                  *)
LEMMA ShutdownContsNat ==
  ASSUME IsFiniteSet(conts)
  PROVE  IsFiniteSet(ShutdownConts) /\ Cardinality(ShutdownConts) \in Nat
BY FS_Subset, FS_CardinalityType DEF ShutdownConts

(* shutdown() of a running kernel adds a continuation not yet pending.    *)
LEMMA AddShutdownCont ==
  ASSUME NEW c, IsFiniteSet(conts), c \notin conts, c.kind = "shutdown",
         conts' = conts \cup {c}
  PROVE  /\ Cardinality(ShutdownConts') = Cardinality(ShutdownConts) + 1
         /\ RestartConts' = RestartConts
<1>1. ShutdownConts' = ShutdownConts \cup {c} /\ c \notin ShutdownConts
  BY DEF ShutdownConts
<1>2. IsFiniteSet(ShutdownConts)
  BY ShutdownContsNat
<1>3. QED
  BY <1>1, <1>2, FS_AddElement DEF RestartConts

(* restart() of a running kernel adds a continuation not yet pending.     *)
LEMMA AddFreshRestartCont ==
  ASSUME NEW c, IsFiniteSet(conts), c \notin conts, c.kind = "restart",
         conts' = conts \cup {c}
  PROVE  /\ Cardinality(RestartConts') = Cardinality(RestartConts) + 1
         /\ ShutdownConts' = ShutdownConts
<1>1. RestartConts' = RestartConts \cup {c} /\ c \notin RestartConts
  BY DEF RestartConts
<1>2. IsFiniteSet(RestartConts)
  BY RestartContsNat
<1>3. QED
  BY <1>1, <1>2, FS_AddElement DEF ShutdownConts

(* A shutdown continuation runs and is gone.                               *)
LEMMA RemoveShutdownCont ==
  ASSUME NEW c \in conts, IsFiniteSet(conts), c.kind = "shutdown",
         conts' = conts \ {c}
  PROVE  /\ Cardinality(ShutdownConts) > 0
         /\ Cardinality(ShutdownConts') = Cardinality(ShutdownConts) - 1
         /\ RestartConts' = RestartConts
<1>1. ShutdownConts' = ShutdownConts \ {c} /\ c \in ShutdownConts
  BY DEF ShutdownConts
<1>2. IsFiniteSet(ShutdownConts) /\ Cardinality(ShutdownConts) \in Nat
  BY ShutdownContsNat
<1>3. Cardinality(ShutdownConts) # 0
  BY <1>1, <1>2, FS_EmptySet
<1>4. Cardinality(ShutdownConts \ {c}) = Cardinality(ShutdownConts) - 1
  BY <1>1, <1>2, FS_RemoveElement
<1>5. RestartConts' = RestartConts
  BY DEF RestartConts
<1>6. QED
  BY <1>1, <1>2, <1>3, <1>4, <1>5

(* A restart continuation runs and is gone.                                *)
LEMMA RemoveRestartContShut ==
  ASSUME NEW c \in conts, c.kind = "restart", conts' = conts \ {c}
  PROVE  ShutdownConts' = ShutdownConts
BY DEF ShutdownConts

-----------------------------------------------------------------------------
(* Each step of the session is a step of the lifecycle or a stutter        *)

(* The mapped abstract variables.                                          *)
Pend == Cardinality(LiveLaunches)
Shut == Cardinality(ShutdownConts)
Rest == Cardinality(RestartConts)

(* A step that changes none of the mapped state.                           *)
LEMMA MappedUnchanged ==
  ASSUME kernel' = kernel, kid' = kid, launches' = launches,
         resolved' = resolved, queued' = queued, conts' = conts
  PROVE  UNCHANGED Lifecycle!avars
BY DEF Lifecycle!avars, LiveLaunches, Alive, ShutdownConts, RestartConts

(* Every handler of session.rs, run from a state of RInv, is one lifecycle *)
(* step (shutdown, restart, a timer, a launch completion) or leaves the    *)
(* kernel state and the three counts as they were.                         *)
LEMMA RefineStep == RInv /\ [Next]_vars => [Lifecycle!Next]_(Lifecycle!avars)
<1> SUFFICES ASSUME RInv, [Next]_vars
             PROVE  [Lifecycle!Next]_(Lifecycle!avars)
  OBVIOUS
<1> USE DEF RInv, IInv, BudgetOK, kernelVars, taskVars
<1>0. /\ IsFiniteSet(conts)
      /\ Shut \in Nat /\ Rest \in Nat /\ Pend \in Nat
  BY ShutdownContsNat, RestartContsNat, LiveFinite, CardNat
     DEF Shut, Rest, Pend, TypeOK, Launches
<1>1. ASSUME NEW r \in Ranges, Execute(r) PROVE UNCHANGED Lifecycle!avars
  <2>1. LiveLaunches' = LiveLaunches
    BY <1>1 DEF Execute, LiveLaunches, Alive
  <2>2. QED
    BY <1>1, <2>1 DEF Execute, Lifecycle!avars, ShutdownConts, RestartConts
<1>2. ASSUME NEW p \in Points, Edit(p) PROVE UNCHANGED Lifecycle!avars
  BY <1>2, MappedUnchanged DEF Edit
<1>3. ASSUME NEW m \in Msgs, CloseBlock(m) PROVE UNCHANGED Lifecycle!avars
  BY <1>3, MappedUnchanged DEF CloseBlock
<1>4. CASE Clear
  BY <1>4, MappedUnchanged DEF Clear
<1>5. CASE Interrupt
  BY <1>5, MappedUnchanged DEF Interrupt
<1>12. ASSUME NEW q \in queued, QueuedSend(q) PROVE UNCHANGED Lifecycle!avars
  <2>1. LiveLaunches' = LiveLaunches
    BY <1>12 DEF QueuedSend, LiveLaunches, Alive
  <2>2. QED
    BY <1>12, <2>1 DEF QueuedSend, Lifecycle!avars, ShutdownConts,
       RestartConts
<1>13. ASSUME NEW m \in 0..MaxExec, NEW st \in {"idle", "busy"},
              KernelStatus(m, st)
       PROVE UNCHANGED Lifecycle!avars
  BY <1>13, MappedUnchanged DEF KernelStatus
<1>14. CASE KernelInfoReply
  BY <1>14, MappedUnchanged DEF KernelInfoReply
<1>15. CASE UNCHANGED vars
  BY <1>15, MappedUnchanged DEF vars
<1>6. CASE Shutdown
  <2>1. CASE kernel = "Running"
    <3>1. [kind |-> "shutdown", proc |-> kid] \notin conts
      BY <2>1 DEF ContsOK
    <3>2. /\ Shut' = Shut + 1 /\ RestartConts' = RestartConts
          /\ Pend' = Pend
      BY <1>0, <1>6, <2>1, <3>1, AddShutdownCont, LiveOnLeave
         DEF Shutdown, Shut, Pend
    <3>3. Lifecycle!ShutdownReq
      BY <1>6, <2>1, <3>2 DEF Shutdown, Lifecycle!ShutdownReq, Shut, Rest,
         Pend
    <3>4. QED
      BY <3>3 DEF Lifecycle!Next
  <2>2. CASE kernel # "Running"
    <3>1. Pend' \in IF kernel = "Starting" THEN {Pend, Pend - 1} ELSE {Pend}
      BY <1>6, <2>2, LiveOnLeave DEF Shutdown, Pend
    <3>2. Lifecycle!ShutdownReq
      BY <1>6, <2>2, <3>1 DEF Shutdown, Lifecycle!ShutdownReq, Lifecycle!Leave,
         Shut, Rest, Pend, ShutdownConts, RestartConts
    <3>3. QED
      BY <3>2 DEF Lifecycle!Next
  <2>3. QED
    BY <2>1, <2>2
<1>7. CASE Restart
  <2>1. CASE kernel = "Running"
    <3>1. [kind |-> "restart", proc |-> kid] \notin conts
      BY <2>1 DEF ContsOK
    <3>2. /\ Rest' = Rest + 1 /\ ShutdownConts' = ShutdownConts
          /\ Pend' = Pend
      BY <1>0, <1>7, <2>1, <3>1, AddFreshRestartCont, LiveOnLeave
         DEF Restart, Rest, Pend
    <3>3. Lifecycle!RestartReq
      BY <1>7, <2>1, <3>2 DEF Restart, Lifecycle!RestartReq, Shut, Rest, Pend
    <3>4. QED
      BY <3>3 DEF Lifecycle!Next
  <2>2. CASE kernel # "Running"
    <3>1. Pend' \in IF kernel = "Starting" THEN {Pend + 1, Pend} ELSE {Pend + 1}
      BY <1>7, <2>2, LiveOnStart DEF Restart, StartKernel, Pend
    <3>2. Pend' \in IF kernel = "Starting" THEN {Pend + 1, (Pend + 1) - 1}
                    ELSE {Pend + 1}
      BY <1>0, <3>1
    <3>3. Lifecycle!RestartReq
      BY <1>7, <2>2, <3>2 DEF Restart, StartKernel, Lifecycle!RestartReq,
         Lifecycle!Leave, Shut, Rest, Pend, ShutdownConts, RestartConts
    <3>4. QED
      BY <3>3 DEF Lifecycle!Next
  <2>3. QED
    BY <2>1, <2>2
<1>8. ASSUME NEW c \in conts, ShutdownDone(c) PROVE Lifecycle!Next
  <2>1. /\ Shut > 0 /\ Shut' = Shut - 1 /\ Rest' = Rest
    BY <1>0, <1>8, RemoveShutdownCont DEF ShutdownDone, Shut, Rest
  <2>2. Pend' \in IF kernel = "Starting" THEN {Pend, Pend - 1} ELSE {Pend}
    BY <1>8, LiveOnLeave DEF ShutdownDone, Pend
  <2>3. Lifecycle!ShutdownTimer
    BY <1>8, <2>1, <2>2 DEF ShutdownDone, Lifecycle!ShutdownTimer,
       Lifecycle!Leave, Shut, Rest, Pend
  <2>4. QED
    BY <2>3 DEF Lifecycle!Next
<1>9. ASSUME NEW c \in conts, RestartDone(c) PROVE Lifecycle!Next
  <2>1. /\ Rest > 0 /\ Rest' = Rest - 1 /\ Shut' = Shut
    BY <1>0, <1>9, RemoveRestartCont, RemoveRestartContShut
    DEF RestartDone, Shut, Rest
  <2>2. Pend' \in IF kernel = "Starting" THEN {Pend + 1, Pend} ELSE {Pend + 1}
    BY <1>9, LiveOnStart DEF RestartDone, StartKernel, Pend
  <2>3. Pend' \in IF kernel = "Starting" THEN {Pend + 1, (Pend + 1) - 1}
                  ELSE {Pend + 1}
    BY <1>0, <2>2
  <2>4. Lifecycle!RestartTimer
    BY <1>9, <2>1, <2>3 DEF RestartDone, StartKernel, Lifecycle!RestartTimer,
       Lifecycle!Leave, Shut, Rest, Pend
  <2>5. QED
    BY <2>4 DEF Lifecycle!Next
<1>10. ASSUME NEW t \in Launches, LaunchSucceeds(t) \/ LaunchFails(t)
       PROVE  Lifecycle!Next
  <2>1. /\ t \in LiveLaunches
        /\ resolved' = resolved \cup {t}
        /\ UNCHANGED <<launches, queued, conts>>
        /\ kernel' \in {"Running", "Errored"}
    BY <1>10 DEF LaunchSucceeds, LaunchFails, LiveLaunches
  <2>2. /\ Pend > 0
        /\ Pend' \in IF kernel = "Starting" THEN {Pend - 1, Pend - 2}
                      ELSE {Pend - 1}
    BY <2>1, LiveOnDone DEF Pend
  <2>3. Pend' \in IF kernel = "Starting" THEN {Pend - 1, (Pend - 1) - 1}
                  ELSE {Pend - 1}
    BY <1>0, <2>2
  <2>4. Lifecycle!LaunchDone
    BY <2>1, <2>2, <2>3 DEF Lifecycle!LaunchDone, Lifecycle!Leave, Shut,
       Rest, Pend, ShutdownConts, RestartConts
  <2>5. QED
    BY <2>4 DEF Lifecycle!Next
<1>16. QED
  BY <1>1, <1>2, <1>3, <1>4, <1>5, <1>6, <1>7, <1>8, <1>9, <1>10, <1>12,
     <1>13, <1>14, <1>15 DEF Next


(* Session::new starts one launch and no timer: the lifecycle's start.     *)
LEMMA InitRefines == Init => Lifecycle!Init
<1> SUFFICES ASSUME Init PROVE Lifecycle!Init
  OBVIOUS
<1>1. LiveLaunches = {1}
  BY DEF Init, LiveLaunches, Alive
<1>2. ShutdownConts = {} /\ RestartConts = {}
  BY DEF Init, ShutdownConts, RestartConts
<1>3. Pend = 1 /\ Shut = 0 /\ Rest = 0
  BY <1>1, <1>2, FS_Singleton, FS_EmptySet DEF Pend, Shut, Rest
<1>4. QED
  BY <1>3 DEF Init, Lifecycle!Init, Pend, Shut, Rest

(* The session implements KernelLifecycle: every change of its kernel      *)
(* state is a shutdown() or restart() of session.rs, a grace-period        *)
(* continuation firing, or the completion of a launch that was still held  *)
(* (by StartingKernel or by a queued execute), with the counts of held     *)
(* launches and pending continuations moving as the abstract spec allows.  *)
THEOREM Refinement == Spec => LifecycleSpec
<1>1. Spec => []RInv
  BY InitRInv, NextRInv, PTL DEF Spec
<1>2. QED
  BY <1>1, InitRefines, RefineStep, PTL DEF Spec, LifecycleSpec, Lifecycle!Spec
=============================================================================
