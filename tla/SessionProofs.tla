---------------------------- MODULE SessionProofs ----------------------------
(***************************************************************************)
(* Proofs about the Session specification, for every value of the         *)
(* constants that satisfies their assumptions.                            *)
(***************************************************************************)
EXTENDS Session, FiniteSetTheorems, TLAPS

(* The launch held by StartingKernel or RunningKernel is one start_kernel  *)
(* has spawned.                                                            *)
KidOK == kernel \in {"Starting", "Running"} => kid \in 1..launches

(* Every pending restart continuation still has a launch left to spend.   *)
BudgetOK ==
  /\ IsFiniteSet(conts)
  /\ launches + Cardinality(RestartConts) <= MaxLaunches

(* The inductive strengthening of TypeOK.                                  *)
IInv == TypeOK /\ KidOK /\ BudgetOK

USE LaunchesAssumption, ExecAssumption, PointsAssumption
USE DEF SetKernel, NewBlock

-----------------------------------------------------------------------------
(* RestartConts after a step that adds or removes one continuation.        *)

LEMMA RestartContsNat ==
  ASSUME IsFiniteSet(conts)
  PROVE  IsFiniteSet(RestartConts) /\ Cardinality(RestartConts) \in Nat
BY FS_Subset, FS_CardinalityType DEF RestartConts

LEMMA AddOtherCont ==
  ASSUME NEW c, IsFiniteSet(conts), conts' = conts \cup {c},
         c.kind # "restart"
  PROVE  IsFiniteSet(conts') /\ RestartConts' = RestartConts
BY FS_AddElement DEF RestartConts

LEMMA AddRestartCont ==
  ASSUME NEW c, IsFiniteSet(conts), conts' = conts \cup {c},
         c.kind = "restart"
  PROVE  /\ IsFiniteSet(conts')
         /\ Cardinality(RestartConts') <= Cardinality(RestartConts) + 1
<1>1. RestartConts' = RestartConts \cup {c}
  BY DEF RestartConts
<1>2. IsFiniteSet(RestartConts) /\ Cardinality(RestartConts) \in Nat
  BY RestartContsNat
<1>3. Cardinality(RestartConts \cup {c}) =
        IF c \in RestartConts THEN Cardinality(RestartConts)
        ELSE Cardinality(RestartConts) + 1
  BY <1>2, FS_AddElement
<1>4. IsFiniteSet(conts')
  BY FS_AddElement
<1>5. QED
  BY <1>1, <1>2, <1>3, <1>4

LEMMA RemoveOtherCont ==
  ASSUME NEW c, IsFiniteSet(conts), conts' = conts \ {c},
         c.kind # "restart"
  PROVE  IsFiniteSet(conts') /\ RestartConts' = RestartConts
BY FS_RemoveElement DEF RestartConts

LEMMA RemoveRestartCont ==
  ASSUME NEW c \in conts, IsFiniteSet(conts), conts' = conts \ {c},
         c.kind = "restart"
  PROVE  /\ IsFiniteSet(conts')
         /\ Cardinality(RestartConts) >= 1
         /\ Cardinality(RestartConts') = Cardinality(RestartConts) - 1
<1>1. RestartConts' = RestartConts \ {c} /\ c \in RestartConts
  BY DEF RestartConts
<1>2. IsFiniteSet(RestartConts) /\ Cardinality(RestartConts) \in Nat
  BY RestartContsNat
<1>3. Cardinality(RestartConts) # 0
  BY <1>1, <1>2, FS_EmptySet
<1>4. Cardinality(RestartConts \ {c}) = Cardinality(RestartConts) - 1
  BY <1>1, <1>2, FS_RemoveElement
<1>5. IsFiniteSet(conts')
  BY FS_RemoveElement
<1>6. QED
  BY <1>1, <1>2, <1>3, <1>4, <1>5

-----------------------------------------------------------------------------
(* The type invariant                                                      *)

LEMMA InitIInv == Init => IInv
<1> SUFFICES ASSUME Init PROVE IInv
  OBVIOUS
<1>1. TypeOK
  <2>1. DOMAIN blocks = {}
    BY DEF Init
  <2>2. kernel \in KernelStates /\ kid \in 0..MaxLaunches /\ launches \in Launches
    BY DEF Init, KernelStates, Launches
  <2>3. execState \in {"idle", "busy"} /\ kernelInfo \in BOOLEAN
    BY DEF Init
  <2>4. /\ resolved \subseteq 1..launches
        /\ queued \subseteq [task : Launches, msg : Msgs]
        /\ conts \subseteq [kind : {"shutdown", "restart"}, proc : Launches]
        /\ regions \subseteq Msgs /\ chan \subseteq Requests
        /\ nextMsg \in 0..MaxExec
    BY DEF Init
  <2>5. QED
    BY <2>1, <2>2, <2>3, <2>4 DEF TypeOK
<1>2. KidOK
  BY DEF Init, KidOK
<1>3. BudgetOK
  <2>1. RestartConts = {}
    BY DEF Init, RestartConts
  <2>2. QED
    BY <2>1, FS_EmptySet DEF Init, BudgetOK
<1>4. QED
  BY <1>1, <1>2, <1>3 DEF IInv

(* A new block record built by execute() is well typed.                    *)
LEMMA ProjectStatusType ==
  ASSUME NEW k \in KernelStates
  PROVE  ProjectStatus(k) \in Statuses
BY DEF ProjectStatus, KernelStates, Statuses

LEMMA NextIInv == IInv /\ [Next]_vars => IInv'
<1> SUFFICES ASSUME IInv, [Next]_vars PROVE IInv'
  OBVIOUS
<1> USE DEF IInv, TypeOK, KidOK, BudgetOK, KernelStates, Launches, Msgs,
           kernelVars, taskVars
<1>1. ASSUME NEW r \in Ranges, Execute(r) PROVE IInv'
  <2> DEFINE m == nextMsg + 1
  <2>1. m \in Msgs
    BY <1>1 DEF Execute, Msgs
  <2>2. ProjectStatus(kernel) \in Statuses
    BY ProjectStatusType
  <2>3. chan' \subseteq Requests
    BY <1>1, <2>1 DEF Execute, Send, Requests, Launches
  <2>4. queued' \subseteq [task : Launches, msg : Msgs]
    BY <1>1, <2>1 DEF Execute, Launches
  <2>5. /\ DOMAIN blocks' \subseteq Msgs
        /\ \A x \in DOMAIN blocks' : blocks'[x] \in BlockRecords
    BY <1>1, <2>1, <2>2 DEF Execute, BlockRecords
  <2>6. /\ kernel' = kernel /\ kid' = kid /\ execState' = execState
        /\ kernelInfo' = kernelInfo /\ launches' = launches
        /\ resolved' = resolved /\ conts' = conts /\ nextMsg' = m
    BY <1>1 DEF Execute
  <2>7. regions' \subseteq Msgs
    BY <1>1, <2>1 DEF Execute
  <2>8. TypeOK'
    BY <2>1, <2>3, <2>4, <2>5, <2>6, <2>7 DEF Msgs
  <2>9. RestartConts' = RestartConts
    BY <2>6 DEF RestartConts
  <2>10. QED
    BY <2>6, <2>8, <2>9
<1>2. ASSUME NEW p \in Points, Edit(p) PROVE IInv'
  <2>0. /\ kernel' = kernel /\ kid' = kid /\ execState' = execState
        /\ kernelInfo' = kernelInfo /\ launches' = launches
        /\ resolved' = resolved /\ queued' = queued /\ conts' = conts
        /\ nextMsg' = nextMsg /\ chan' = chan
    BY <1>2 DEF Edit
  <2>1. /\ DOMAIN blocks' \subseteq Msgs
        /\ \A x \in DOMAIN blocks' : blocks'[x] \in BlockRecords
    BY <1>2 DEF Edit, Without
  <2>4. regions' \subseteq Msgs
    BY <1>2 DEF Edit
  <2>5. TypeOK'
    BY <2>0, <2>1, <2>4
  <2>2. KidOK'
    BY <2>0
  <2>3. BudgetOK'
    BY <2>0 DEF RestartConts
  <2>6. QED
    BY <2>5, <2>2, <2>3
<1>3. ASSUME NEW m \in Msgs, CloseBlock(m) PROVE IInv'
  BY <1>3 DEF CloseBlock, Without, RestartConts
<1>4. CASE Clear
  BY <1>4 DEF Clear, ClearOutputs, Without, RestartConts
<1>5. CASE Interrupt
  BY <1>5 DEF Interrupt, Send, Requests, Launches, RestartConts
<1>6. CASE Shutdown
  <2>1. CASE kernel = "Running"
    <3>1. conts' = conts \cup {[kind |-> "shutdown", proc |-> kid]}
      BY <1>6, <2>1 DEF Shutdown
    <3>2. IsFiniteSet(conts') /\ RestartConts' = RestartConts
      <4>1. [kind |-> "shutdown", proc |-> kid].kind # "restart"
        OBVIOUS
      <4>2. QED
        BY <3>1, <4>1, AddOtherCont
    <3>3. QED
      BY <1>6, <2>1, <3>1, <3>2 DEF Shutdown
  <2>2. CASE kernel # "Running"
    <3>1. RestartConts' = RestartConts
      BY <1>6, <2>2 DEF Shutdown, RestartConts
    <3>2. QED
      BY <1>6, <2>2, <3>1 DEF Shutdown
  <2>3. QED
    BY <2>1, <2>2
<1>7. CASE Restart
  <2>1. Cardinality(RestartConts) \in Nat
    BY RestartContsNat
  <2>2. CASE kernel = "Running"
    <3>1. conts' = conts \cup {[kind |-> "restart", proc |-> kid]}
      BY <1>7, <2>2 DEF Restart
    <3>2. IsFiniteSet(conts')
          /\ Cardinality(RestartConts') <= Cardinality(RestartConts) + 1
      BY <3>1, AddRestartCont
    <3>3. /\ kernel' = "Restarting" /\ kid' = 0 /\ launches' = launches
          /\ execState' = execState /\ kernelInfo' = kernelInfo
          /\ resolved' = resolved /\ queued' = queued /\ blocks' = blocks
          /\ regions' = regions /\ nextMsg' = nextMsg /\ chan' = chan
      BY <1>7, <2>2 DEF Restart
    <3>4. launches + Cardinality(RestartConts) < MaxLaunches
      BY <1>7 DEF Restart, RestartBudget
    <3>5. conts' \subseteq [kind : {"shutdown", "restart"}, proc : Launches]
      BY <2>2, <3>1
    <3>6. TypeOK'
      BY <3>3, <3>5
    <3>7. Cardinality(RestartConts') \in Nat
      BY <3>2, FS_Subset, FS_CardinalityType DEF RestartConts
    <3>8. BudgetOK'
      BY <2>1, <3>2, <3>3, <3>4, <3>7 DEF BudgetOK
    <3>9. QED
      BY <3>3, <3>6, <3>8
  <2>3. CASE kernel # "Running"
    <3>1. RestartConts' = RestartConts
      BY <1>7, <2>3 DEF Restart, RestartConts
    <3>2. QED
      BY <1>7, <2>1, <2>3, <3>1 DEF Restart, RestartBudget, StartKernel,
         ClearOutputs, Without
  <2>4. QED
    BY <2>2, <2>3
<1>8. ASSUME NEW c \in conts, ShutdownDone(c) PROVE IInv'
  <2>1. IsFiniteSet(conts') /\ RestartConts' = RestartConts
    BY <1>8, RemoveOtherCont DEF ShutdownDone
  <2>2. QED
    BY <1>8, <2>1 DEF ShutdownDone, ClearOutputs, Without, Requests
<1>9. ASSUME NEW c \in conts, RestartDone(c) PROVE IInv'
  <2>1. /\ IsFiniteSet(conts')
        /\ Cardinality(RestartConts) >= 1
        /\ Cardinality(RestartConts') = Cardinality(RestartConts) - 1
    BY <1>9, RemoveRestartCont DEF RestartDone
  <2>2. Cardinality(RestartConts) \in Nat
    BY RestartContsNat
  <2>3. QED
    BY <1>9, <2>1, <2>2 DEF RestartDone, StartKernel, ClearOutputs, Without,
       Requests
<1>10. ASSUME NEW t \in Launches, LaunchSucceeds(t) PROVE IInv'
  <2>1. /\ kernel' = "Running" /\ kid' = t /\ execState' = "idle"
        /\ kernelInfo' = FALSE /\ resolved' = resolved \cup {t}
        /\ launches' = launches /\ queued' = queued /\ conts' = conts
        /\ blocks' = blocks /\ regions' = regions /\ nextMsg' = nextMsg
        /\ chan' = chan
    BY <1>10 DEF LaunchSucceeds
  <2>2. t \in 1..launches
    BY <1>10 DEF LaunchSucceeds
  <2>3. RestartConts' = RestartConts
    BY <2>1 DEF RestartConts
  <2>4. kernelInfo' \in BOOLEAN
    BY <2>1
  <2>5. resolved' \subseteq 1..launches'
    BY <2>1, <2>2
  <2>6. TypeOK'
    BY <2>1, <2>2, <2>4, <2>5
  <2>7. KidOK' /\ BudgetOK'
    BY <2>1, <2>2, <2>3
  <2>8. QED
    BY <2>6, <2>7
<1>11. ASSUME NEW t \in Launches, LaunchFails(t) PROVE IInv'
  <2>1. \A x \in DOMAIN blocks' : blocks'[x] \in BlockRecords
    BY <1>11 DEF LaunchFails, BlockRecords, Statuses
  <2>2. QED
    BY <1>11, <2>1 DEF LaunchFails, KernelStates, RestartConts
<1>12. ASSUME NEW q \in queued, QueuedSend(q) PROVE IInv'
  BY <1>12 DEF QueuedSend, Send, Requests, Launches, RestartConts
<1>13. ASSUME NEW m \in 0..MaxExec, NEW st \in {"idle", "busy"},
              KernelStatus(m, st)
       PROVE IInv'
  <2>1. \A x \in DOMAIN blocks' : blocks'[x] \in BlockRecords
    BY <1>13 DEF KernelStatus, BlockRecords, Statuses
  <2>2. QED
    BY <1>13, <2>1 DEF KernelStatus, RestartConts
<1>14. CASE KernelInfoReply
  BY <1>14 DEF KernelInfoReply, RestartConts
<1>15. CASE UNCHANGED vars
  BY <1>15 DEF vars, RestartConts
<1>16. QED
  BY <1>1, <1>2, <1>3, <1>4, <1>5, <1>6, <1>7, <1>8, <1>9, <1>10, <1>11,
     <1>12, <1>13, <1>14, <1>15 DEF Next

(* Every reachable state is well typed: in particular a start_kernel never *)
(* hands out a launch beyond the bound and every request on a kernel's     *)
(* channel names a launched kernel.                                        *)
THEOREM TypeCorrect == Spec => []TypeOK
<1>1. IInv => TypeOK
  BY DEF IInv
<1>2. QED
  BY <1>1, InitIInv, NextIInv, PTL DEF Spec

-----------------------------------------------------------------------------
(* No transient kernel state is a dead end                                 *)

LEMMA NoStuckStep ==
  IInv /\ NoStuckTransient /\ [Next]_vars => NoStuckTransient'
<1> SUFFICES ASSUME IInv, NoStuckTransient, [Next]_vars
             PROVE  NoStuckTransient'
  OBVIOUS
<1> USE DEF IInv, TypeOK, KernelStates, Launches, Msgs, kernelVars, taskVars
<1>1. ASSUME NEW r \in Ranges, Execute(r) PROVE NoStuckTransient'
  BY <1>1 DEF Execute, NoStuckTransient
<1>2. ASSUME NEW p \in Points, Edit(p) PROVE NoStuckTransient'
  BY <1>2 DEF Edit, NoStuckTransient
<1>3. ASSUME NEW m \in Msgs, CloseBlock(m) PROVE NoStuckTransient'
  BY <1>3 DEF CloseBlock, NoStuckTransient
<1>4. CASE Clear
  BY <1>4 DEF Clear, ClearOutputs, NoStuckTransient
<1>5. CASE Interrupt
  BY <1>5 DEF Interrupt, NoStuckTransient
<1>6. CASE Shutdown
  <2>1. CASE kernel = "Running"
    <3>1. /\ kernel' = "ShuttingDown"
          /\ [kind |-> "shutdown", proc |-> kid] \in conts'
      BY <1>6, <2>1 DEF Shutdown
    <3>2. QED
      BY <3>1 DEF NoStuckTransient
  <2>2. CASE kernel # "Running"
    BY <1>6, <2>2 DEF Shutdown, NoStuckTransient
  <2>3. QED
    BY <2>1, <2>2
<1>7. CASE Restart
  <2>1. CASE kernel = "Running"
    <3>1. /\ kernel' = "Restarting"
          /\ [kind |-> "restart", proc |-> kid] \in conts'
      BY <1>7, <2>1 DEF Restart
    <3>2. QED
      BY <3>1 DEF NoStuckTransient
  <2>2. CASE kernel # "Running"
    <3>1. kernel' = "Starting" /\ kid' = launches + 1 /\ launches' = launches + 1
          /\ resolved' = resolved
      BY <1>7, <2>2 DEF Restart, StartKernel
    <3>2. QED
      BY <3>1 DEF NoStuckTransient
  <2>3. QED
    BY <2>1, <2>2
<1>8. ASSUME NEW c \in conts, ShutdownDone(c) PROVE NoStuckTransient'
  <2>1. kernel' = "Shutdown"
    BY <1>8 DEF ShutdownDone
  <2>2. QED
    BY <2>1 DEF NoStuckTransient
<1>9. ASSUME NEW c \in conts, RestartDone(c) PROVE NoStuckTransient'
  <2>1. kernel' = "Starting" /\ kid' = launches + 1 /\ launches' = launches + 1
        /\ resolved' = resolved
    BY <1>9 DEF RestartDone, StartKernel
  <2>2. QED
    BY <2>1 DEF NoStuckTransient
<1>10. ASSUME NEW t \in Launches, LaunchSucceeds(t) PROVE NoStuckTransient'
  BY <1>10 DEF LaunchSucceeds, NoStuckTransient
<1>11. ASSUME NEW t \in Launches, LaunchFails(t) PROVE NoStuckTransient'
  BY <1>11 DEF LaunchFails, NoStuckTransient
<1>12. ASSUME NEW q \in queued, QueuedSend(q) PROVE NoStuckTransient'
  BY <1>12 DEF QueuedSend, NoStuckTransient
<1>13. ASSUME NEW m \in 0..MaxExec, NEW st \in {"idle", "busy"},
              KernelStatus(m, st)
       PROVE NoStuckTransient'
  BY <1>13 DEF KernelStatus, NoStuckTransient
<1>14. CASE KernelInfoReply
  BY <1>14 DEF KernelInfoReply, NoStuckTransient
<1>15. CASE UNCHANGED vars
  BY <1>15 DEF vars, NoStuckTransient
<1>16. QED
  BY <1>1, <1>2, <1>3, <1>4, <1>5, <1>6, <1>7, <1>8, <1>9, <1>10, <1>11,
     <1>12, <1>13, <1>14, <1>15 DEF Next

(* StartingKernel always holds a launch task that has not resolved, and    *)
(* Restarting and ShuttingDown always have their continuation pending:     *)
(* none of them can be entered without something that will leave it.      *)
THEOREM NoStuckTransientHolds == Spec => []NoStuckTransient
<1>1. Init => NoStuckTransient
  BY DEF Init, NoStuckTransient
<1>2. QED
  BY <1>1, InitIInv, NextIInv, NoStuckStep, PTL DEF Spec

-----------------------------------------------------------------------------
(* After a failed launch no block waits for a kernel                       *)

LEMMA ErroredStep ==
  IInv /\ ErroredBlocksSettled /\ [Next]_vars => ErroredBlocksSettled'
<1> SUFFICES ASSUME IInv, ErroredBlocksSettled, [Next]_vars
             PROVE  ErroredBlocksSettled'
  OBVIOUS
<1> USE DEF IInv, TypeOK, KernelStates, kernelVars, taskVars
<1>1. ASSUME NEW r \in Ranges, Execute(r) PROVE ErroredBlocksSettled'
  BY <1>1 DEF Execute, ErroredBlocksSettled, ProjectStatus
<1>2. ASSUME NEW p \in Points, Edit(p) PROVE ErroredBlocksSettled'
  BY <1>2 DEF Edit, Without, ErroredBlocksSettled
<1>3. ASSUME NEW m \in Msgs, CloseBlock(m) PROVE ErroredBlocksSettled'
  BY <1>3 DEF CloseBlock, Without, ErroredBlocksSettled
<1>4. CASE Clear
  BY <1>4 DEF Clear, ClearOutputs, Without, ErroredBlocksSettled
<1>5. CASE Interrupt
  BY <1>5 DEF Interrupt, ErroredBlocksSettled
<1>6. CASE Shutdown
  BY <1>6 DEF Shutdown, ErroredBlocksSettled
<1>7. CASE Restart
  BY <1>7 DEF Restart, StartKernel, ErroredBlocksSettled
<1>8. ASSUME NEW c \in conts, ShutdownDone(c) PROVE ErroredBlocksSettled'
  BY <1>8 DEF ShutdownDone, ErroredBlocksSettled
<1>9. ASSUME NEW c \in conts, RestartDone(c) PROVE ErroredBlocksSettled'
  BY <1>9 DEF RestartDone, StartKernel, ErroredBlocksSettled
<1>10. ASSUME NEW t \in Launches, LaunchSucceeds(t)
       PROVE ErroredBlocksSettled'
  BY <1>10 DEF LaunchSucceeds, ErroredBlocksSettled
<1>11. ASSUME NEW t \in Launches, LaunchFails(t) PROVE ErroredBlocksSettled'
  BY <1>11 DEF LaunchFails, ErroredBlocksSettled
<1>12. ASSUME NEW q \in queued, QueuedSend(q) PROVE ErroredBlocksSettled'
  BY <1>12 DEF QueuedSend, ErroredBlocksSettled
<1>13. ASSUME NEW m \in 0..MaxExec, NEW st \in {"idle", "busy"},
              KernelStatus(m, st)
       PROVE ErroredBlocksSettled'
  BY <1>13 DEF KernelStatus, ErroredBlocksSettled
<1>14. CASE KernelInfoReply
  BY <1>14 DEF KernelInfoReply, ErroredBlocksSettled
<1>15. CASE UNCHANGED vars
  BY <1>15 DEF vars, ErroredBlocksSettled
<1>16. QED
  BY <1>1, <1>2, <1>3, <1>4, <1>5, <1>6, <1>7, <1>8, <1>9, <1>10, <1>11,
     <1>12, <1>13, <1>14, <1>15 DEF Next

(* While the kernel is ErroredLaunch no block shows Queued, Connecting or  *)
(* Executing: kernel_errored settles the blocks that exist, execute()      *)
(* projects KernelErrored, and no kernel is running to report progress.    *)
THEOREM ErroredBlocksSettledHolds == Spec => []ErroredBlocksSettled
<1>1. Init => ErroredBlocksSettled
  BY DEF Init, ErroredBlocksSettled
<1>2. QED
  BY <1>1, InitIInv, NextIInv, ErroredStep, PTL DEF Spec

=============================================================================
