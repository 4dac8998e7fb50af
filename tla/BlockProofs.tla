----------------------------- MODULE BlockProofs -----------------------------
(***************************************************************************)
(* Proofs about the output blocks of the Session specification: execute() *)
(* keeps their code ranges disjoint, and route() changes a block's status *)
(* only in answer to its own request.  Both hold for every value of the    *)
(* constants.                                                              *)
(***************************************************************************)
EXTENDS SessionProofs

USE LaunchesAssumption, ExecAssumption, PointsAssumption
USE DEF SetKernel, NewBlock

-----------------------------------------------------------------------------
(* Disjoint code ranges                                                    *)

(* Ranges that Overlaps does not relate cover no common point: the        *)
(* eviction test of execute() is strong enough for the point-wise property. *)
LEMMA DisjointRows ==
  ASSUME NEW r \in Ranges, NEW s \in Ranges, ~Overlaps(r, s)
  PROVE  Rows(r) \cap Rows(s) = {}
<1>1. r[1] \in Nat /\ r[2] \in Nat /\ s[1] \in Nat /\ s[2] \in Nat
  BY PointsAssumption DEF Ranges
<1>2. SUFFICES ASSUME NEW p \in Rows(r) \cap Rows(s) PROVE FALSE
  OBVIOUS
<1>3. p \in Int /\ r[1] <= p /\ p <= r[2] /\ s[1] <= p /\ p <= s[2]
  BY <1>1, <1>2 DEF Rows
<1>4. Overlaps(r, s)
  BY <1>1, <1>3 DEF Overlaps
<1>5. QED
  BY <1>4

(* A step that keeps a subset of the blocks with their ranges, and adds    *)
(* none, keeps them disjoint.                                              *)
LEMMA KeepDisjoint ==
  ASSUME NoOverlappingBlocks,
         DOMAIN blocks' \subseteq DOMAIN blocks,
         \A x \in DOMAIN blocks' : blocks'[x].range = blocks[x].range
  PROVE  NoOverlappingBlocks'
BY DEF NoOverlappingBlocks

(* Every step from a state of IInv keeps the blocks disjoint.             *)
LEMMA DisjointStep ==
  IInv /\ NoOverlappingBlocks /\ [Next]_vars => NoOverlappingBlocks'
<1> SUFFICES ASSUME IInv, NoOverlappingBlocks, [Next]_vars
             PROVE  NoOverlappingBlocks'
  OBVIOUS
<1> USE DEF IInv, TypeOK, kernelVars, taskVars
<1>1. ASSUME NEW r \in Ranges, Execute(r) PROVE NoOverlappingBlocks'
  <2> DEFINE m == nextMsg + 1
             kept == {x \in DOMAIN blocks : ~Overlaps(r, blocks[x].range)}
  <2>1. /\ DOMAIN blocks' = kept \cup {m}
        /\ blocks'[m].range = r
        /\ \A x \in kept \ {m} : blocks'[x] = blocks[x]
    BY <1>1 DEF Execute
  <2>2. \A x \in kept : blocks[x].range \in Ranges
    BY DEF BlockRecords
  <2>3. \A x \in kept : Rows(r) \cap Rows(blocks[x].range) = {}
    BY <2>2, DisjointRows
  <2>4. SUFFICES ASSUME NEW x \in DOMAIN blocks', NEW y \in DOMAIN blocks',
                        x # y
                 PROVE  Rows(blocks'[x].range) \cap Rows(blocks'[y].range) = {}
    BY DEF NoOverlappingBlocks
  <2>5. CASE x = m
    <3>1. y \in kept \ {m}
      BY <2>1, <2>4, <2>5
    <3>2. QED
      BY <2>1, <2>3, <2>5, <3>1
  <2>6. CASE y = m
    <3>1. x \in kept \ {m}
      BY <2>1, <2>4, <2>6
    <3>2. Rows(r) \cap Rows(blocks[x].range) = {}
      BY <2>3, <3>1
    <3>3. QED
      BY <2>1, <2>6, <3>1, <3>2
  <2>7. CASE x # m /\ y # m
    BY <2>1, <2>4, <2>7 DEF NoOverlappingBlocks
  <2>8. QED
    BY <2>5, <2>6, <2>7
<1>2. ASSUME NEW p \in Points, Edit(p) PROVE NoOverlappingBlocks'
  BY <1>2, KeepDisjoint DEF Edit, Without
<1>3. ASSUME NEW m \in Msgs, CloseBlock(m) PROVE NoOverlappingBlocks'
  BY <1>3, KeepDisjoint DEF CloseBlock, Without
<1>4. CASE Clear
  BY <1>4, KeepDisjoint DEF Clear, ClearOutputs, Without
<1>5. ASSUME NEW c \in conts, ShutdownDone(c) \/ RestartDone(c)
      PROVE  NoOverlappingBlocks'
  BY <1>5, KeepDisjoint DEF ShutdownDone, RestartDone, ClearOutputs, Without
<1>6. CASE Restart
  BY <1>6, KeepDisjoint DEF Restart, ClearOutputs, Without
<1>7. ASSUME NEW t \in Launches, LaunchFails(t) PROVE NoOverlappingBlocks'
  BY <1>7, KeepDisjoint DEF LaunchFails, BlockRecords
<1>8. ASSUME NEW m \in 0..MaxExec, NEW st \in {"idle", "busy"},
             KernelStatus(m, st)
      PROVE NoOverlappingBlocks'
  BY <1>8, KeepDisjoint DEF KernelStatus, BlockRecords
<1>9. QED
  BY <1>1, <1>2, <1>3, <1>4, <1>5, <1>6, <1>7, <1>8
  DEF Next, vars, Interrupt, Shutdown, LaunchSucceeds, QueuedSend,
      KernelInfoReply, NoOverlappingBlocks

(* Execute evicts every block whose range overlaps the new one, and no    *)
(* other step adds a block or moves one: no two output blocks of the       *)
(* session ever cover a common point of the buffer.                        *)
THEOREM NoOverlappingBlocksHolds == Spec => []NoOverlappingBlocks
<1>1. Init => NoOverlappingBlocks
  BY DEF Init, NoOverlappingBlocks
<1>2. QED
  BY <1>1, InitIInv, NextIInv, DisjointStep, PTL DEF Spec

-----------------------------------------------------------------------------
(* Status changes answer their own request                                 *)

(* The states route() reports progress with.                               *)
Progressed == {"Executing", "Finished"}

(* A step that sends or keeps every request, adds no progressed block and *)
(* only lets a block be progressed if it was so already, keeps every       *)
(* progressed block answered.                                              *)
LEMMA KeepAnswered ==
  ASSUME BlocksAnswerTheirRequest, chan \subseteq chan',
         DOMAIN blocks' \subseteq DOMAIN blocks,
         \A x \in DOMAIN blocks' :
           blocks'[x].status \in Progressed => blocks[x].status \in Progressed
  PROVE  BlocksAnswerTheirRequest'
BY DEF BlocksAnswerTheirRequest, Progressed

(* Every step from a state of IInv keeps progressed blocks answered.      *)
LEMMA AnsweredStep ==
  IInv /\ BlocksAnswerTheirRequest /\ [Next]_vars => BlocksAnswerTheirRequest'
<1> SUFFICES ASSUME IInv, BlocksAnswerTheirRequest, [Next]_vars
             PROVE  BlocksAnswerTheirRequest'
  OBVIOUS
<1> USE DEF IInv, TypeOK, kernelVars, taskVars
<1>1. ASSUME NEW r \in Ranges, Execute(r) PROVE BlocksAnswerTheirRequest'
  <2> DEFINE m == nextMsg + 1
  <2>1. chan \subseteq chan'
    BY <1>1 DEF Execute, Send
  <2>2. ProjectStatus(kernel) \notin Progressed
    BY DEF ProjectStatus, KernelStates, Progressed
  <2>3. /\ DOMAIN blocks' \ {m} \subseteq DOMAIN blocks
        /\ \A x \in DOMAIN blocks' \ {m} : blocks'[x] = blocks[x]
        /\ blocks'[m].status \notin Progressed
    BY <1>1, <2>2 DEF Execute
  <2>4. QED
    BY <2>1, <2>3 DEF BlocksAnswerTheirRequest, Progressed
<1>2. ASSUME NEW p \in Points, Edit(p) PROVE BlocksAnswerTheirRequest'
  BY <1>2, KeepAnswered DEF Edit, Without
<1>3. ASSUME NEW m \in Msgs, CloseBlock(m) PROVE BlocksAnswerTheirRequest'
  BY <1>3, KeepAnswered DEF CloseBlock, Without
<1>4. CASE Clear
  BY <1>4, KeepAnswered DEF Clear, ClearOutputs, Without
<1>5. CASE Interrupt
  BY <1>5, KeepAnswered DEF Interrupt, Send
<1>6. ASSUME NEW c \in conts, ShutdownDone(c) \/ RestartDone(c)
      PROVE  BlocksAnswerTheirRequest'
  BY <1>6, KeepAnswered DEF ShutdownDone, RestartDone, ClearOutputs, Without
<1>7. CASE Restart
  BY <1>7, KeepAnswered DEF Restart, ClearOutputs, Without
<1>8. ASSUME NEW t \in Launches, LaunchFails(t) PROVE BlocksAnswerTheirRequest'
  BY <1>8, KeepAnswered DEF LaunchFails, Progressed
<1>9. ASSUME NEW q \in queued, QueuedSend(q) PROVE BlocksAnswerTheirRequest'
  BY <1>9, KeepAnswered DEF QueuedSend, Send
<1>10. ASSUME NEW m \in 0..MaxExec, NEW st \in {"idle", "busy"},
              KernelStatus(m, st)
       PROVE BlocksAnswerTheirRequest'
  <2>1. CASE m \in DOMAIN blocks
    <3>1. [kind |-> "execute", msg |-> m, proc |-> kid] \in chan
      BY <1>10, <2>1 DEF KernelStatus, Msgs
    <3>2. kid \in Launches
      BY <3>1 DEF Requests
    <3>3. QED
      BY <1>10, <3>1, <3>2 DEF KernelStatus, BlocksAnswerTheirRequest
  <2>2. CASE m \notin DOMAIN blocks
    BY <1>10, <2>2, KeepAnswered DEF KernelStatus
  <2>3. QED
    BY <2>1, <2>2
<1>11. QED
  BY <1>1, <1>2, <1>3, <1>4, <1>5, <1>6, <1>7, <1>8, <1>9, <1>10
  DEF Next, vars, Shutdown, LaunchSucceeds, KernelInfoReply,
      BlocksAnswerTheirRequest

(* route() finds a block by the parent msg_id of the Status message, and  *)
(* a kernel only answers requests it was sent: a block shows Executing or *)
(* Finished only once its own execute_request has gone out to a kernel.    *)
THEOREM BlocksAnswerTheirRequestHolds == Spec => []BlocksAnswerTheirRequest
<1>1. Init => BlocksAnswerTheirRequest
  BY DEF Init, BlocksAnswerTheirRequest
<1>2. QED
  BY <1>1, InitIInv, NextIInv, AnsweredStep, PTL DEF Spec

=============================================================================
