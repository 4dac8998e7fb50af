------------------------------- MODULE Session -------------------------------
(***************************************************************************)
(* The REPL session of crates/repl/src/session.rs: the kernel lifecycle    *)
(* (the Kernel enum held in Session.kernel), the execution blocks keyed by *)
(* the msg_id of their execute_request (Session.blocks), the output        *)
(* regions the session registered with the editor, and the asynchronous    *)
(* tasks the session spawns: the shared kernel-launch task of              *)
(* start_kernel, the continuations execute() chains onto it while the      *)
(* kernel is starting, and the grace-period continuations of shutdown()    *)
(* and restart().                                                          *)
(*                                                                         *)
(* Data is abstracted: code is a non-empty request (empty code is a        *)
(* no-op), a code range is an interval of document points, a kernel        *)
(* process is named by the launch that produced it, and a request on the   *)
(* kernel's channel is a record of its kind, its msg_id and its process.   *)
(***************************************************************************)
EXTENDS Naturals, FiniteSets

CONSTANTS
  MaxLaunches, \* bound on start_kernel calls, i.e. on launch tasks
  MaxExec,     \* bound on execute() calls, i.e. on execute_request msg_ids
  Points       \* document points a code range starts and ends at

ASSUME LaunchesAssumption == MaxLaunches \in Nat \ {0}
ASSUME ExecAssumption == MaxExec \in Nat
ASSUME PointsAssumption == Points \subseteq Nat /\ Points # {}

(* The variants of the Kernel enum (crates/repl/src/kernels).              *)
KernelStates == {"Starting", "Running", "Errored",
                 "ShuttingDown", "Shutdown", "Restarting"}

(* The variants of ExecutionStatus an ExecutionView can show.              *)
Statuses == {"Queued", "Connecting", "Executing", "Finished",
             "KernelErrored", "Restarting", "ShuttingDown", "Shutdown"}

Launches == 1..MaxLaunches
Msgs == 1..MaxExec
Ranges == {r \in Points \X Points : r[1] <= r[2]}
Requests == [kind : {"execute", "interrupt", "shutdown", "restart"},
             msg : 0..MaxExec, proc : Launches]

VARIABLES
  kernel,     \* the variant of Session.kernel
  kid,        \* the launch held by StartingKernel / RunningKernel, else 0
  execState,  \* execution_state of the running kernel
  kernelInfo, \* whether the running kernel has recorded its kernel_info
  launches,   \* number of launch tasks start_kernel has spawned
  resolved,   \* launch tasks that have run to completion
  queued,     \* execute() continuations awaiting a shared launch task
  conts,      \* pending grace-period continuations of shutdown/restart
  blocks,     \* Session.blocks: msg_id -> [range, status]
  regions,    \* custom blocks of this session inserted in the editor
  nextMsg,    \* msg_ids handed out so far
  chan        \* requests sent on a kernel's request_tx

kernelVars == <<kernel, kid, execState, kernelInfo>>
taskVars == <<launches, resolved, queued, conts>>
vars == <<kernel, kid, execState, kernelInfo, launches, resolved, queued,
          conts, blocks, regions, nextMsg, chan>>

-----------------------------------------------------------------------------
(* Helpers                                                                 *)

(* The status a new block shows, a projection of Session.kernel.          *)
ProjectStatus(k) ==
  CASE k = "Restarting"   -> "Restarting"
    [] k = "Running"      -> "Queued"
    [] k = "Starting"     -> "Connecting"
    [] k = "Errored"      -> "KernelErrored"
    [] k = "ShuttingDown" -> "ShuttingDown"
    [] k = "Shutdown"     -> "Shutdown"

(* Mutant of Overlaps: ranges that only touch at an end do not overlap.   *)
OverlapsExclusive(r, s) == r[1] < s[2] /\ s[1] < r[2]

(* AnchorRangeExt::overlaps: the two ranges share at least one point.      *)
Overlaps(r, s) == r[1] <= s[2] /\ s[1] <= r[2]

(* Session.blocks with the blocks D removed (HashMap::retain / clear).     *)
Without(D) == [x \in DOMAIN blocks \ D |-> blocks[x]]

(* Session::send: the request goes out only while a kernel is running.     *)
Send(kind, m) ==
  IF kernel = "Running"
  THEN chan \cup {[kind |-> kind, msg |-> m, proc |-> kid]}
  ELSE chan

(* A launch task runs while something holds its Shared handle: the         *)
(* StartingKernel variant or a continuation queued by execute(). When the  *)
(* last handle is dropped the task is dropped, which cancels it.           *)
Alive(t) ==
  \/ kernel = "Starting" /\ kid = t
  \/ \E q \in queued : q.task = t

RestartConts == {c \in conts : c.kind = "restart"}
ShutdownConts == {c \in conts : c.kind = "shutdown"}

(* Modelling bound: each restart spends one launch, whether now or in its  *)
(* grace-period continuation.                                              *)
RestartBudget == launches + Cardinality(RestartConts) < MaxLaunches

(* EditorBlock::new: the block over r, its ExecutionView showing status.   *)
NewBlock(r, status) == [range |-> r, status |-> status]

(* Session::kernel: replace the whole Kernel value (telemetry and the      *)
(* SessionEvent::Shutdown notification are not modelled).                 *)
SetKernel(k, id) == kernel' = k /\ kid' = id

(* start_kernel: spawn a fresh shared launch task, enter StartingKernel.   *)
StartKernel ==
  /\ launches' = launches + 1
  /\ SetKernel("Starting", launches + 1)

(* clear_outputs: remove every block and its editor region.               *)
ClearOutputs ==
  /\ blocks' = Without(DOMAIN blocks)
  /\ regions' = {}

-----------------------------------------------------------------------------
(* Initial state: Session::new has run start_kernel once.                  *)

Init ==
  /\ kernel = "Starting"
  /\ kid = 1
  /\ execState = "idle"
  /\ kernelInfo = FALSE
  /\ launches = 1
  /\ resolved = {}
  /\ queued = {}
  /\ conts = {}
  /\ blocks = [x \in {} |-> [range |-> <<0, 0>>, status |-> "Queued"]]
  /\ regions = {}
  /\ nextMsg = 0
  /\ chan = {}

-----------------------------------------------------------------------------
(* Actions                                                                 *)

(* Session::execute with non-empty code over the range r: evict every     *)
(* block overlapping r, insert a block whose status projects the kernel    *)
(* state, then send the request (Running), chain it on the launch task     *)
(* (Starting), or drop it (any other state).                               *)
Execute(r) ==
  /\ nextMsg < MaxExec
  /\ LET m       == nextMsg + 1
         evicted == {x \in DOMAIN blocks : Overlaps(r, blocks[x].range)}
         kept    == DOMAIN blocks \ evicted
     IN  /\ blocks' = [x \in kept \cup {m} |->
                         IF x = m
                         THEN NewBlock(r, ProjectStatus(kernel))
                         ELSE blocks[x]]
         /\ regions' = (regions \ evicted) \cup {m}
         /\ nextMsg' = m
         /\ chan' = Send("execute", m)
         /\ queued' = IF kernel = "Starting"
                      THEN queued \cup {[task |-> kid, msg |-> m]}
                      ELSE queued
  /\ UNCHANGED <<kernelVars, launches, resolved, conts>>

(* An edit deletes the line break at point p; on_buffer_event then drops   *)
(* every block whose invalidation anchor sat there, with its region.       *)
Edit(p) ==
  LET stale == {x \in DOMAIN blocks : blocks[x].range[2] = p}
  IN  /\ blocks' = Without(stale)
      /\ regions' = regions \ stale
      /\ UNCHANGED <<kernelVars, taskVars, nextMsg, chan>>

(* The close button of the region of block m (the on_close closure).       *)
CloseBlock(m) ==
  /\ m \in regions
  /\ blocks' = Without({m})
  /\ regions' = regions \ {m}
  /\ UNCHANGED <<kernelVars, taskVars, nextMsg, chan>>

(* Session::clear_outputs on the user's request.                           *)
Clear ==
  /\ ClearOutputs
  /\ UNCHANGED <<kernelVars, taskVars, nextMsg, chan>>

(* Session::interrupt: only a running kernel is sent an interrupt.         *)
Interrupt ==
  /\ kernel = "Running"
  /\ chan' = Send("interrupt", 0)
  /\ UNCHANGED <<kernelVars, taskVars, blocks, regions, nextMsg>>

(* Mutant of Shutdown: no grace-period continuation is spawned.           *)
ShutdownNoGrace ==
  /\ SetKernel(IF kernel = "Running" THEN "ShuttingDown" ELSE "Shutdown", 0)
  /\ UNCHANGED <<execState, kernelInfo, taskVars, blocks, regions,
                 nextMsg, chan>>

(* Session::shutdown. A running kernel gets a grace-period continuation;   *)
(* from any other state the session is Shutdown at once, dropping the      *)
(* StartingKernel handle if there was one.                                 *)
Shutdown ==
  /\ IF kernel = "Running"
     THEN /\ SetKernel("ShuttingDown", 0)
          /\ conts' = conts \cup {[kind |-> "shutdown", proc |-> kid]}
     ELSE /\ SetKernel("Shutdown", 0)
          /\ conts' = conts
  /\ UNCHANGED <<execState, kernelInfo, launches, resolved, queued,
                 blocks, regions, nextMsg, chan>>

(* Mutant of Restart: the guard against a restart while Restarting is     *)
(* dropped.                                                                *)
RestartNoGuard ==
  /\ RestartBudget
  /\ IF kernel = "Running"
     THEN /\ SetKernel("Restarting", 0)
          /\ conts' = conts \cup {[kind |-> "restart", proc |-> kid]}
          /\ UNCHANGED <<launches, blocks, regions>>
     ELSE /\ ClearOutputs
          /\ StartKernel
          /\ conts' = conts
  /\ UNCHANGED <<execState, kernelInfo, resolved, queued, nextMsg, chan>>

(* Session::restart. Restarting: nothing. Running: a grace-period          *)
(* continuation. Any other state: clear outputs and start a kernel now.    *)
Restart ==
  /\ kernel # "Restarting"
  /\ RestartBudget
  /\ IF kernel = "Running"
     THEN /\ SetKernel("Restarting", 0)
          /\ conts' = conts \cup {[kind |-> "restart", proc |-> kid]}
          /\ UNCHANGED <<launches, blocks, regions>>
     ELSE /\ ClearOutputs
          /\ StartKernel
          /\ conts' = conts
  /\ UNCHANGED <<execState, kernelInfo, resolved, queued, nextMsg, chan>>

(* The continuation spawned by shutdown: send shutdown_request to the old  *)
(* kernel, await the forced kill and the 3 s timer, then clear outputs and *)
(* set Shutdown, whatever the session's kernel has become meanwhile.       *)
ShutdownDone(c) ==
  /\ c \in conts
  /\ c.kind = "shutdown"
  /\ conts' = conts \ {c}
  /\ chan' = chan \cup {[kind |-> "shutdown", msg |-> 0, proc |-> c.proc]}
  /\ ClearOutputs
  /\ SetKernel("Shutdown", 0)
  /\ UNCHANGED <<execState, kernelInfo, launches, resolved, queued, nextMsg>>

(* Mutant of RestartDone: outputs are cleared, no kernel is started.      *)
RestartDoneNoStart(c) ==
  /\ c \in conts
  /\ c.kind = "restart"
  /\ conts' = conts \ {c}
  /\ chan' = chan \cup {[kind |-> "restart", msg |-> 0, proc |-> c.proc]}
  /\ ClearOutputs
  /\ UNCHANGED <<kernelVars, launches, resolved, queued, nextMsg>>

(* The continuation spawned by restart: send shutdown_request{restart} to  *)
(* the old kernel, wait 1 s and the forced kill, then clear outputs and    *)
(* start a new kernel, whatever the session's kernel has become meanwhile. *)
RestartDone(c) ==
  /\ c \in conts
  /\ c.kind = "restart"
  /\ conts' = conts \ {c}
  /\ chan' = chan \cup {[kind |-> "restart", msg |-> 0, proc |-> c.proc]}
  /\ ClearOutputs
  /\ StartKernel
  /\ UNCHANGED <<execState, kernelInfo, resolved, queued, nextMsg>>

(* The launch task t of start_kernel resolves with a kernel: the session   *)
(* installs RunningKernel, whatever its kernel is at that moment.          *)
LaunchSucceeds(t) ==
  /\ t \in 1..launches \ resolved
  /\ Alive(t)
  /\ resolved' = resolved \cup {t}
  /\ SetKernel("Running", t)
  /\ execState' = "idle"
  /\ kernelInfo' = FALSE
  /\ UNCHANGED <<launches, queued, conts, blocks, regions, nextMsg, chan>>

(* Mutant of LaunchFails: the blocks keep the status they had.            *)
LaunchFailsKeepBlocks(t) ==
  /\ t \in 1..launches \ resolved
  /\ Alive(t)
  /\ resolved' = resolved \cup {t}
  /\ SetKernel("Errored", 0)
  /\ UNCHANGED <<execState, kernelInfo, launches, queued, conts, blocks,
                 regions, nextMsg, chan>>

(* The launch task t fails: kernel_errored sets ErroredLaunch and marks    *)
(* every block that has not finished as KernelErrored.                     *)
LaunchFails(t) ==
  /\ t \in 1..launches \ resolved
  /\ Alive(t)
  /\ resolved' = resolved \cup {t}
  /\ SetKernel("Errored", 0)
  /\ blocks' = [x \in DOMAIN blocks |->
                  IF blocks[x].status = "Finished" THEN blocks[x]
                  ELSE [blocks[x] EXCEPT !.status = "KernelErrored"]]
  /\ UNCHANGED <<execState, kernelInfo, launches, queued, conts, regions,
                 nextMsg, chan>>

(* A continuation queued by execute() wakes after its launch task has      *)
(* resolved and calls send: the request reaches whichever kernel is        *)
(* running now, or is dropped.                                             *)
QueuedSend(q) ==
  /\ q \in queued
  /\ q.task \in resolved
  /\ queued' = queued \ {q}
  /\ chan' = Send("execute", q.msg)
  /\ UNCHANGED <<kernelVars, launches, resolved, conts, blocks, regions,
                 nextMsg>>

(* Mutant of KernelStatus: the Status is applied to every block, as the    *)
(* UpdateDisplayData branch of route does, instead of to its parent's.     *)
KernelStatusAnyBlock(m, st) ==
  /\ kernel = "Running"
  /\ m = 0 \/ [kind |-> "execute", msg |-> m, proc |-> kid] \in chan
  /\ execState' = st
  /\ blocks' = [x \in DOMAIN blocks |->
                  [blocks[x] EXCEPT !.status =
                     IF st = "busy" THEN "Executing" ELSE "Finished"]]
  /\ UNCHANGED <<kernel, kid, kernelInfo, taskVars, regions, nextMsg, chan>>

(* Session::route of a Status message from the running kernel whose parent *)
(* is request m (0: a request that is not an execution): the kernel's      *)
(* execution_state changes, then the block of m, if any, shows Executing   *)
(* (busy) or Finished (idle).                                              *)
KernelStatus(m, st) ==
  /\ kernel = "Running"
  /\ m = 0 \/ [kind |-> "execute", msg |-> m, proc |-> kid] \in chan
  /\ execState' = st
  /\ blocks' = IF m \in DOMAIN blocks
               THEN [blocks EXCEPT ![m].status =
                       IF st = "busy" THEN "Executing" ELSE "Finished"]
               ELSE blocks
  /\ UNCHANGED <<kernel, kid, kernelInfo, taskVars, regions, nextMsg, chan>>

(* Session::route of a KernelInfoReply: the running kernel records it.     *)
KernelInfoReply ==
  /\ kernel = "Running"
  /\ ~kernelInfo
  /\ kernelInfo' = TRUE
  /\ UNCHANGED <<kernel, kid, execState, taskVars, blocks, regions,
                 nextMsg, chan>>

Next ==
  \/ \E r \in Ranges : Execute(r)
  \/ \E p \in Points : Edit(p)
  \/ \E m \in Msgs : CloseBlock(m)
  \/ Clear
  \/ Interrupt
  \/ Shutdown
  \/ Restart
  \/ \E c \in conts : ShutdownDone(c) \/ RestartDone(c)
  \/ \E t \in Launches : LaunchSucceeds(t) \/ LaunchFails(t)
  \/ \E q \in queued : QueuedSend(q)
  \/ \E m \in 0..MaxExec, st \in {"idle", "busy"} : KernelStatus(m, st)
  \/ KernelInfoReply

(* The launch tasks and the continuations run on gpui's executors, which   *)
(* run every spawned task that is not dropped; the user's commands and the *)
(* kernel's replies are not forced.                                        *)
Fairness ==
  /\ \A t \in Launches : WF_vars(LaunchSucceeds(t) \/ LaunchFails(t))
  /\ WF_vars(\E c \in conts : ShutdownDone(c) \/ RestartDone(c))
  /\ WF_vars(\E q \in queued : QueuedSend(q))

Spec == Init /\ [][Next]_vars
FairSpec == Spec /\ Fairness

-----------------------------------------------------------------------------
(* Properties                                                              *)

BlockRecords == [range : Ranges, status : Statuses]

(* The buffer points a code range covers, both ends included.              *)
Rows(r) == r[1]..r[2]

TypeOK ==
  /\ kernel \in KernelStates
  /\ kid \in 0..MaxLaunches
  /\ execState \in {"idle", "busy"}
  /\ kernelInfo \in BOOLEAN
  /\ launches \in Launches
  /\ resolved \subseteq 1..launches
  /\ queued \subseteq [task : Launches, msg : Msgs]
  /\ conts \subseteq [kind : {"shutdown", "restart"}, proc : Launches]
  /\ DOMAIN blocks \subseteq Msgs
  /\ \A x \in DOMAIN blocks : blocks[x] \in BlockRecords
  /\ regions \subseteq Msgs
  /\ nextMsg \in 0..MaxExec
  /\ chan \subseteq Requests

(* No transient kernel state is a dead end: StartingKernel holds a launch  *)
(* task that is still running, Restarting and ShuttingDown each have a     *)
(* grace-period continuation of their kind still pending (restart() is a   *)
(* no-op while Restarting, so nothing else would ever leave it).           *)
NoStuckTransient ==
  /\ kernel = "Starting" => kid \in 1..launches \ resolved
  /\ kernel = "Restarting" => \E c \in conts : c.kind = "restart"
  /\ kernel = "ShuttingDown" => \E c \in conts : c.kind = "shutdown"

(* After a failed launch no output block still claims to be waiting for or *)
(* running on a kernel: kernel_errored marked every unfinished block, and  *)
(* blocks created since take their status from ErroredLaunch.              *)
ErroredBlocksSettled ==
  kernel = "Errored" =>
    \A x \in DOMAIN blocks :
      blocks[x].status \notin {"Queued", "Connecting", "Executing"}

(* Execute evicts every block whose code range overlaps the new one,       *)
(* touching ranges included, and edits only remove blocks: no two output   *)
(* blocks ever cover a common point of the buffer.                         *)
NoOverlappingBlocks ==
  \A x, y \in DOMAIN blocks :
    x # y => Rows(blocks[x].range) \cap Rows(blocks[y].range) = {}

(* route applies a Status only to the block of its parent msg_id and drops *)
(* the rest: a block shows Executing or Finished only once its own         *)
(* execute_request has reached a kernel, even across evictions, clears,   *)
(* closed blocks and replaced kernels.                                     *)
BlocksAnswerTheirRequest ==
  \A x \in DOMAIN blocks :
    blocks[x].status \in {"Executing", "Finished"} =>
      \E p \in Launches : [kind |-> "execute", msg |-> x, proc |-> p] \in chan

(* Every transient kernel state (starting, restarting, shutting down) is   *)
(* eventually left for a settled one: running, errored or shut down.       *)
KernelSettles ==
  \A s \in {"Starting", "Restarting", "ShuttingDown"} :
    kernel = s ~> kernel \in {"Running", "Errored", "Shutdown"}

(* A session the user has shut down does not come back to a running        *)
(* kernel by itself: spec §4.1 says Shutdown is terminal until restart.    *)
ShutdownStaysShut ==
  [][kernel = "Shutdown" => kernel' # "Running"]_vars

(* Only one restart sequence is in flight at a time: spec §8, "restart()   *)
(* called twice ... only one restart sequence runs (idempotent guard)".    *)
SingleRestartSequence ==
  Cardinality(RestartConts) <= 1

(* The launch tasks that can still complete: not yet resolved, and held    *)
(* by StartingKernel or by a continuation execute() queued on them.        *)
LiveLaunches == {t \in 1..launches \ resolved : Alive(t)}

(* The refinement mapping onto KernelLifecycle: the variant is kept, and   *)
(* the launches and grace-period continuations are counted.               *)
Lifecycle == INSTANCE KernelLifecycle
               WITH state <- kernel,
                    pending <- Cardinality(LiveLaunches),
                    shut <- Cardinality(ShutdownConts),
                    rest <- Cardinality(RestartConts)

(* The session implements the abstract lifecycle: every step of the code   *)
(* is a shutdown or restart request, a timer, a launch completion, or      *)
(* leaves the kernel state and the outstanding tasks as they were.         *)
LifecycleSpec == Lifecycle!Spec

(* Every output block still waiting on a kernel (queued, connecting or     *)
(* executing) will still hear from one: its request is queued on a launch  *)
(* task that has not been dropped, or the running kernel received it, or   *)
(* a restart or shutdown continuation is pending, which will clear it.  A  *)
(* block outside these cases shows its waiting status forever.             *)
WaitingBlocksAwaited ==
  \A x \in DOMAIN blocks :
    blocks[x].status \in {"Queued", "Connecting", "Executing"} =>
      \/ \E q \in queued : q.msg = x
      \/ kernel = "Running" /\ [kind |-> "execute", msg |-> x, proc |-> kid] \in chan
      \/ conts # {}

=============================================================================
