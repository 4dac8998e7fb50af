# TLA+ models of the REPL session, the editor context menu and the test assertion context

This directory holds TLA+ specifications of three parts of the Zed sources in
`src/zed-0.166.1`:

- the REPL session (`crates/repl/src/session.rs`), with an abstract kernel
  lifecycle that it refines;
- the editor's right-click menu (`crates/editor/src/mouse_context_menu.rs`);
- the assertion context manager of the editor tests
  (`crates/editor/src/test/editor_test_context.rs`).

It also holds the TLC configurations that model-check them and the TLAPS
proofs of their safety invariants.

## The system

### REPL session (`session.rs`)

A `Session` belongs to one editor. It has two kinds of state: a kernel and a
set of execution blocks.

**The kernel** (`Session.kernel`) is one of these variants:

- `StartingKernel(Shared<Task>)`
- `RunningKernel`
- `ErroredLaunch`
- `ShuttingDown`
- `Shutdown`
- `Restarting`

**The execution blocks** (`Session.blocks`) are keyed by the `msg_id` of the
`execute_request` that created them. Each block has:

- a code range in the buffer;
- an output view with an execution status.

**How they interact.** All mutation happens on gpui's foreground thread, and
the asynchronous parts rejoin the session through `this.update(...)`. Those
parts are:

- **The launch.** `start_kernel` spawns the kernel launch as a *shared* task.
  Its completion installs `RunningKernel` or calls `kernel_errored`.
- **Queued executes.** `execute` while the kernel is starting queues a
  continuation on a clone of that shared task. The continuation sends the
  request to whatever kernel is running when it runs.
- **Grace-period continuations.** `shutdown` and `restart` on a running kernel
  spawn continuations. After a grace period (3s and 1s), they set `Shutdown`,
  or clear the outputs and start a new kernel.
- **Routing.** `route` applies the kernel's `Status` messages to the block
  whose `msg_id` they answer, and records a `KernelInfoReply`.
- **Buffer edits.** `on_buffer_event` removes the blocks whose invalidation
  anchor an edit touched.

### Mouse context menu (`mouse_context_menu.rs`)

`deploy_context_menu` works in these steps:

1. It focuses the editor.
2. It returns early in either of these cases:
   - the editor is inline;
   - there is no project and no custom menu.
3. It builds the menu:
   - with a custom builder, which may yield nothing;
   - otherwise as the default menu, first moving the cursor to the click if
     the click is outside every selection.
4. It stores the menu in `editor.mouse_context_menu`:
   - directly, when there is no position;
   - through `pinned_to_editor` when there is one, which can fail and leave
     the slot empty.

`MouseContextMenu::new` focuses the menu and subscribes to its
`DismissEvent`. The subscription takes the editor's menu and, if focus is
inside the menu, gives focus back to the editor. The subscription is owned by
the `MouseContextMenu`, so replacing the slot drops it.

### Assertion context (`editor_test_context.rs`)

`AssertionContextManager` is cloned into every `ContextHandle`. Through
`Arc`s, the clones share an atomic id counter and a `RwLock<BTreeMap>` from
id to context string. Any thread holding a clone may use them:

- `add_context` takes an id with `fetch_add` and only then takes the write
  lock to insert the context;
- dropping a handle removes its id under the write lock;
- `context()` prints the map's values under the read lock.

## Modules

| Module | Models | Kind |
|---|---|---|
| `Session` | `session.rs`: kernel lifecycle, blocks, tasks, routing | component |
| `MC_Session` | small constants for TLC | MC |
| `SessionProofs` | TLAPS proofs about `Session` | proofs |
| `KernelLifecycle` | what `session.rs` promises about `Session.kernel` | abstract spec |
| `LifecycleProofs` | TLAPS proof that `Session` refines `KernelLifecycle` | proofs |
| `BlockProofs` | TLAPS proofs about the output blocks of `Session` | proofs |
| `MouseMenu` | `mouse_context_menu.rs` | component |
| `MC_MouseMenu` | small constants for TLC | MC |
| `MouseMenuProofs` | TLAPS proofs about `MouseMenu` | proofs |
| `AssertionContext` | `AssertionContextManager` in `editor_test_context.rs` | component |
| `MC_AssertionContext` | three threads for TLC | MC |
| `ContextProofs` | TLAPS proof about `AssertionContext` | proofs |

### Session: how its state matches the code

- **`kernel`** is the `Kernel` variant.
- **`kid`** is the launch whose task `StartingKernel` holds, or the launch that
  produced the `RunningKernel`. A kernel process is named by its launch
  (`Launches == 1..MaxLaunches`).
- **`launches`** counts `start_kernel` calls.
- **`resolved`** holds the launches whose task has completed.
- **`queued`** holds the pending execute continuations. Each records its
  request and the launch task it holds a clone of.
- **`conts`** holds the pending shutdown and restart continuations.
- **`blocks`** maps `msg_id` to `[range, status]`. A range is an interval over
  the points in `Points`.
- **`regions`** holds the code ranges registered with the editor.
- **`nextMsg`** is the next `msg_id`.
- **`chan`** holds the requests sent on the kernel channels. Each is a
  `[kind, msg, proc]` record.
- **`execState`** and **`kernelInfo`** are the `RunningKernel` fields that
  `route` writes.

### Session: how its actions match the code

Each action is one whole handler:

- **`Execute`** is `execute`. It evicts overlapping blocks, creates the block
  with the status projected from the kernel (`ProjectStatus`), and then either
  sends the request or queues it on the launch task.
- **`Edit`** is `on_buffer_event`.
- **`CloseBlock`** is the block's `on_close`.
- **`Clear`** is `clear_outputs`.
- **`Interrupt`** is `interrupt`.
- **`Shutdown`** and **`ShutdownDone`** are `shutdown` and its continuation.
- **`Restart`** and **`RestartDone`** are `restart` and its continuation.
- **`LaunchSucceeds`** and **`LaunchFails`** are the launch completion, the
  latter followed by `kernel_errored`.
- **`QueuedSend`** is the queued execute continuation.
- **`KernelStatus`** and **`KernelInfoReply`** are `route`.

A launch task can complete only while it is *alive*, i.e. while the session
or a queued continuation still holds a clone of the shared task (`Alive`).
Dropping the last clone cancels a gpui task.

Edits are taken atomically with their invalidation, because gpui delivers the
buffer event in the same effect flush.

### KernelLifecycle: the abstract kernel lifecycle

`KernelLifecycle` keeps only what `session.rs` promises about the kernel:

- **`state`** is the `Kernel` variant.
- **`pending`** counts the launch tasks that can still complete: not
  resolved, and held by `StartingKernel` or by a queued execute.
- **`shut`** and **`rest`** count the pending shutdown and restart
  continuations.

Its actions are `ShutdownReq` and `RestartReq` (the user's commands),
`ShutdownTimer` and `RestartTimer` (a continuation firing) and `LaunchDone` (a
launch completing). `Leave` says that leaving `StartingKernel` drops the
session's handle on the launch, which cancels it unless a queued execute
holds it too.

The timers and completions do not look at the state they find, because the
code does not. This is deliberately wider than the machine of spec §4.1, in
which a launch completes only from `Starting` and a timer fires only from
`ShuttingDown` or `Restarting`. The findings below are the places where that
difference shows.

`Session` maps onto it through `Session!Lifecycle`:

- `state` is `kernel`;
- `pending` is `Cardinality(LiveLaunches)`;
- `shut` and `rest` are the sizes of `ShutdownConts` and `RestartConts`.

The run `session_lifecycle` checks `LifecycleSpec == Lifecycle!Spec` as a
property, and `LifecycleProofs` proves it.

### MouseMenu

Its state is:

- **`menu`** is the slot: 0 for None, else a menu id.
- **`focus`** is the focused element: the editor, another pane, or a menu
  view.
- **`subs`** holds the menus whose `DismissEvent` subscription is alive.
- **`nextMenu`** is the id of the next menu view.
- **`custom`**, **`full`** and **`project`** are the editor facts the early
  returns test.
- **`sel`** holds the points covered by the selections. A cursor is an empty
  range, and `Range::contains` of an empty range is false.

Its actions are:

- **`Deploy`** is `deploy_context_menu`, with `PlaceMenu`, `InstallMenu` and
  `NoMenu` for its tail.
- **`Dismiss`** is the subscription's callback.
- **`MoveFocus`** is the user focusing another pane or the editor. The menu
  stays open, because its blur subscription is replaced by an empty one.

### AssertionContext

- **`next`** is the atomic counter.
- **`contexts`** is the map. A context string is abstracted to the thread
  that added it.
- **`adding`** and **`got`** record that a thread is between `fetch_add` and
  its insert, and the id it was given.
- **`held`** holds the ids of each thread's live handles.

`Fetch` and `Insert` are the two steps of `add_context`, and `Drop` is
`ContextHandle::drop`. `context()` changes nothing and is not an action. The
property is about what it prints.

## Runs

| Run | cfg | Checks | Result |
|---|---|---|---|
| `session_safety` | `MC_Session_safety.cfg` | `NoStuckTransient`, `ErroredBlocksSettled`, `NoOverlappingBlocks`, `BlocksAnswerTheirRequest` | pass, ~1.07M states |
| `session_liveness` | `MC_Session_liveness.cfg` | `KernelSettles` under `FairSpec` | pass |
| `session_lifecycle` | `MC_Session_lifecycle.cfg` | `LifecycleSpec` (refinement) | pass, ~1.07M states |
| `waiting_blocks` | `MC_Session_waiting.cfg` | `WaitingBlocksAwaited` | violation (finding) |
| `shutdown_stays_shut` | `MC_Session_shutdown.cfg` | `ShutdownStaysShut` | violation (finding) |
| `single_restart` | `MC_Session_restart.cfg` | `SingleRestartSequence` | violation (finding) |
| `mouse_menu` | `MC_MouseMenu.cfg` | `OnlyCurrentMenuListens`, `FocusNotOnDroppedMenu` | pass |
| `assertion_context` | `MC_AssertionContext.cfg` | `HandlesBacked` | pass, 466 states |

**`HandlesBacked`** says that the map holds exactly the contexts of the live
handles, each under its own id. It fails as soon as two `add_context` calls
can get the same id (mutant `FetchNoAdvance`). The run does not check
deadlock: once its `MaxIds` adds are spent and every handle is dropped, the
test is over. Symmetry over the three thread model values is sound because
no definition names a thread.

### Session properties

- **`NoStuckTransient`**: a kernel that is `Starting` holds an unresolved
  launch. A kernel that is `Restarting` or `ShuttingDown` has a pending
  continuation of that kind. Nothing is left that would never end the
  transient state.
- **`ErroredBlocksSettled`**: while the launch has failed, no block is still
  waiting (Queued, Connecting or Executing).
- **`NoOverlappingBlocks`**: no buffer point lies in the code ranges of two
  output blocks. It is stated over the points each range covers (`Rows`),
  not with the `Overlaps` test that `execute` evicts with
  (`session.rs:391`). So it also catches an eviction test that is wrong at
  touching ends (mutant `OverlapsExclusive`).
- **`BlocksAnswerTheirRequest`**: a block shows `Executing` or `Finished` only
  after its own `execute_request` went out to a kernel. `route` looks the block
  up by the parent `msg_id` and drops the message when there is none
  (`session.rs:520`).
- **`KernelSettles`** (liveness): every transient state is eventually left.
- **`LifecycleSpec`** (refinement): every step is a lifecycle step or a
  stutter, under the mapping above.
- **`WaitingBlocksAwaited`**: a block that is Queued, Connecting or Executing
  has its request on its way. That is, one of these holds:
  - a queued continuation carries the request;
  - the request went to the kernel that is running now;
  - a pending continuation will clear the outputs.

### Findings

- **`ShutdownStaysShut`** fails, in three steps:
  1. Execute while the kernel is starting (this queues a continuation).
  2. Shut down.
  3. The launch completes.

  The queued continuation keeps the shared launch task alive, and the
  completion installs `RunningKernel` unconditionally (`session.rs:273`).
- **`SingleRestartSequence`** fails because a stale launch completion
  overwrites `Restarting`. A second `restart()` is then accepted while the
  first restart's continuation is still pending (`session.rs:592`). Spec §8
  says only one restart sequence runs.

- **`WaitingBlocksAwaited`** fails, in five steps:
  1. Execute while launch 1 is starting (this queues a continuation on it).
  2. Restart, which starts launch 2.
  3. Launch 2 completes, so kernel 2 runs.
  4. Execute, which sends its request to kernel 2.
  5. Launch 1 completes. The queued continuation kept it alive, and its
     completion replaces kernel 2.

  The second block stays Queued: kernel 1 never received its request, and no
  continuation will clear it. All three findings have one root: the launch
  completion at `session.rs:273` does not check that the session is still
  waiting on that launch. A model of the guarded completion
  (`kernel = "Starting" /\ kid = t`) is not part of the project yet; it is in
  the plan below.

### Reached but not judged

Both grace-period continuations apply their result whatever the session's
state is by then:
- the shutdown timer sets `Shutdown` (`session.rs:574`);
- the restart timer calls `start_kernel` (`session.rs:616`).

The model reaches both cases:
- `Shutdown`, then `Restart`, then `ShutdownDone` leaves the user's restart
  undone.
- `Restart`, then `Shutdown`, then `RestartDone` takes a shut-down session
  back to `Starting`.

The spec describes both timers as unconditional (§4.1). It calls `Shutdown`
terminal only until a restart, and here a restart was requested. Neither
text says which of two overlapping commands should win, so no run checks
these paths. `NoStuckTransient` and `KernelSettles` check only that the
states these continuations leave are never dead ends.

### Bounds

**Session.** `MaxLaunches = 3`, `MaxExec = 2`, `Points = {1, 2}`. This
instance allows:

- two overlapping or disjoint blocks;
- a queued execute racing a shutdown or restart;
- one restart that starts a second launch while the first is still alive.

`SingleRestartSequence` needs four launches (`MaxLaunches = 4`) before the
second restart can be issued. The liveness run uses `MaxExec = 1`,
`Points = {1}`: blocks do not affect whether the kernel settles.

`RestartBudget` guards `Restart` so that launches and pending restart
continuations never exceed `MaxLaunches`. It bounds the model without
disabling any code path below the bound.

**AssertionContext.** Three threads and `MaxIds = 4` let two adds interleave
between `fetch_add` and insert while a third thread drops a handle. The
counter is a `usize`, and no run comes near 2^64 adds, so wrapping is not
modelled.

**MouseMenu.** `MaxMenus = 3` is enough for a menu to be replaced twice and
for a replaced menu to be dismissed late.

## Fairness

`FairSpec` assumes weak fairness only for the following:

- each launch completion;
- the grace-period continuations;
- the queued sends.

gpui's executors run every spawned task that has not been dropped, so a task
that stays enabled eventually runs. User commands and kernel messages are not
fair: the user may never act again and the kernel may never answer.

## Proofs (TLAPS)

`SessionProofs` proves these theorems for all values of the constants. The
constants must satisfy the module's `ASSUME`s: `MaxLaunches ≥ 1`,
`MaxExec ∈ Nat` and `Points` a non-empty set of naturals.

- `TypeCorrect`: `Spec => []TypeOK`. No run checks `TypeOK`: its only
  mutants would loosen the model's bounds, which have no counterpart in the
  code. The proof is needed as the base of the other proofs.
- `NoStuckTransientHolds`: `Spec => []NoStuckTransient`.
- `ErroredBlocksSettledHolds`: `Spec => []ErroredBlocksSettled`.

`BlockProofs` proves, from the same `IInv`:

- `NoOverlappingBlocksHolds`: `Spec => []NoOverlappingBlocks`. The property is
  inductive with `IInv`. Its only non-trivial step is `Execute`. There the
  lemma `DisjointRows` shows that two ranges `Overlaps` does not relate share
  no point, so the eviction test is strong enough.
- `BlocksAnswerTheirRequestHolds`: `Spec => []BlocksAnswerTheirRequest`. The
  channel only grows. Only `KernelStatus` makes a block progress, and it needs
  the request in the channel.
`LifecycleProofs` proves `Refinement`: `Spec => LifecycleSpec`. It rests on
`RInv == IInv /\ NoStuckTransient /\ ContsOK`:

- **`ContsOK`** says that every pending continuation targets a launch that has
  completed, and that the running kernel is not one of them. Without it, the
  continuation `shutdown` or `restart` adds could already be in the set, and
  the count would not grow.
- **`NoStuckTransient`** gives that a `Starting` kernel holds a live launch.

The lemmas `LiveOnLeave`, `LiveOnStart` and `LiveOnDone` bound how a step
changes the number of live launches: at most one more is dropped, namely the
one `StartingKernel` held. The continuation lemmas give the counts of
`shut` and `rest`. `RefineStep` takes each action of `Session` to a disjunct
of `KernelLifecycle`'s next-state relation or to a stutter, and
`InitRefines` maps the initial state.

`TypeOK` is not inductive on its own. The inductive invariant is
`IInv == TypeOK /\ KidOK /\ BudgetOK`:

- **`KidOK`** says that `kid` is a launch already started.
- **`BudgetOK`** says that the continuation set is finite and that
  `launches + |restart continuations| ≤ MaxLaunches`. Without it, `StartKernel`
  in `RestartDone` could leave `Launches`.

Lemmas about adding and removing a continuation give the cardinality
arithmetic. Each of the other two properties is preserved by every step of a
state satisfying `IInv` (lemmas `NoStuckStep` and `ErroredStep`).

`MouseMenuProofs` proves `MenuTypeCorrect`, `OnlyCurrentMenuListensHolds` and
`FocusNotOnDroppedMenuHolds`. The conjunction of the three invariants is
inductive. A `Dismiss` needs `OnlyCurrentMenuListens` to know that the
dismissed menu is the current one.

`ContextProofs` proves `HandlesBackedHolds`: `Spec => []HandlesBacked`, for
any set of threads and any `MaxIds`. The inductive invariant adds two things:

- **`Below`**: every id in use is below the counter.
- **`Fresh`**: an id fetched by an `add_context` in progress is not in the
  map, not held, and not fetched by another thread.

`Below` makes `fetch_add`'s id fresh, and `Fresh` makes the insert and the
drop touch only their own handle's entry.

**What is proved and what stays with TLC.** TLAPS proves every invariant,
action property and refinement that a passing run checks, for all values of
the constants. TLC also checks them on the small instances. Two things stay
with TLC:

- `KernelSettles`: liveness under fairness, and `ENABLED`, are beyond the
  provers used here.
- The three violations: their counterexample traces are the result, and
  there is nothing to prove.

## Not modelled

- **Output messages and `UpdateDisplayData`:** `route` passes them to
  `ExecutionView`. They do not change session state and are planned as a
  separate module.
- **`render` functions:** they draw state and change none.
- **`application_menu.rs` and `app_menus.rs`:** static menu definitions.
- **The rest of `editor_test_context.rs`:** setup and assertion helpers that
  drive an editor through gpui and compare strings. They hold no state of
  their own.
- **The kernel transport (`crates/repl/src/kernels`) and `ExecutionView`:**
  they are not in `src/`.
- **Lossy sends:** `try_send(..).ok()` is modelled as reliable. The channel
  and its capacity are in `crates/repl/src/kernels`, which is not under `src/`.
  A lost request would break `WaitingBlocksAwaited`, which already fails for
  the stale-launch reason.

## Plan for later work

1. Decide, with the code's owners, which of two overlapping shutdown and
   restart commands should win. Then state it as a property over the
   continuations above.
2. Add a module for the routing of output messages.
3. Add a model with the completion guarded (`kid = t`) as the fix, and
   refine the §4.1 machine with it.
