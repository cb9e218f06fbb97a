# Verification of hara-native

TLA+ models of the stateful core of the hara-native runtime, model-checked with TLC, and proofs
about them checked with TLAPS. Paths below are relative to the repository; `rust/` stands for
`core/rust/src/`.

## The system and its parts

hara-native hosts the Hara language. It holds a Rust runtime (interpreter, bytecode VM "HBC",
tracing JIT, whole-program Wasm), a second runtime on the JVM, browser packages around the Wasm
build, and remote file providers. Most of it is sequential code over unbounded data (values, forms,
bytecode, archives). What a model checker can reach is the smaller part that keeps state between
calls of several clients, threads or processes:

| Part | Code | Modules |
|---|---|---|
| Instrumentation hub | `rust/instrumentation/hub.rs`, `hub/delivery.rs`, `model.rs` | `InstrumentationHub`, `InstrumentationHubProofs` |
| Promises | `rust/task/promise.rs` | `Promise`, implementing `PromiseContract` |
| Work host, runs and scopes | `rust/work.rs`, `work/scope.rs`, `work/types.rs` | `WorkHost` |
| Work event streams | `rust/work.rs`, `rust/core/async_value.rs` | `WorkEvents`, implementing `EventStream` |
| Live sessions | `rust/runtime/session_live.rs`, `rust/live_session/` | `LiveSession`, `LiveSessionProofs` |
| Sandboxes | `rust/runtime/sandbox.rs` | `Sandbox`, implementing `SandboxContract` |
| Session kernel and mounts | `rust/runtime/session.rs`, `sandbox.rs` | `SessionKernel`, composed with `Sandbox`; `SessionKernelProofs`, `KernelMountProofs` |
| Package installation | `rust/package/install.rs` | `PackageInstall`, `PackageInstallProofs` |
| Native processes | `rust/native_process.rs` | `NativeProcess`, `NativeProcessProofs` |

Modules named `MC...` give the constants of a run their values and its symmetry. `PROJECT.json` maps
every definition to the lines it models, and lists the parts left out with the reason for each.

The modelled parts interact as follows. The evaluator of a session runs on one thread. A body of
work returns a promise; the work host settles the run when that promise settles, and the run's
result is a promise again. Callbacks on promises are trampolined: settling one while another
callback runs only queues the callback. A live session drives an execution through an instrument
and a target it registers in the hub of its Runtime, holding a control lease and leaving directives
for the next safepoint. The session kernel owns sessions, filesystem mounts and sandboxes; each
sandbox evaluates on a worker thread of its own and uses a mount that the kernel counts. Native
processes and installers share nothing with the rest but the operating system.

## How state and actions correspond to the code

**InstrumentationHub.** One variable per field of the hub: registries and id indexes, generations,
attachments, the cached event mask, leases, directives, queues and sequences. Each public method is
one action (`register`, `attach`, `acquire_control`, `emit`, `drain_events`, `detach`,
`remove_target`, `detach_session`, `clear`, ...), because the hub is borrowed for the whole call.
Handles are pairs of an id and a generation. Two ghosts record the handles that were returned and
the events each target emitted.

**Promise, WorkHost, WorkEvents.** These run on one thread; the difficulty is re-entrancy. Settling,
polling, cancelling and closing call user code, which may call anything again before it returns. The
call stack is therefore a variable: a frame is the work that a call in progress has still to do, a
step runs the innermost frame up to its next call, and `UserCall` makes any public call from any
point where user code runs. The queue of trampolined callbacks is a variable too, drained by a frame
of its own. A value is reduced to the kind of its settlement. Time is a counter advanced by `Tick`.
A hook of a promise is a host operation or another promise it reads or waits for (`adopt`'s own
hooks, and those of wrappers such as promise-all). The setters of hooks are calls like any other, on
settled promises too: the ghost `late` marks the promises they were used on that late. A host
operation may end (`HostDone`) or run for ever.
`WorkHost` takes from `Promise` only what it needs: that callbacks are queued and run once.

**LiveSession.** The registry of a Session, and for each live session its controller, the
execution it drives and its slot in the hub. Commands are actions; what the guest program does at a
boundary is a choice among the outcomes the evaluator has (return, fail, yield, wait for a promise,
go on). Interpreter, HBC and whole-Wasm backends are distinguished where their code differs. A
client's fence (generation and revision it saw) is kept so that a request may arrive late. Each run
of a whole-Wasm module counts in its sequence and emits a terminal event of its own.

**Sandbox, SessionKernel.** A sandbox is its `WorkerState` behind a mutex (`shared`), the
cancellation flags, the command channel, the worker thread and the reply channels. A step is what a
thread does under one lock, or one channel operation. `Sandbox` writes the kernel's half of the
interface as operators; `SessionKernel` calls them from its own actions and cuts a call wherever it
takes a lock again or joins a worker, so that the worker may step in between. A status is read
under three locks and modelled in three steps. A worker that
evaluates is inside a form ("run") or between two, where it polls its interrupt closure ("poll"):
`NextForm` and `Poll` move it on, `Interrupted` ends it there by cancellation or deadline, and
`RunControlled` is a guest that ends by itself. How an evaluation ends is a choice. The code tells a
cancellation from another error by the text of the error, so a guest error with the same text counts
as cancelled even if nobody asked: `RunControlled` allows it. A form that waits (a deref with a
timeout, say) does not poll while it waits.

**PackageInstall.** The three final names (archive, root, registration), the temporary files of each
process, and the step each process is at. A step is one visible file operation. Temporary names
carry the process id, so a process that is restarted may meet its own leftovers; the code deals with
them and so does the model. `Crash` stops an installer anywhere, `Error` fails the operations
that the code cleans up after, and an archive may change while it is copied. Whether the identity of
a manifest is a coordinate (`Placed`) is looked at only after the root is published: the archive and
the root of one that is not stay, unregistered.

**NativeProcess.** Evaluator, two reader threads, child, and a descendant that inherits the pipes
and may outlive the child. The promises of a process are cooperative, so that `deref` never calls
their waiters but polls them in a loop: `Deref` starts one, `Poll` and `StreamPoll` are its rounds,
`DerefReturns` ends it. Calls are cut where they block (`join`, `write_all`). The child is inside a
read or a write until the pipe lets it go on. Output is numbered chunks, so losing, repeating or
reordering one shows. A read error ends a reader like the end of the pipe does, and a reader may
panic; `ReadFails` models both and remembers them. A panic of the stdout reader loses the output of
stderr as well, because `finish` returns before it joins the second reader.

## Contracts and refinement

Three abstract modules say what a client may rely on, without the mechanism:

- `PromiseContract`: a promise settles once; a callback runs at most once, with that settlement, and
  those that were there first run in the order of registration. `Promise` implements it (safety), mapping
  only its states, subscriptions and calls made.
- `EventStream`: pulls are answered one at a time with every event after the starting point, in
  order, then nil. `WorkEvents` implements it, fairness included: cursors, the trampoline and the
  list of waiting cursors disappear in the mapping.
- `SandboxContract`: one evaluation at a time; one outcome and one answer each, in order; a granted
  cancellation was asked for in time; nothing is accepted after a bad outcome. `SessionKernel`
  implements it, and its fairness too as long as no guest stays in one form for ever
  (`GuestsReturn`); an answer counts as given once it is sent or its channel is
  dropped.

## Runs

State counts are distinct states. Times are with two workers.

| Run | Instance | What it shows |
|---|---|---|
| `hub` | 2 instruments of 2 sessions, 1 target, 2 generations, 3 events (68k, symmetric) | Index, attachments, mask, leases and queues are consistent; dead handles stay dead; a full queue gives up its oldest events only; detaching a session leaves the others alone |
| `promise_safety` | 3 promises, 2 callbacks, 4 calls (811k, symmetric, 1.2 min) | The contract; callbacks exactly once; nothing is left on a settled promise but what a setter put there later; adopters follow |
| `promise_liveness` | 2 promises, 1 callback, 3 calls (240k, 1.7 min) | Calls return, callbacks run and cancellation reaches the source, unless a host operation never ends or hooks form a cycle |
| `work_scopes` | 3 runs, 6 calls (1.2M, symmetric) | A scope closes last and finalizers run once; nothing that can close stays open; cancellation flows down |
| `work_deadlines` | 2 runs, 4 calls, 1 clock step (2.5M, symmetric, 1.7 min) | A cancelled run never starts its body; status, cancellation and result agree, also when the result promise was cancelled first |
| `work_closing` | 2 runs, 5 calls (530k) | The queue names live runs only; event logs tell the history; a cancelled run closes |
| `work_events` | 2 streams, 4 events, 7 calls (209k) | The contract with its liveness; a waiting pull is always registered where the next event finds it |
| `live_sessions` | 1 session, 3 replacements, 2 queued boundaries, 2 runs of a Wasm module (29k) | Controller, hub, status and execution agree; fences name one execution; terminal events are neither early nor repeated; cancellation is final; what a failed replacement leaves does not prevent a later one from installing |
| `session_kernel` | 2 sessions, 2 mounts, 1 sandbox, 2 evaluations (233k, 1.7 min) | Attachment counts are exact; a status never lies about what is final; the contract, and its liveness while guests return; closing then ends the worker |
| `package_install` | 2 processes, 3 archives (one invalid, one without a coordinate), 2 faults (136k) | Nothing partial is visible; an installation that is retried succeeds |
| `native_process` | 2 chunks per output, pipes of 1 chunk (954k, 1.7 min) | A poll never blocks; reported output is complete and in order; a write or a deref returns unless the child or a descendant prevents it |

`work_cancel_panic` ends in a counterexample: cancelling a run from a callback on its own cancelled
result finds the cancellation cell borrowed and panics, where `work/tests.rs:201` expects a second
cancel to return false.

Each property also has a mutant in `PROJECT.json`: a change a bug could make in a mapped definition,
under which the run finds the property violated. Type invariants (`TypeOK`) are part of the
inductive invariants of the proofs and are not checked by runs.

### Further counterexamples

Five configurations that are no runs reproduce behaviour worth knowing; `tlc -config X.cfg M` shows
each in seconds.

- `PromiseAdoptionCycle.cfg` (`MCPromise`, `AdoptionAcyclic`): `adopt` looks for a cycle and then
  reads the state of the other promise, which may run a task that closes one (`promise.rs:421`).
- `WorkDrain.cfg` (`MCWorkHost`, `DrainEmptiesQueue`): an entry whose deadline has passed ends a
  drain although later entries could run (`work.rs:240`).
- `LiveReplacement.cfg` (`MCLiveSession`, `FailedReplacementKeepsGeneration`): the instrumented
  backends give up the running target before the new source has loaded, where `LIVE_SESSION.md`
  says that a failed replacement leaves the generation unchanged.
- `LiveCancel.cfg` (`MCLiveSession`, `CancelIsAnnounced`): a cancelled interpreter execution with
  boundaries queued never emits its terminal event, because `dispatch` refuses the commands that
  would publish the boundaries, where `HNW0_HTA_BOUNDARY.md:132` has the owner emit one. (Cancelling
  a whole-Wasm session emits none either.)
- `PackageRegistration.cfg` (`MCPackageInstall`, `RegistrationIsKept`): the conflict test of
  `write_atomic` (`install.rs:334`) and its rename (`install.rs:355`) are two steps, so of two
  processes with different archives of one version the second may replace the registration of the
  first, and both report success.

Some results are weaker than one might expect, and are stated as they are.

- A sandbox status may combine `running` with an active evaluation and the error that evaluation has
  just ended with (`StatusIsCoherent`).
- `close_sandbox` joins the worker, and the worker polls its interrupt only between forms
  (`fiber.rs:601`). A guest that stays in one form holds the kernel for as long (`ClosingEnds`).
- After a restart that failed to load, a mere Snapshot finds no target and marks the session
  Disposed, and it refuses every later replacement (`ReplacementRecovers`).
- A `deref` of a process promise never returns while the child runs, while the child reads an input
  left open, or while a descendant holds the pipes (`BlockingCallsReturn`).
- `adopt` looks for a cycle along adopted sources only. The hooks of wrappers (promise-all, the next
  element of a stream) may close one that it does not see, and reading such a promise never returns
  (`CallsReturn`).

### Bounds, and why they are enough

- `MaxGeneration`, `MaxOrder`, `MaxSequence` cap counters that are 64 bits wide in the code. Two
  generations let an old handle meet its successor; three events overflow a queue. With one target
  the run does not cover two targets in one queue; the proofs cover any number of targets.
- `MaxCalls` bounds what user code calls. A hazard of re-entrancy takes an outer call, a call from
  its callback and one more to observe the damage; four to seven calls add the ones that set it up.
- `MaxDepth` bounds the calls in progress, like the thread's stack. `adopt` of a source that leads
  back, or of a hook that does, is the only way to get that deep, and the liveness properties of
  `Promise` except it (`looped`).
- `Ops` selects which calls a promise or work run explores, so that each instance is exhaustive for the
  question it asks. The combinations no run makes (deadlines together with children, for one) are
  not covered.
- `LiveSession` has one identity: sessions share nothing but the owner. `MaxRuns` = 2 lets a
  whole-Wasm module be run again. The proofs cover any number of identities, sources and boundaries.
- `MaxEvaluations` = 2 lets a late cancellation meet the next evaluation; `MaxMounts` = 2 lets a
  session move from one mount to another. Sandboxes share only mounts, and the second claim on a
  mount comes from a session. The proofs cover any number of sessions, sandboxes and mounts.
- `MaxFaults` = 2 lets both installers fail, or one fail in its retry. The proof covers any number.
- `MaxOutput` = 2 with `Capacity` = 1 makes the child block on a full pipe. The proofs cover any
  `MaxOutput` and `Capacity`.
- `Symmetry` permutes ids and callbacks, and is used only in runs without liveness properties.
- `CHECK_DEADLOCK FALSE` is set throughout: with the bounds used up, with every id closed, with
  everything installed or once the owner is gone, these systems really stop.

### Fairness

No call by user code is assumed to happen.

- `Promise`, `WorkHost`, `WorkEvents`: `WF(Step)`, the evaluator goes on executing the innermost
  call. There is one thread and no call blocks except on a host operation, so this assumes that user
  callbacks return. `Promise` also assumes `WF(Tick)`: the clock advances. That a host operation ends
  is not assumed; the liveness properties have the premise `HostWaitsEnd`, that no call waits for one
  for ever.
- `SessionKernel`: weak fairness of the kernel's call in progress and of every worker outside guest
  code, that is of the scheduler. Nothing is assumed of a guest: neither that it ends nor that it
  comes to the end of a form. `SF(Interrupted)`: an evaluation that polls again and again after its
  deadline is interrupted, because the deadline stays behind it. (Strong, because between two polls
  the worker is inside a form.) `ClosingEnds` and the contract's liveness have the premise
  `GuestsReturn`, that no worker is inside one form for ever.
- `NativeProcess`: weak fairness of the call in progress, of each reader, and of the operating system
  completing a read or a write of the child that the pipe allows. Nothing is assumed of what the
  child or its descendant does; the cases are listed in `BlockingCallsReturn`.
- `PackageInstall`: weak fairness of each step, and of `Retry`. The code does not retry;
  `InstallationSucceeds` is about a user who tries again until it works, and shows that nothing left
  behind prevents that.

## What is proved

Each theorem holds for all values of the constants that satisfy the named assumption of the module
(`HubConstants`, `LiveSessionAssumption` and `NoTargetAssumption`, `SandboxConstants` and
`KernelConstants`, `InstallConstants`, `ProcessConstants`), which TLC evaluates in the run. They say
what kind of thing a constant is and that names do not coincide; bounds are any numbers.

Every module follows one plan: an inductive invariant, one lemma per action or group of actions
that a step keeps it, and theorems that draw the properties of the runs from it.

**`InstrumentationHubProofs`**, for all sets of ids, sessions and registrations and all bounds:
`RegistryIsConsistent`, `AttachmentsAreSound`, `MaskIsExact`, `ControlIsSound`, `QueuesAreSound`
(the invariants that `hub` checks), `StaleHandles` and `SessionsAreIsolated` (its action
properties). None of the first four is inductive alone. `HubInv` is their conjunction with the types
of the registry: an attachment is sound only if a removed handle is not the one just registered
(registry), the mask is exact only if attachments name live instruments, and a lease is sound only
if attachments are. `detach`, `remove_target` and `detach_session` share `RemoveHubInv`, about
removing any set of handles. `StaleHandles` needs one more fact, `IssuedBelow`: a handle once
returned has a generation below the next one of its id. The queues need `DeliveryInv`: a target's
sequence counts its history, and no queue has capacity 0; removing a target purges the queues, and
what the purge leaves is an induction over the queue.

**`LiveSessionProofs`**, for any identities, sources and bounds: `ControllersOwnTargets`,
`StatusesAgree`, `FencesIdentifyExecutions`, `TerminalEventsAreExact`, `CancellationIsFinal` and
`ReplacementsRecover`, which are all the properties of `live_sessions`. `LiveInv` holds per session:
what a status says of the target, who owns what in the hub, and which revisions a fence can name.
`run` repeats rounds until the target stops; what it leaves is an induction over the rounds.

**`SessionKernelProofs`**, for any sessions, sandboxes and evaluations: `StatusStaysCoherent`, and
`KernelRefinesContract`, that `SessionKernel` implements the safety part of `SandboxContract`.
`KernelInv` says where the evaluation in progress is (in the channel, with the worker, or answered),
what is outstanding on the reply channels, and which parts of a status that is half read still hold.
**`KernelMountProofs`**: `MountsStayBalanced`. On top of `KernelInv` it needs that both indexes of
attachments agree with what they index, and counts the users of a mount with the library's theorems
on cardinality.

**`PackageInstallProofs`**: `WhatIsPublishedIsWhole`, the invariant `PublishedIsWhole` for any
installers, archives and faults. It is not inductive: a rename is safe because of what its process
established several steps before. `Knows(p)` states that per step: what is about to be renamed is
whole, past the manifest the archive is valid, past the root that root is whole, past
the coordinate the archive has a release. What is known of the root survives the steps of others
because no root is ever removed.

**`NativeProcessProofs`**: `PollsNeverBlock` and `OutputStaysComplete`, for any pipe capacity and
amount of output. `ProcessInv` adds to the two properties where every chunk is: `Counted` says that
the chunks read, in the pipe, received and in the channel are consecutive and add up to what was
written, and three lemmas show that writing, reading and receiving keep it. `Ends` says what a
reader, a stream and the record know once they are done, unless a read failed or a reader panicked.
`Joins` says that a reader is joined at most once, by the call that recorded the exit, which makes `PollNeverBlocks` inductive.

Only model-checked:

- all of `Promise`, `WorkHost` and `WorkEvents`, the refinements of `PromiseContract` and
  `EventStream` included;
- all liveness, since fairness and ENABLED are outside what the prover handles: `CallsReturn`,
  `CallbacksAreRun`, `CancelReachesSource`, `CancelledRunsClose`, `ClosingEnds`,
  `InstallationSucceeds`, `BlockingCallsReturn`, and the fairness of `SandboxContract` and
  `EventStream`.

## What is not modelled

- Projections, locations, previews and wording of errors and events: they are copied, never tested.
- The end of 64-bit counters. Generations, orders and sequences use `saturating_add`, so at 2^64 - 1
  a handle would be issued twice; the models stop at their bounds before that.
- Sandbox providers other than the in-process one, the cleanup after a provider that returns a
  wrong id (the in-process provider's id is a constant, so it is never reached), and a panic of a
  worker outside an evaluation.
- The kernel's catalogs of resources and bundles, its broker queue, and evaluation inside a session.
- Two threads of one process installing at once: they would share temporary names, but every caller
  is a command that installs one archive after another.
- Parsing of manifests and archives; an archive is valid or not.
- Promises that are dropped (an adopted source is held weakly), and panics of callbacks.
- The owner stopping a session's guest from the host side while a live session drives it; an
  instrument that a Snapshot after a failed restart leaves registered until it is dropped.
- Calls that callbacks make while a `deref` of a process promise polls.
- The evaluation of work plans (chain, all, each, fold, graph, ensure) and fibers.
- The evaluator, the compiler, the VM, the JIT and the codecs: their states are programs and data.
- The JVM runtime and the browser host, which have implementations of their own.
- The older live-session adapters (`live_session/interpreter.rs`, `bytecode.rs`).

## Plan

1. Proofs: `SubscribersVisible` and `HooksReleased` of `Promise`; the scopes of `WorkHost`
   (`ScopeClosesLast` needs that ids are not reused, which `reset` does); `NoMissedWakeup` of
   `WorkEvents` and the safety half of its refinement of `EventStream`.
2. `WorkPlan`: chain, all, each, fold, graph and ensure over `WorkHost`; `Fiber` resumption.
3. The tap store, and the counters and trace cache of the JIT.
