---------------------------- MODULE LiveSession ----------------------------
(***************************************************************************)
(* The live sessions a Session owns (runtime/session_live.rs) and the      *)
(* three backends it starts them on: the interpreter and HBC controllers   *)
(* (live_session/instrumented_*.rs), each of which drives one              *)
(* instrumentation target through a lease on the hub, and whole-Wasm       *)
(* (live_session/whole_wasm.rs).                                           *)
(*                                                                         *)
(* Of the hub, this module keeps what one controller uses: whether its     *)
(* instrument and its target are registered, whether it holds the lease,   *)
(* and the directive it has left for the target (the hub itself is module  *)
(* InstrumentationHub).  Of an execution it keeps its state, the pause     *)
(* flag, the semantic boundaries still queued, the promise it awaits and   *)
(* how many terminal events it has emitted; of a whole-Wasm module, how    *)
(* often it was run (its sequence) and the events of those runs.  What the *)
(* guest program does is a choice among the outcomes the evaluator has.    *)
(***************************************************************************)
EXTENDS Integers

CONSTANTS
    Ids,            \* live-session identities
    Sources,        \* source texts a client may send
    Valid,          \* those the reader and the compiler accept
    Revision,       \* the revision a client has labelled each source with
    NoSource,       \* no replacement is queued
    NoTarget,       \* the session holds no target
    MaxGeneration,  \* bound on restarts
    MaxQueued,      \* bound on queued semantic boundaries
    MaxBoundaries,  \* bound on a Run's boundary_limit
    MaxRuns         \* bound on the runs of one whole-Wasm module

ASSUME LiveSessionAssumption ==
    /\ Valid \subseteq Sources /\ DOMAIN Revision = Sources
    /\ NoSource \notin Sources
    /\ MaxGeneration \in Nat /\ MaxQueued \in Nat /\ MaxBoundaries \in Nat
    /\ MaxRuns \in Nat

VARIABLES
    owner,   \* state of the owning Session
    live,    \* SessionLiveRegistry.entries: the live session of each identity
    hub,     \* per backend and identity, the controller's part of the hub
    seen     \* the fence of a request a client has built from a state it saw

vars == <<owner, live, hub, seen>>

Kinds      == {"interpreter", "hbc", "wasm"}
Statuses   == {"Ready", "Running", "Paused", "Suspended", "Returned", "Failed",
               "Cancelled", "Disposed"}
Directives == {"Continue", "StepNext", "Suspend", "Terminate"}
Finished   == {"Returned", "Yielded", "Failed", "Cancelled"}

Targets == [state : {"Running", "Suspended"} \cup Finished, paused : BOOLEAN,
            queued : 0..MaxQueued, promise : {"None", "Pending", "Settled"},
            sequence : 0..MaxRuns, terminal : Nat]
Sessions == [kind : Kinds, source : Sources, pending : Sources \cup {NoSource},
             generation : 0..MaxGeneration, status : Statuses,
             target : Targets \cup {NoTarget}, execution : Nat]
Slots  == [instrument : BOOLEAN, target : BOOLEAN, lease : BOOLEAN,
           directive : Directives]
Fences == [session : Ids, generation : 0..MaxGeneration,
           revision : {Revision[src] : src \in Sources}, execution : Nat]

\* A session without a target is told apart from every target.
ASSUME NoTargetAssumption == NoTarget \notin Targets

EmptySlot == [instrument |-> FALSE, target |-> FALSE, lease |-> FALSE,
              directive |-> "Continue"]
NewTarget == [state |-> "Running", paused |-> FALSE, queued |-> 0,
              promise |-> "None", sequence |-> 0, terminal |-> 0]

Init ==
    /\ owner = "Active"
    /\ live = [s \in {} |-> NoTarget]
    /\ hub = [k \in Kinds \X Ids |-> EmptySlot]
    /\ seen = {}

-----------------------------------------------------------------------------
(* The execution behind a controller: InterpreterTarget and HbcTarget.      *)

\* InterpreterTarget::finished, HbcTarget::finished.
finished(k, t) == t.state \in Finished /\ (k = "interpreter" => t.queued = 0)

\* The execution is over (an HBC program may go on after a yield).
ended(t) == t.state \in Finished \ {"Yielded"}

\* Mutant of emit_terminal: does not wait for the queued boundaries.
emit_terminal_early(t) ==
    [t EXCEPT !.terminal = IF @ = 0 /\ ended(t) THEN 1 ELSE @]

\* InterpreterTarget::emit_terminal: once (terminal_emitted), and only after
\* the queued boundaries.  An HBC target reports a return or a failure, not a
\* yield.
emit_terminal(t) ==
    [t EXCEPT !.terminal = IF @ = 0 /\ ended(t) /\ t.queued = 0 THEN 1 ELSE @]

\* EvalFiber::accept_observed, then advance_pending: the continuation goes on,
\* ends or waits; of the boundaries it queued one is published at once.
advanced(t, st, q) ==
    [t EXCEPT !.state = st, !.queued = q,
              !.promise = IF st = "Suspended" THEN "Pending" ELSE "None"]

accept_observed(t) ==
    {advanced(t, st, q) : st \in {"Running", "Suspended", "Returned", "Failed"},
                          q \in {n \in 0..MaxQueued : n >= t.queued - 1}}

\* EvalFiber::step_observed.
step_observed(t) ==
    IF t.queued > 0 THEN {[t EXCEPT !.queued = @ - 1]}
    ELSE IF t.state = "Running" THEN accept_observed(t)
    ELSE {t}

\* Machine::step_instrumented_boundary with HbcTarget::apply_outcome.  At an
\* Await the machine looks at the promise again.
hbc_boundary(t) ==
    IF t.promise = "Pending" THEN {t}
    ELSE {[t EXCEPT !.state = st,
                    !.promise = IF st = "Suspended" THEN "Pending" ELSE "None"] :
            st \in IF t.promise = "Settled" THEN {"Running", "Failed"}
                   ELSE {"Running", "Suspended", "Yielded", "Returned", "Failed"}}

boundary(k, t) == IF k = "interpreter" THEN step_observed(t) ELSE hbc_boundary(t)

\* The part of InterpreterTarget::step and HbcTarget::step after the directive
\* d has been taken: the targets it can leave.
obey(k, t, d) ==
    CASE d = "Continue" /\ t.paused -> {t}
      [] d = "Suspend"   -> {[t EXCEPT !.paused = TRUE]}
      [] d = "Terminate" ->
            {emit_terminal([t EXCEPT !.paused = TRUE, !.promise = "None",
                                     !.state = IF @ \in Finished THEN @
                                               ELSE "Cancelled"])}
      [] OTHER -> {emit_terminal([u EXCEPT !.paused = (d = "StepNext")]) :
                        u \in boundary(k, t)}

\* The whole of step, run after request_directive(d): HbcTarget::step returns
\* before take_directive once it has finished, and leaves the directive.
takes_directive(k, t) == k = "interpreter" \/ ~finished(k, t)

step(k, t, d) == IF takes_directive(k, t) THEN obey(k, t, d) ELSE {t}

\* InterpreterTarget::run, HbcTarget::run: up to limit boundaries, stopping at
\* a pause, a suspension or the end.
halts(k, t, first) ==
    \/ t.paused
    \/ finished(k, t)
    \/ t.state = "Suspended" /\ (first => k = "hbc")

round(k, t, first) == IF halts(k, t, first) THEN {t} ELSE step(k, t, "Continue")

run(k, t, limit) ==
    LET after[n \in 0..limit] ==
            IF n = 0 THEN {t} ELSE UNION {round(k, u, n = 1) : u \in after[n - 1]}
    IN  after[limit]

\* InterpreterTarget::settle with resume_observed, HbcTarget::settle with
\* resume_instrumented_boundary: the settled promise goes to the continuation.
settle(k, t) ==
    {emit_terminal([u EXCEPT !.paused = FALSE]) :
        u \in IF k = "interpreter" THEN accept_observed(t)
              ELSE hbc_boundary([t EXCEPT !.promise = "Settled"])}

-----------------------------------------------------------------------------
(* The controllers.                                                         *)

\* sync_status of both controllers: what the client is told.
status_of(t) ==
    CASE t.state = "Running" -> IF t.paused THEN "Paused" ELSE "Running"
      [] t.state = "Yielded" -> "Returned"
      [] OTHER -> t.state

\* Mutant of sync_status: a paused session stays paused.
sync_status_sticky(l) ==
    IF l.status \in {"Cancelled", "Disposed", "Paused"} THEN l
    ELSE [l EXCEPT !.status = IF l.target = NoTarget THEN "Disposed"
                              ELSE status_of(l.target)]

sync_status(l) ==
    IF l.status \in {"Cancelled", "Disposed"} THEN l
    ELSE [l EXCEPT !.status = IF l.target = NoTarget THEN "Disposed"
                              ELSE status_of(l.target)]

\* snapshot_payload: the HBC controller leaves a session Ready until it has
\* been driven (its sequence is 0 exactly as long).
snapshot_payload(l) ==
    IF l.kind = "hbc" /\ l.status = "Ready" THEN l ELSE sync_status(l)

\* Mutant of install_target: every backend keeps the target of a failed load.
install_target_leaks(k, slot, loads) ==
    CASE slot.target -> slot
      [] ~slot.target /\ loads ->
            [slot EXCEPT !.target = TRUE, !.lease = (k # "wasm")]
      [] OTHER -> [slot EXCEPT !.target = TRUE]

\* install_target on a hub slot; loads is whether the source (or the artifact)
\* becomes a program.  On a compile error the interpreter and whole-Wasm
\* remove the target they have just registered; the HBC controller returns.
install_target(k, slot, loads) ==
    CASE slot.target -> slot
      [] ~slot.target /\ loads ->
            [slot EXCEPT !.target = TRUE, !.lease = (k # "wasm")]
      [] OTHER -> [slot EXCEPT !.target = (k = "hbc")]

installed(k, before, after) == after.target /\ ~before.target
                                /\ (k # "wasm" => after.lease)

\* Mutant of remove_target: leaves the directive behind.
remove_target_directed(l, slot) ==
    IF l.target = NoTarget THEN slot
    ELSE [slot EXCEPT !.target = FALSE, !.lease = FALSE]

\* remove_target: the lease and the registration go, with any directive left;
\* a session that holds no handle removes nothing.
remove_target(l, slot) ==
    IF l.target = NoTarget THEN slot
    ELSE [EmptySlot EXCEPT !.instrument = slot.instrument]

\* detach_instrument.
detach_instrument(l, slot) == [remove_target(l, slot) EXCEPT !.instrument = FALSE]

\* The session a backend's start returns.
NewSession(k, src) ==
    [kind |-> k, source |-> src, pending |-> NoSource, generation |-> 0,
     status |-> "Ready", target |-> NewTarget, execution |-> 0]

\* start_*_live_session and the backend's start: the identity is free, the
\* controller registers its instrument and installs a target.  An artifact is
\* a program that needs no compilation.  A failed start registers no session
\* and detaches the instrument.
start(s, k, src, artifact) ==
    LET before == hub[k, s]
        after  == install_target(k, before, src \in Valid \/ artifact)
    IN  /\ owner = "Active"
        /\ s \notin DOMAIN live
        /\ artifact => k # "interpreter"
        /\ IF installed(k, before, after)
           THEN /\ hub' = [hub EXCEPT ![<<k, s>>] =
                                [after EXCEPT !.instrument = (k # "wasm")]]
                /\ live' = [x \in DOMAIN live \cup {s} |->
                              IF x = s THEN NewSession(k, src) ELSE live[x]]
           ELSE hub' = [hub EXCEPT ![<<k, s>>] = after] /\ UNCHANGED live
        /\ UNCHANGED <<owner, seen>>

\* Mutant of validate: compares the revision but not the generation.
validate_revision(s, f) ==
    f.session = s /\ f.revision = Revision[live[s].source]

\* LiveSessionRequest::validate, for a request built from a state.
validate(s, f) ==
    /\ f.session = s
    /\ f.generation = live[s].generation
    /\ f.revision = Revision[live[s].source]

\* Mutant of dispatch: refuses commands to a disposed session only.
dispatch_cancelled(s, operation) ==
    /\ owner = "Active"
    /\ s \in DOMAIN live
    /\ operation = "Dispose" \/ live[s].status # "Disposed"

\* LiveSession::dispatch: a request for a state that is no longer current is
\* refused, and so is all but dispose once the session is cancelled or disposed.
dispatch(s, operation) ==
    /\ owner = "Active"
    /\ s \in DOMAIN live
    /\ \/ operation = "Dispose"
       \/ live[s].status \notin {"Cancelled", "Disposed"}

Controlled(s) == dispatch(s, "Control") /\ live[s].kind # "wasm"

\* Only with a target does the controller hold a lease to drive it with.
Driven(s) == Controlled(s) /\ live[s].target # NoTarget

Slot(s) == <<live[s].kind, s>>

Becomes(s, l) == live' = [live EXCEPT ![s] = l]

\* LiveSessionCommand::Snapshot.  (For HBC without a target the reply is an
\* error, after the status has been synchronised.)
Snapshot(s) ==
    /\ Controlled(s)
    /\ Becomes(s, snapshot_payload(live[s]))
    /\ UNCHANGED <<owner, hub, seen>>

\* Step, Pause and Cancel: request_directive, step_target, then a snapshot, or
\* for Cancel the status and the queued source.
Directed(s, d) ==
    LET l == live[s] IN
    /\ Driven(s)
    /\ \E t \in step(l.kind, l.target, d) :
          LET stepped == sync_status([l EXCEPT !.target = t])
          IN  Becomes(s, IF d = "Terminate"
                         THEN [stepped EXCEPT !.status = "Cancelled",
                                              !.pending = NoSource]
                         ELSE stepped)
    /\ hub' = [hub EXCEPT ![Slot(s)].directive =
                    IF takes_directive(l.kind, l.target) THEN "Continue" ELSE d]
    /\ UNCHANGED <<owner, seen>>

Step(s)   == Directed(s, "StepNext")
Pause(s)  == Directed(s, "Suspend")
cancel(s) == Directed(s, "Terminate")

\* run_target: a paused target is continued first.
run_target(s, limit) ==
    LET l == live[s] IN
    /\ Driven(s)
    /\ \E t \in run(l.kind, [l.target EXCEPT !.paused = FALSE], limit) :
          Becomes(s, sync_status([l EXCEPT !.target = t]))
    /\ UNCHANGED <<owner, hub, seen>>

\* resume: a suspended target takes its promise's settlement, which the request
\* may bring (given) unless the promise is settled already; a paused one goes on.
resume(s, given) ==
    LET l == live[s]
        t == l.target
    IN  /\ Driven(s)
        /\ IF t.state = "Suspended"
           THEN /\ given <=> t.promise = "Pending"
                /\ \E u \in settle(l.kind, t) :
                      Becomes(s, sync_status([l EXCEPT !.target = u]))
           ELSE Becomes(s, snapshot_payload(
                    IF t.paused THEN sync_status([l EXCEPT !.target.paused = FALSE])
                    ELSE l))
        /\ UNCHANGED <<owner, hub, seen>>

Settled(s) ==
    /\ live[s].target # NoTarget /\ live[s].target.promise = "Pending"
    /\ live' = [live EXCEPT ![s].target.promise = "Settled"]
    /\ UNCHANGED <<owner, hub, seen>>

\* Resolve and Reject settle the promise and leave the target where it is; so
\* does the promise's own producer, which no command announces.
resolve(s) == Driven(s) /\ Settled(s)
producer_settles(s) == s \in DOMAIN live /\ Settled(s)

\* restart of the two controllers: the old target goes first, the source, the
\* queued source and the generation change, and then a target is installed.
restart(s, src) ==
    LET l      == live[s]
        free   == remove_target(l, hub[Slot(s)])
        slot   == install_target(l.kind, free, src \in Valid)
        loaded == installed(l.kind, free, slot)
        after  == [l EXCEPT !.source = src, !.pending = NoSource,
                            !.generation = @ + 1,
                            !.execution = IF loaded THEN @ + 1 ELSE @,
                            !.target = IF loaded THEN NewTarget ELSE NoTarget,
                            !.status = IF loaded THEN "Ready" ELSE "Failed"]
    IN  /\ Becomes(s, IF loaded THEN snapshot_payload(after) ELSE after)
        /\ hub' = [hub EXCEPT ![Slot(s)] = slot]

\* WholeWasmLiveSession::restart and reset: the module is loaded first, under
\* the target the session keeps.
wasm_restart(s, src, loads) ==
    LET l == live[s] IN
    /\ IF loads
       THEN Becomes(s, [l EXCEPT !.source = src, !.pending = NoSource,
                                 !.generation = @ + 1, !.execution = @ + 1,
                                 !.target = NewTarget, !.status = "Ready"])
       ELSE UNCHANGED live
    /\ UNCHANGED hub

\* Update with the restart policy.
Update(s, src) ==
    /\ dispatch(s, "Update")
    /\ live[s].generation < MaxGeneration
    /\ IF live[s].kind = "wasm" THEN wasm_restart(s, src, src \in Valid)
                                ELSE restart(s, src)
    /\ UNCHANGED <<owner, seen>>

\* Update with replace-on-next-start.
Queue(s, src) ==
    /\ dispatch(s, "Update")
    /\ live' = [live EXCEPT ![s].pending = src]
    /\ UNCHANGED <<owner, hub, seen>>

\* reset: restart on the queued source, or on the current one (which whole-Wasm
\* still has as an artifact).  The queued source is taken either way.
reset(s) ==
    LET l   == live[s]
        src == IF l.pending # NoSource THEN l.pending ELSE l.source
        ok  == l.pending = NoSource \/ l.pending \in Valid
    IN  /\ dispatch(s, "Reset")
        /\ l.generation < MaxGeneration
        /\ CASE l.kind # "wasm" -> restart(s, src)
             [] l.kind = "wasm" /\ ok -> wasm_restart(s, src, TRUE)
             [] OTHER -> Becomes(s, [l EXCEPT !.pending = NoSource]) /\ UNCHANGED hub
        /\ UNCHANGED <<owner, seen>>

\* WholeWasmLiveSession::run and call, with result_payload: NativeModule's
\* emit_terminal comes before the status, and is an error, which leaves the
\* status alone, unless the hub knows the target.  Then Cancel.
wasm_run(s, result) ==
    LET l   == live[s]
        ran == [l EXCEPT !.target.sequence = @ + 1]
    IN  /\ dispatch(s, "Run") /\ l.kind = "wasm"
        /\ l.target.sequence < MaxRuns
        /\ Becomes(s, IF hub[Slot(s)].target
                      THEN [ran EXCEPT !.target.terminal = @ + 1, !.status = result]
                      ELSE ran)
        /\ UNCHANGED <<owner, hub, seen>>

wasm_cancel(s) ==
    /\ dispatch(s, "Cancel") /\ live[s].kind = "wasm"
    /\ live' = [live EXCEPT ![s].status = "Cancelled", ![s].pending = NoSource]
    /\ UNCHANGED <<owner, hub, seen>>

\* dispose: a session that calls itself disposed does nothing.
disposed(l) ==
    IF l.status = "Disposed" THEN l
    ELSE [l EXCEPT !.target = NoTarget, !.pending = NoSource, !.status = "Disposed"]

dispose(s) ==
    /\ dispatch(s, "Dispose")
    /\ Becomes(s, disposed(live[s]))
    /\ hub' = IF live[s].status = "Disposed" THEN hub
              ELSE [hub EXCEPT ![Slot(s)] = detach_instrument(live[s], @)]
    /\ UNCHANGED <<owner, seen>>

\* Session::release with dispose_all: every entry is disposed and dropped, and
\* with the Runtime goes the hub (ExecutionState::clear).
release ==
    /\ owner = "Active"
    /\ owner' = "Closed"
    /\ live' = [s \in {} |-> NoTarget]
    /\ hub' = [k \in Kinds \X Ids |-> EmptySlot]
    /\ UNCHANGED seen

\* live_session_state: a client takes the state its next requests will name.
live_session_state(s) ==
    /\ owner = "Active" /\ s \in DOMAIN live
    /\ seen' = {[session |-> s, generation |-> live[s].generation,
                 revision |-> Revision[live[s].source],
                 execution |-> live[s].execution]}
    /\ UNCHANGED <<owner, live, hub>>

Next ==
    \/ release
    \/ \E s \in Ids :
          \/ \E k \in Kinds, src \in Sources, artifact \in BOOLEAN :
                start(s, k, src, artifact)
          \/ Snapshot(s) \/ Step(s) \/ Pause(s) \/ cancel(s)
          \/ \E limit \in 0..MaxBoundaries : run_target(s, limit)
          \/ \E given \in BOOLEAN : resume(s, given)
          \/ resolve(s) \/ producer_settles(s)
          \/ \E src \in Sources : Update(s, src) \/ Queue(s, src)
          \/ reset(s)
          \/ \E result \in {"Returned", "Failed"} : wasm_run(s, result)
          \/ wasm_cancel(s) \/ dispose(s) \/ live_session_state(s)

Spec == Init /\ [][Next]_vars

-----------------------------------------------------------------------------
(* What the live sessions promise.                                          *)

\* The state of the owner, its sessions, the hub and a client's fence keep
\* their types through every command.
TypeOK ==
    /\ owner \in {"Active", "Closed"}
    /\ DOMAIN live \subseteq Ids
    /\ \A s \in DOMAIN live : live[s] \in Sessions
    /\ hub \in [Kinds \X Ids -> Slots]
    /\ seen \subseteq Fences

\* A controller and the hub agree on what it owns, through failed starts,
\* failed replacements, cancellation, disposal and the owner's close: a session
\* with a target has its target registered, and its instrument and lease unless
\* it runs on whole-Wasm; a lease is held only for such a session; and apart
\* from an HBC program that did not compile, a registered target always has a
\* session to remove it.  No directive outlives the command that requested it to
\* reach a later step: one is left only by an HBC target that has finished, and
\* goes with that target.
ControllerOwnsTarget ==
    \A k \in Kinds, s \in Ids :
        LET mine == s \in DOMAIN live /\ live[s].kind = k
            held == mine /\ live[s].target # NoTarget
        IN  /\ held => hub[k, s].target
            /\ hub[k, s].lease <=> held /\ k # "wasm"
            /\ hub[k, s].lease => hub[k, s].instrument
            /\ hub[k, s].instrument => mine
            /\ hub[k, s].target /\ ~held => k = "hbc" /\ owner = "Active"
            /\ hub[k, s].directive # "Continue" =>
                 k = "hbc" /\ held /\ finished(k, live[s].target)

\* The status a client reads is the state the execution is in, whichever of
\* sync_status's callers last ran: a Paused session has a paused target, a
\* Suspended one awaits a promise, and a Cancelled one will not run again.
StatusAgrees ==
    \A s \in DOMAIN live :
        LET l == live[s]
            t == l.target
        IN  l.kind # "wasm" =>
            CASE l.status = "Disposed"  -> t = NoTarget
              [] l.status = "Cancelled" -> t # NoTarget /\ t.state \in Finished
              [] l.status = "Ready"     -> t = NewTarget
              [] OTHER -> IF t = NoTarget THEN l.status = "Failed"
                          ELSE /\ l.status = status_of(t)
                               /\ t.promise # "None" <=> l.status = "Suspended"

\* A request that names the generation and revision it saw is accepted only by
\* the very execution it saw (LiveSessionRequest::validate), however many
\* restarts, resets and failed replacements came between.
FenceIdentifiesExecution ==
    \A f \in seen, s \in DOMAIN live :
        validate(s, f) => f.execution = live[s].execution

\* No terminal event comes early, twice or, while it can be published, never
\* (InterpreterTarget and HbcTarget::emit_terminal, WholeWasmLiveSession::
\* result_payload): an interpreter or HBC execution has emitted one exactly when
\* it is over and nothing it queued is left, and a whole-Wasm module one for
\* each of its runs.  (A session cancelled with boundaries queued is over with
\* some left: see CancelIsAnnounced.)
TerminalEventIsExact ==
    \A s \in DOMAIN live :
        LET t == live[s].target
        IN  t # NoTarget =>
            t.terminal = IF live[s].kind = "wasm" THEN t.sequence
                         ELSE IF ended(t) /\ t.queued = 0 THEN 1 ELSE 0

\* HNW0_HTA_BOUNDARY.md: the live-session owner emits one terminal event for the
\* backend lifecycle, so for a cancelled session too.  (A cancelled interpreter
\* execution waits for its queued boundaries, and dispatch refuses the commands
\* that would publish them.)
CancelIsAnnounced ==
    \A s \in DOMAIN live :
        live[s].status = "Cancelled" /\ live[s].kind # "wasm" =>
            live[s].target.terminal = 1

\* Cancellation is final: whatever requests still arrive, a cancelled or
\* disposed session never gets another generation, and its execution never
\* moves again (dispatch refuses all but Dispose).
CancelledStaysCancelled ==
    [][\A s \in DOMAIN live \cap DOMAIN live' :
          live[s].status \in {"Cancelled", "Disposed"} =>
            /\ live'[s].generation = live[s].generation
            /\ live'[s].status \in {live[s].status, "Disposed"}
            /\ live'[s].target \in {live[s].target, NoTarget}]_vars

\* What a failed replacement leaves does not stand in the way of a later one,
\* and what installs stays installed (restart, install_target, sync_status): on
\* the interpreter and on whole-Wasm a new generation on a source that loads
\* always runs, and a session that has a target becomes Disposed by dispose
\* alone, which leaves nothing of it in the hub.  (A session that a failed
\* restart has left without a target becomes Disposed by a mere Snapshot, whose
\* sync_status finds none, and then refuses every replacement.)
ReplacementRecovers ==
    [][\A s \in DOMAIN live \cap DOMAIN live' :
          /\ /\ live'[s].generation # live[s].generation
             /\ live'[s].source \in Valid /\ live[s].kind # "hbc"
             => live'[s].target = NewTarget
          /\ live'[s].status = "Disposed" /\ live[s].target # NoTarget
             => hub'[Slot(s)] = EmptySlot]_vars

\* LIVE_SESSION.md: a failed replacement leaves the active generation
\* unchanged.  (The restart of both controllers has given up the old target and
\* moved on by the time install_target fails.)
FailedReplacementKeepsGeneration ==
    [][\A s \in DOMAIN live \cap DOMAIN live' :
          live'[s].target = NoTarget /\ live'[s].status = "Failed"
          => live'[s].generation = live[s].generation]_vars

=============================================================================
