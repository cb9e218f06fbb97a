------------------------------- MODULE Promise -------------------------------
(***************************************************************************)
(* The evaluator-thread Promise (core/rust/src/task/promise.rs).           *)
(*                                                                         *)
(* There is one thread; what makes the code hard is re-entrancy.  Settling *)
(* a promise runs continuations, reading one may run its deferred task or  *)
(* its poller, cancelling one runs a hook, and each of those is user code  *)
(* that may call any operation on any promise before it returns.  The call *)
(* stack is therefore part of the state: `stack` holds the calls in        *)
(* progress, innermost first, each as the work it still has to do, and one *)
(* step executes the innermost one up to its next call.                    *)
(*                                                                         *)
(* A continuation is a model value (user code) or a promise, which stands  *)
(* for the closure adopt registers to settle that promise.  A poller or a  *)
(* waiter is "host", which asks after or blocks on a host operation, or a  *)
(* promise, which it reads or waits for (a wrapper's hook, or adopt's).  A *)
(* value is abstracted to the kind of settlement; wall-clock time is Tick. *)
(***************************************************************************)
EXTENDS Naturals, Sequences, FiniteSets

CONSTANTS
  Promises,      \* the promises of the program
  Continuations, \* user callbacks, each given to on_settle at most once
  TaskResults,   \* what deferred tasks return: "value", "error", promises
  Scheduled,     \* promises made by a provider's delay
  Cooperative,   \* promises of a host operation with a cooperative poller
  Blocking,      \* promises of a host operation with a blocking waiter
  Hooked,        \* promises made with a cancel hook
  None,
  Ops,           \* the operations user code calls
  MaxCalls,      \* bound on the calls user code makes
  MaxDepth       \* calls in progress that fit the thread's stack

Settled  == {"Fulfilled", "Rejected", "Cancelled"}
Job      == [job: Continuations \cup Promises, outcome: Settled, from: Promises]
Deferred == {"none", "waiting", "ready"}
Operation == {"none", "running", "done"}
Hook      == Promises \cup {"host", None}

ASSUME PromiseConstants ==
  /\ TaskResults \subseteq {"value", "error"} \cup Promises
  /\ MaxCalls \in Nat /\ MaxDepth \in Nat
  /\ None \notin Promises /\ None \notin Continuations
  /\ Promises \cap Continuations = {}
  /\ {"value", "error", "host"} \cap Promises = {}
  /\ None # "host"
  /\ IsFiniteSet(Promises)
  /\ Scheduled \cup Cooperative \cup Blocking \cup Hooked \subseteq Promises
  /\ Cooperative \cap Blocking = {}

VARIABLES
  state,               \* promise -> "Pending" or a settlement
  continuations,       \* promise -> what to run when it settles
  deferred,            \* promise -> whether its scheduled task may run
  poller,              \* promise -> hooks.poller
  cooperative_polling, \* promise -> hooks.cooperative_polling
  waiter,              \* promise -> hooks.waiter
  cancel_hook,         \* promise -> is there a hooks.cancel?
  host,                \* promise -> the host operation its hooks drive
  adopted_from,        \* promise -> the source it adopted
  progress_registered, \* promise -> was it ever subscribed?
  subscribed,          \* SUBSCRIBED_PROMISES
  queue,               \* CONTINUATION_QUEUE
  stack,               \* the calls in progress, innermost first
  calls,               \* calls made so far
  registered,          \* ghost: on_settle calls of user code, in order
  fired,               \* ghost: user continuations run, in order
  links,               \* ghost: adoptions <<destination, source>> made
  late,                \* ghost: promises given a hook after they settled
  looped               \* ghost: have the hooks ever formed a cycle?

hooks   == <<poller, cooperative_polling, waiter, cancel_hook, host>>
promise == <<state, continuations, deferred, hooks, adopted_from,
             progress_registered>>
ghosts  == <<registered, fired, links, late, looped>>
vars    == <<promise, subscribed, queue, stack, calls, ghosts>>

(* A call in progress: what it does next, to which promise, with what. *)
frame(op, p, arg) == [op |-> op, p |-> p, arg |-> arg]

rest     == Tail(stack)
at(op)   == stack # << >> /\ Head(stack).op = op
top      == Head(stack)
frames   == {stack[i] : i \in DOMAIN stack}

(* DRAINING_CONTINUATIONS is set exactly while a drain loop is on the stack. *)
draining == \E f \in frames : f.op = "drain"

(* PROGRESSING_PROMISES: the guard of each entered promise is a frame. *)
progressing == {f.p : f \in {g \in frames : g.op = "leave"}}

(* User code runs at the top level or inside a callback. *)
user_code == stack # << >> => top.op \in {"user", "task"}

(* The promises polled through p: p, what it adopted, and so on to None. *)
chain(p) ==
  LET c[n \in 0..Cardinality(Promises)] ==
        IF n = 0 THEN p
        ELSE IF c[n - 1] = None THEN None ELSE adopted_from[c[n - 1]]
  IN  {c[n] : n \in 0..Cardinality(Promises)}

adoption_would_cycle(p, q) == p \in chain(q) \/ None \notin chain(q)

(* The promises whose state(), wait_state() or cancel() a call on p makes. *)
drives(p) == {poller[p], waiter[p], adopted_from[p]} \cap Promises

(* No promise drives itself through others.  adopt rejects the cycles it   *)
(* sees before it reads the source, not those that appear meanwhile and    *)
(* not those through a wrapper's hooks; on a cycle state() calls itself    *)
(* until the thread's stack is exhausted.                                  *)
HooksAcyclic ==
  \A S \in (SUBSET Promises) \ {{}} : \E p \in S : drives(p) \cap S = {}

-----------------------------------------------------------------------------
(* Promises come from Promise::new, from a provider's delay or from a host *)
(* provider, which installs its hooks before anyone else sees the promise. *)
Init ==
  /\ state = [p \in Promises |-> "Pending"]
  /\ continuations = [p \in Promises |-> << >>]
  /\ deferred = [p \in Promises |-> IF p \in Scheduled THEN "waiting" ELSE "none"]
  /\ poller = [p \in Promises |-> IF p \in Cooperative \cup Blocking
                                  THEN "host" ELSE None]
  /\ waiter = poller
  /\ cooperative_polling = [p \in Promises |-> p \in Cooperative]
  /\ host = [p \in Promises |-> IF p \in Cooperative \cup Blocking
                                THEN "running" ELSE "none"]
  /\ cancel_hook = [p \in Promises |-> p \in Hooked]
  /\ adopted_from = [p \in Promises |-> None]
  /\ progress_registered = [p \in Promises |-> FALSE]
  /\ subscribed = << >> /\ queue = << >> /\ stack = << >>
  /\ calls = 0
  /\ registered = << >> /\ fired = << >> /\ links = {}
  /\ late = {} /\ looped = FALSE

(* User code calls an operation ... *)
calls_op(op) ==
  /\ op \in Ops
  /\ user_code
  /\ calls < MaxCalls                                            \* bound
  /\ calls' = calls + 1

(* ... whose frame goes on the stack.                                      *)
call(f) ==
  /\ calls_op(f.op)
  /\ stack' = <<f>> \o stack
  /\ UNCHANGED <<promise, subscribed, queue, ghosts>>

UserCall ==
  \/ \E p \in Promises, o \in {"Fulfilled", "Rejected"} :
       call(frame("settle", p, o))
  \/ \E p \in Promises, op \in {"cancel", "state", "wait_state",
                              "wait_state_timeout"} :
       call(frame(op, p, None))
  \/ \E p \in Promises, c \in Continuations :
       /\ \A i \in DOMAIN registered : registered[i].job # c
       /\ ~ \E f \in frames : f.arg = c
       /\ call(frame("on_settle", p, c))
  \/ \E p, q \in Promises : call(frame("adopt", p, q))

(* The setters look at nothing: a settled promise takes a hook as well.    *)
(* A host hook comes with the host operation it drives.                    *)
sets_hook(op, p, h) ==
  /\ calls_op(op)
  /\ host' = IF h = "host" /\ host[p] = "none"
             THEN [host EXCEPT ![p] = "running"] ELSE host
  /\ late' = IF state[p] = "Pending" THEN late ELSE late \cup {p}
  /\ UNCHANGED <<state, continuations, adopted_from, progress_registered,
                 subscribed, queue, registered, fired, links>>

set_poller(p, h) ==
  /\ sets_hook("set_poller", p, h)
  /\ poller' = [poller EXCEPT ![p] = h]
  /\ cooperative_polling' = [cooperative_polling EXCEPT ![p] = FALSE]
  /\ UNCHANGED <<deferred, waiter, cancel_hook, stack>>

set_cooperative_poller(p) ==
  /\ sets_hook("set_cooperative_poller", p, "host")
  /\ poller' = [poller EXCEPT ![p] = "host"]
  /\ cooperative_polling' = [cooperative_polling EXCEPT ![p] = TRUE]
  /\ UNCHANGED <<deferred, waiter, cancel_hook, stack>>

set_waiter(p, h) ==
  /\ sets_hook("set_waiter", p, h)
  /\ waiter' = [waiter EXCEPT ![p] = h]
  /\ UNCHANGED <<deferred, poller, cooperative_polling, cancel_hook, stack>>

set_cancel_hook(p) ==
  /\ sets_hook("set_cancel_hook", p, None)
  /\ cancel_hook' = [cancel_hook EXCEPT ![p] = TRUE]
  /\ UNCHANGED <<deferred, poller, cooperative_polling, waiter, stack>>

(* A task for later is kept, one for now is run at once. *)
schedule(p) ==
  /\ sets_hook("schedule", p, None)
  /\ \/ /\ deferred' = [deferred EXCEPT ![p] = "waiting"]
        /\ UNCHANGED stack
     \/ /\ stack' = <<frame("task", p, None)>> \o stack
        /\ UNCHANGED deferred
  /\ UNCHANGED <<poller, cooperative_polling, waiter, cancel_hook>>

(* A pending promise joins the progress registry once ... *)
register_progress(p) ==
  IF state[p] = "Pending" /\ ~ progress_registered[p]
  THEN /\ subscribed' = Append(subscribed, p)
       /\ progress_registered' = [progress_registered EXCEPT ![p] = TRUE]
  ELSE UNCHANGED <<subscribed, progress_registered>>

(* ... when it gets a subscriber, or before, with its peers in a batch.    *)
RegisterProgress ==
  /\ calls_op("register_progress")
  /\ \E p \in Promises : register_progress(p)
  /\ UNCHANGED <<state, continuations, deferred, hooks, adopted_from, queue,
                 stack, ghosts>>

SetHook ==
  /\ \E p \in Promises :
       \/ \E h \in Hook \ {p, None} : set_poller(p, h) \/ set_waiter(p, h)
       \/ set_cooperative_poller(p) \/ set_cancel_hook(p) \/ schedule(p)
  /\ looped' = (looped \/ ~ HooksAcyclic')

(* User code returns.  A deferred task's result settles its promise. *)
UserReturn ==
  /\ at("user")
  /\ stack' = rest
  /\ UNCHANGED <<promise, subscribed, queue, calls, ghosts>>

settle_result ==
  /\ at("task")
  /\ \E r \in TaskResults :
       stack' = <<CASE r = "value" -> frame("settle", top.p, "Fulfilled")
                    [] r = "error" -> frame("settle", top.p, "Rejected")
                    [] OTHER       -> frame("adopt", top.p, r)>> \o rest
  /\ UNCHANGED <<promise, subscribed, queue, calls, ghosts>>

(* The continuations of p, each to be called with the outcome. *)
jobs_of(p, outcome) ==
  [i \in DOMAIN continuations[p] |->
     [job |-> continuations[p][i], outcome |-> outcome, from |-> p]]

(* Hand jobs to enqueue_continuation one after another: inside a drain     *)
(* they only join the queue; outside, each starts a drain of its own       *)
(* before the next is queued.                                              *)
enqueue_all(jobs) ==
  IF draining
  THEN queue' = queue \o jobs /\ stack' = rest
  ELSE queue' = queue /\ stack' = <<frame("enqueue", None, jobs)>> \o rest

enqueue_continuation ==
  /\ at("enqueue")
  /\ IF top.arg = << >>
     THEN stack' = rest /\ queue' = queue
     ELSE /\ queue' = Append(queue, Head(top.arg))
          /\ stack' = <<frame("drain", None, None),
                        frame("enqueue", None, Tail(top.arg))>> \o rest
  /\ UNCHANGED <<promise, subscribed, calls, ghosts>>

(* PromiseHooks::default; nobody asks after the operation any more. *)
drops_hooks(p) ==
  /\ poller' = [poller EXCEPT ![p] = None]
  /\ cooperative_polling' = [cooperative_polling EXCEPT ![p] = FALSE]
  /\ waiter' = [waiter EXCEPT ![p] = None]
  /\ cancel_hook' = [cancel_hook EXCEPT ![p] = FALSE]
  /\ host' = [host EXCEPT ![p] = "none"]

(* Mutant: the continuations are cloned, not taken. *)
settled_keeps_continuations(p, outcome) ==
  /\ state' = [state EXCEPT ![p] = outcome]
  /\ deferred' = [deferred EXCEPT ![p] = "none"]
  /\ drops_hooks(p)
  /\ adopted_from' = [adopted_from EXCEPT ![p] = None]
  /\ UNCHANGED <<continuations, progress_registered>>

(* The assignments of settle, for a promise that is still pending. *)
settled(p, outcome) ==
  /\ state' = [state EXCEPT ![p] = outcome]
  /\ continuations' = [continuations EXCEPT ![p] = << >>]
  /\ deferred' = [deferred EXCEPT ![p] = "none"]
  /\ drops_hooks(p)
  /\ adopted_from' = [adopted_from EXCEPT ![p] = None]
  /\ UNCHANGED progress_registered

(* Mutant: the second settlement wins. *)
settle_again ==
  /\ at("settle")
  /\ settled(top.p, top.arg) /\ enqueue_all(jobs_of(top.p, top.arg))
  /\ UNCHANGED <<subscribed, calls, ghosts>>

settle ==
  /\ at("settle")
  /\ IF state[top.p] = "Pending"
     THEN settled(top.p, top.arg) /\ enqueue_all(jobs_of(top.p, top.arg))
     ELSE stack' = rest /\ UNCHANGED <<promise, queue>>
  /\ UNCHANGED <<subscribed, calls, ghosts>>

(* One turn of the drain loop: user code is entered, adopt's closure       *)
(* settles its destination (which, draining, only queues more jobs).       *)
drain ==
  /\ at("drain")
  /\ IF queue = << >>
     THEN stack' = rest /\ UNCHANGED <<queue, fired>>
     ELSE LET next == Head(queue)
              run  == IF next.job \in Continuations
                      THEN frame("user", None, None)
                      ELSE frame("settle", next.job, next.outcome)
          IN  /\ queue' = Tail(queue)
              /\ stack' = <<run>> \o stack
              /\ fired' = IF next.job \in Continuations
                          THEN Append(fired, next) ELSE fired
  /\ UNCHANGED <<promise, subscribed, calls, registered, links, late,
                 looped>>

(* Promise::state: run the deferred task if its time has come, then poll.  *)
read_state ==
  /\ at("state")
  /\ LET p == top.p
         ready == deferred[p] = "ready"
     IN  /\ deferred' = IF ready THEN [deferred EXCEPT ![p] = "none"]
                        ELSE deferred
         /\ stack' = (IF ready THEN <<frame("task", p, None)>> ELSE << >>)
                     \o <<frame("poll", p, None)>> \o rest
  /\ UNCHANGED <<state, continuations, hooks, adopted_from,
                 progress_registered, subscribed, queue, calls, ghosts>>

(* The poller: read another promise, or collect the result of a host       *)
(* operation that is done.                                                 *)
poll ==
  /\ at("poll")
  /\ LET p == top.p
     IN  \/ /\ poller[p] \in Promises
            /\ stack' = <<frame("state", poller[p], None)>> \o rest
         \/ /\ poller[p] = "host" /\ host[p] = "done"
            /\ \E o \in {"Fulfilled", "Rejected"} :
                 stack' = <<frame("settle", p, o)>> \o rest
         \/ /\ poller[p] \notin Promises
            /\ poller[p] = "host" => host[p] # "done"
            /\ stack' = rest
  /\ UNCHANGED <<promise, subscribed, queue, calls, ghosts>>

(* Mutant: cancellation stops at the adopting promise. *)
cancel_destination_only ==
  /\ at("cancel")
  /\ stack' = IF state[top.p] # "Pending" THEN rest
              ELSE <<frame("settle", top.p, "Cancelled")>> \o rest
  /\ UNCHANGED <<promise, subscribed, queue, calls, ghosts>>

(* Promise::cancel with notify_cancel: the hook and the source are read    *)
(* together, the hook runs, the source is cancelled, then p is rejected.   *)
cancel ==
  /\ at("cancel")
  /\ LET p == top.p
         hook   == IF cancel_hook[p] THEN <<frame("user", None, None)>>
                   ELSE << >>
         source == IF adopted_from[p] = None THEN << >>
                   ELSE <<frame("cancel", adopted_from[p], None)>>
     IN  stack' = IF state[p] # "Pending" THEN rest
                  ELSE hook \o source
                       \o <<frame("settle", p, "Cancelled")>> \o rest
  /\ UNCHANGED <<promise, subscribed, queue, calls, ghosts>>

on_settle ==
  /\ at("on_settle")
  /\ stack' = <<frame("state", top.p, None),
                frame("subscribe", top.p, top.arg)>> \o rest
  /\ UNCHANGED <<promise, subscribed, queue, calls, ghosts>>

(* Ghost: user code has subscribed c to p. *)
log_registration(c, p) ==
  registered' = IF c \in Continuations
                THEN Append(registered, [job |-> c, from |-> p,
                                         early |-> state[p] = "Pending"])
                ELSE registered

(* Mutant: a promise that settled meanwhile has no one to call back. *)
subscribe_pending_only ==
  /\ at("subscribe")
  /\ LET p == top.p
     IN  IF state[p] = "Pending"
         THEN /\ continuations' = [continuations EXCEPT ![p] = Append(@, top.arg)]
              /\ register_progress(p)
         ELSE UNCHANGED <<continuations, subscribed, progress_registered>>
  /\ stack' = rest
  /\ log_registration(top.arg, top.p)
  /\ UNCHANGED <<state, deferred, hooks, adopted_from, queue, calls, fired,
                 links, late, looped>>

(* Mutant: a late continuation is queued, but nobody drains the queue. *)
subscribe_queues_only ==
  /\ at("subscribe")
  /\ LET p == top.p
     IN  IF state[p] = "Pending"
         THEN /\ continuations' = [continuations EXCEPT ![p] = Append(@, top.arg)]
              /\ register_progress(p)
              /\ UNCHANGED queue
         ELSE /\ queue' = Append(queue, [job |-> top.arg, outcome |-> state[p],
                                         from |-> p])
              /\ UNCHANGED <<continuations, subscribed, progress_registered>>
  /\ stack' = rest
  /\ log_registration(top.arg, top.p)
  /\ UNCHANGED <<state, deferred, hooks, adopted_from, calls, fired, links,
                 late, looped>>

(* on_settle after its look at the state, with register_progress. *)
subscribe ==
  /\ at("subscribe")
  /\ LET p == top.p
     IN  IF state[p] = "Pending"
         THEN /\ continuations' = [continuations EXCEPT ![p] = Append(@, top.arg)]
              /\ register_progress(p)
              /\ stack' = rest
              /\ UNCHANGED queue
         ELSE /\ enqueue_all(<<[job |-> top.arg, outcome |-> state[p],
                                from |-> p]>>)
              /\ UNCHANGED <<continuations, subscribed, progress_registered>>
  /\ log_registration(top.arg, top.p)
  /\ UNCHANGED <<state, deferred, hooks, adopted_from, calls, fired, links,
                 late, looped>>

(* adopt(p, q), in the three parts its calls to state() cut it into. *)
adopt ==
  /\ at("adopt")
  /\ LET p == top.p
         q == top.arg
     IN  stack' = IF p = q \/ adoption_would_cycle(p, q)
                  THEN <<frame("settle", p, "Rejected")>> \o rest
                  ELSE <<frame("state", q, None), frame("adopt_source", p, q)>>
                       \o rest
  /\ UNCHANGED <<promise, subscribed, queue, calls, ghosts>>

adopt_source ==
  /\ at("adopt_source")
  /\ LET p == top.p
         q == top.arg
     IN  stack' = IF state[q] = "Pending"
                  THEN <<frame("state", p, None), frame("adopt_link", p, q)>>
                       \o rest
                  ELSE <<frame("settle", p, state[q])>> \o rest
  /\ UNCHANGED <<promise, subscribed, queue, calls, ghosts>>

(* set_poller and set_waiter with closures that drive q. *)
links_hooks(p, q) ==
  /\ poller' = [poller EXCEPT ![p] = q]
  /\ cooperative_polling' = [cooperative_polling EXCEPT ![p] = FALSE]
  /\ waiter' = [waiter EXCEPT ![p] = q]
  /\ host' = [host EXCEPT ![p] = "none"]
  /\ UNCHANGED cancel_hook

(* Mutant: the destination is not looked at again after its own state()    *)
(* ran user code.                                                          *)
adopt_link_unchecked ==
  /\ at("adopt_link")
  /\ adopted_from' = [adopted_from EXCEPT ![top.p] = top.arg]
  /\ links_hooks(top.p, top.arg)
  /\ stack' = <<frame("on_settle", top.arg, top.p)>> \o rest
  /\ links' = links \cup {<<top.p, top.arg>>}
  /\ looped' = (looped \/ ~ HooksAcyclic')
  /\ UNCHANGED <<state, continuations, deferred, progress_registered,
                 subscribed, queue, calls, registered, fired, late>>

(* The poller and the waiter of p now drive the source. *)
adopt_link ==
  /\ at("adopt_link")
  /\ IF state[top.p] = "Pending"
     THEN /\ adopted_from' = [adopted_from EXCEPT ![top.p] = top.arg]
          /\ links_hooks(top.p, top.arg)
          /\ stack' = <<frame("on_settle", top.arg, top.p)>> \o rest
          /\ links' = links \cup {<<top.p, top.arg>>}
          /\ looped' = (looped \/ ~ HooksAcyclic')
     ELSE stack' = rest /\ UNCHANGED <<adopted_from, hooks, links, looped>>
  /\ UNCHANGED <<state, continuations, deferred, progress_registered,
                 subscribed, queue, calls, registered, fired, late>>

(* The pruning of the registry: what is pending in st stays, in order. *)
pending_of(s, st) ==
  LET kept[n \in 0..Len(s)] ==
        IF n = 0 THEN << >>
        ELSE IF st[s[n]] = "Pending" THEN Append(kept[n - 1], s[n])
        ELSE kept[n - 1]
  IN  kept[Len(s)]

(* Mutant: the registry is taken, not copied. *)
progress_takes_registry ==
  /\ at("progress")
  /\ subscribed' = << >>
  /\ stack' = <<frame("progress_each", None,
                      pending_of(subscribed, state))>>
              \o rest
  /\ UNCHANGED <<promise, queue, calls, ghosts>>

(* progress_subscribed_promises: prune, snapshot, then read each promise   *)
(* that is not already being read further down the stack.                  *)
progress_subscribed_promises ==
  /\ at("progress")
  /\ subscribed' = pending_of(subscribed, state)
  /\ stack' = <<frame("progress_each", None, subscribed')>> \o rest
  /\ UNCHANGED <<promise, queue, calls, ghosts>>

progress_each ==
  /\ at("progress_each")
  /\ LET p    == Head(top.arg)
         more == frame("progress_each", None, Tail(top.arg))
     IN  stack' = IF top.arg = << >> THEN rest
                  ELSE IF p \in progressing THEN <<more>> \o rest
                  ELSE <<frame("state", p, None), frame("leave", p, None), more>>
                       \o rest
  /\ UNCHANGED <<promise, subscribed, queue, calls, ghosts>>

leave ==
  /\ at("leave")
  /\ stack' = rest
  /\ UNCHANGED <<promise, subscribed, queue, calls, ghosts>>

(* One turn of wait_state's loop, up to its look at the state ...          *)
wait_state ==
  /\ at("wait_state")
  /\ stack' = <<frame("progress", None, None), frame("state", top.p, None),
                frame("wait_check", top.p, None)>> \o rest
  /\ UNCHANGED <<promise, subscribed, queue, calls, ghosts>>

(* Mutant: a wait does not give up on a promise nothing will settle. *)
wait_check_forever ==
  /\ at("wait_check")
  /\ stack' = IF state[top.p] # "Pending" THEN rest
              ELSE <<frame("wait_state", top.p, None)>> \o rest
  /\ UNCHANGED <<promise, subscribed, queue, calls, ghosts>>

(* ... and from there: settled, wait through the waiter, sleep until a     *)
(* task is due or a cooperative operation may be done, or give up.         *)
wait_check ==
  /\ at("wait_check")
  /\ LET p == top.p
         pollable == cooperative_polling[p] /\ poller[p] # None
         waits    == ~ pollable /\ waiter[p] # None
         after    == <<frame("progress", None, None), frame("state", p, None)>>
     IN  \/ /\ state[p] # "Pending"
            /\ stack' = rest
         \/ /\ state[p] = "Pending" /\ waits /\ waiter[p] \in Promises
            /\ stack' = <<frame("wait_state", waiter[p], None)>> \o after \o rest
         \/ /\ state[p] = "Pending" /\ waits /\ waiter[p] = "host"
            /\ host[p] = "done"
            /\ \E o \in {"Fulfilled", "Rejected"} :
                 stack' = <<frame("settle", p, o)>> \o after \o rest
         \/ /\ state[p] = "Pending" /\ ~ waits
            /\ stack' = IF deferred[p] # "none" \/ (pollable /\ waiter[p] # None)
                        THEN <<frame("wait_state", p, None)>> \o rest
                        ELSE rest
  /\ UNCHANGED <<promise, subscribed, queue, calls, ghosts>>

(* One turn of wait_state_timeout's loop; it has no other effect, so the   *)
(* turns of a longer wait are further calls.                               *)
wait_state_timeout ==
  /\ at("wait_state_timeout")
  /\ stack' = <<frame("progress", None, None), frame("progress", None, None),
                frame("state", top.p, None)>> \o rest
  /\ UNCHANGED <<promise, subscribed, queue, calls, ghosts>>

(* The clock reaches the instant a deferred task was scheduled for ... *)
Tick ==
  /\ \E p \in Promises :
       /\ deferred[p] = "waiting"
       /\ deferred' = [deferred EXCEPT ![p] = "ready"]
  /\ UNCHANGED <<state, continuations, hooks, adopted_from,
                 progress_registered, subscribed, queue, stack, calls, ghosts>>

(* ... or a host operation completes. *)
HostDone ==
  /\ \E p \in Promises :
       /\ host[p] = "running"
       /\ host' = [host EXCEPT ![p] = "done"]
  /\ UNCHANGED <<state, continuations, deferred, poller, cooperative_polling,
                 waiter, cancel_hook, adopted_from, progress_registered,
                 subscribed, queue, stack, calls, ghosts>>

(* The evaluator executes the innermost call.  When the stack is exhausted *)
(* the program is at its end.                                              *)
Step ==
  /\ Len(stack) <= MaxDepth                                     \* bound
  /\ \/ UserReturn \/ settle_result \/ enqueue_continuation \/ settle \/ drain
     \/ read_state \/ poll \/ cancel \/ on_settle \/ subscribe
     \/ adopt \/ adopt_source \/ adopt_link
     \/ progress_subscribed_promises \/ progress_each \/ leave
     \/ wait_state \/ wait_check \/ wait_state_timeout

Next == UserCall \/ RegisterProgress \/ SetHook \/ Step \/ Tick \/ HostDone

Spec == Init /\ [][Next]_vars

(* Running code keeps running, callbacks return, and time passes.  Nothing *)
(* is assumed of a host operation: it may run for ever.                    *)
FairSpec == Spec /\ WF_vars(Step) /\ WF_vars(Tick)

-----------------------------------------------------------------------------
(* Promise state and the thread-local queues hold what their Rust types    *)
(* allow; in particular a queued continuation carries a settlement, never  *)
(* Pending.                                                                *)
TypeOK ==
  /\ state \in [Promises -> Settled \cup {"Pending"}]
  /\ continuations \in [Promises -> Seq(Continuations \cup Promises)]
  /\ deferred \in [Promises -> Deferred]
  /\ poller \in [Promises -> Hook] /\ waiter \in [Promises -> Hook]
  /\ cooperative_polling \in [Promises -> BOOLEAN]
  /\ cancel_hook \in [Promises -> BOOLEAN]
  /\ host \in [Promises -> Operation]
  /\ adopted_from \in [Promises -> Promises \cup {None}]
  /\ progress_registered \in [Promises -> BOOLEAN]
  /\ subscribed \in Seq(Promises)
  /\ queue \in Seq(Job)
  /\ calls \in 0..MaxCalls

(* A settled promise keeps no continuation and no adopted source, and of   *)
(* hooks and tasks only what a setter gave it after it had settled: settle *)
(* drops the rest, and no call that was under way when it settled (adopt   *)
(* and on_settle run user code between their reads and their writes) puts  *)
(* any of it back.                                                         *)
HooksReleased ==
  \A p \in Promises : state[p] # "Pending" =>
    /\ continuations[p] = << >>
    /\ adopted_from[p] = None
    /\ p \notin late => /\ poller[p] = None /\ waiter[p] = None
                        /\ ~ cancel_hook[p]
                        /\ deferred[p] = "none"

(* The call at height h of the stack; the outermost is at height 0. *)
call_at(h) == stack[Len(stack) - h]

occurrences(s, c) == {i \in DOMAIN s : s[i] = c}
job_names(s)      == [i \in DOMAIN s |-> s[i].job]

(* Where c is: waiting on a promise, held by an enqueue call, queued, run. *)
places(c) ==
  (UNION {{<<"waiting", p, i>> : i \in occurrences(continuations[p], c)} : p \in Promises})
  \cup (UNION {{<<"held", h, i>> : i \in occurrences(job_names(call_at(h).arg), c)} :
                  h \in {n \in 0..(Len(stack) - 1) : call_at(n).op = "enqueue"}})
  \cup {<<"queued", 0, i>> : i \in occurrences(job_names(queue), c)}
  \cup {<<"run", 0, i>> : i \in occurrences(job_names(fired), c)}

(* Every callback given to on_settle is in exactly one place: waiting on   *)
(* its promise, held by the settle call that took it, queued, or run.      *)
(* However settling, draining and subscribing nest, none is lost and none  *)
(* runs twice.                                                             *)
ContinuationsExactlyOnce ==
  \A i \in DOMAIN registered :
    \E x \in places(registered[i].job) : places(registered[i].job) = {x}

(* A pending promise with subscribers is in the progress registry, once:   *)
(* a wait on any other promise will advance it (register_progress and the  *)
(* pruning in progress_subscribed_promises).                               *)
SubscribersVisible ==
  \A p \in Promises :
    /\ state[p] = "Pending" /\ continuations[p] # << >> =>
         p \in {subscribed[i] : i \in DOMAIN subscribed}
    /\ \A i, j \in DOMAIN subscribed : subscribed[i] = subscribed[j] => i = j

(* When no call is in progress, a promise that adopted a settled source    *)
(* has settled too, though the source may have settled in the middle of    *)
(* adopt, between its reads of either state.                               *)
AdoptersFollow ==
  stack = << >> =>
    \A l \in links : state[l[2]] # "Pending" => state[l[1]] # "Pending"

Contract == INSTANCE PromiseContract WITH
  Callbacks <- Continuations, Settlements <- Settled

(* Promises keep the contract of PromiseContract through all re-entrancy:  *)
(* resolve, reject, cancel, a deferred task or an adopted source settle a  *)
(* promise once, a callback is called at most once and with the settlement *)
(* of its promise, and early callbacks in the order of registration        *)
(* (settle, on_settle, enqueue_continuation).                              *)
PromisesKeepContract == Contract!Spec

(* Following adopted_from from any promise comes to an end.  Reading a     *)
(* promise's state recurses along this chain (adopt's poller), so a cycle  *)
(* would never return.                                                     *)
AdoptionAcyclic == \A p \in Promises : None \in chain(p)

(* Some call is in wait_state's loop or waiter for a host operation that   *)
(* still runs.                                                             *)
waits_for_host ==
  \E f \in frames : f.op \in {"wait_state", "wait_check"} /\ host[f.p] = "running"

(* No wait for a host operation lasts for ever. *)
HostWaitsEnd == []<>(~ waits_for_host)

(* Every call returns (wait_state's loops above all) unless it waits for a *)
(* host operation that never ends, or the hooks have formed a cycle.       *)
CallsReturn == HostWaitsEnd => []<>(stack = << >> \/ looped)

(* Under the same two conditions the callbacks of a settled promise are    *)
(* run, whoever has to drain the queue for them (enqueue_continuation).    *)
CallbacksAreRun ==
  HostWaitsEnd => \A c \in Continuations :
                    Contract!IsDue(c) ~> (Contract!HasFired(c) \/ looped)

(* Under the same two conditions, cancelling a promise that adopted another*)
(* settles the source as well, so the underlying operation is not left     *)
(* running (notify_cancel).                                                *)
CancelReachesSource ==
  HostWaitsEnd =>
    \A p, q \in Promises :
      (/\ at("cancel") /\ top.p = p
       /\ state[p] = "Pending" /\ adopted_from[p] = q)
      ~> (state[q] # "Pending" \/ looped)
=============================================================================
