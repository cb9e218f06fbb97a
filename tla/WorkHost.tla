------------------------------ MODULE WorkHost ------------------------------
(***************************************************************************)
(* The cooperative work host (core/rust/src/work.rs, work/scope.rs).       *)
(*                                                                         *)
(* A host admits runs, executes their bodies on the evaluator thread, and  *)
(* closes each run once its body, its attached children and its finalizers *)
(* are done.  Bodies, finalizers, and the callbacks on a run's result and  *)
(* events are user code, which may call the host and any run again before  *)
(* it returns; `stack` holds the calls in progress, innermost first, each  *)
(* as the work it still has to do.                                         *)
(*                                                                         *)
(* Runs are numbered in the order of submission.  A run's id is separate:  *)
(* reset forgets the runs and their ids are used again.  Promise callbacks *)
(* are trampolined (module Promise): `jobs` is the continuation queue, 0   *)
(* standing for a user callback and r for the callback that settle_body    *)
(* puts on the promise the body of r returned.                             *)
(***************************************************************************)
EXTENDS Integers, Sequences, FiniteSets

CONSTANTS
  Ids,       \* work ids
  Deadlines, \* the deadlines options may ask for; Never is none
  Awaited,   \* runs with a callback on their result
  Watched,   \* runs with a callback on their events
  Ops,       \* what user code calls
  MaxRuns, MaxCalls, MaxNow    \* bounds

Never == MaxNow + 1

AllOps == {"submit", "submit_child", "run", "run_next", "drain", "cancel",
           "status", "result_state", "result_wait", "result_cancel",
           "settle_source", "on_close", "emit", "start", "stop", "kill",
           "reset"}

ASSUME WorkHostConstants ==
  /\ MaxRuns \in Nat /\ MaxCalls \in Nat /\ MaxNow \in Nat
  /\ Deadlines \subseteq 0..Never
  /\ Ops \subseteq AllOps
  /\ IsFiniteSet(Ids)

Terminal == {"Completed", "Failed", "Cancelled"}
States   == {"Queued", "Running", "Waiting", "Cancelling"} \cup Terminal

VARIABLES
  run,     \* the runs submitted, as a sequence of WorkRunInner records
  started, \* does the host admit work?
  runs,    \* id -> the live run of that id, or 0
  queue,   \* what is queued: the id, and the run its task was submitted for
  stack,   \* the calls in progress, innermost first
  jobs,    \* CONTINUATION_QUEUE
  ran,     \* what WorkHost::run returned last
  now,     \* the monotonic clock
  calls    \* calls made by user code so far

vars == <<run, started, runs, queue, stack, jobs, ran, now, calls>>
host == <<started, runs, queue>>

Runs == DOMAIN run

frame(op, r, arg) == [op |-> op, r |-> r, arg |-> arg]

rest   == Tail(stack)
at(op) == stack # << >> /\ Head(stack).op = op
top    == Head(stack)
frames == {stack[i] : i \in DOMAIN stack}

least(S) == CHOOSE i \in S : \A j \in S : i <= j

closed(r) == run[r].status \in Terminal

(* Promise callbacks are run by the outermost call that settles one. *)
draining == \E f \in frames : f.op = "drain_jobs"

(* User code runs at the top level, in a body, a finalizer or a callback. *)
user_code == stack # << >> => top.op \in {"body", "finalizer", "user"}

(* CURRENT_WORK_CONTEXT: the run of the innermost body or finalizer, or 0. *)
current_work_context ==
  LET scopes == {i \in DOMAIN stack : stack[i].op \in {"body", "finalizer"}}
  IN  IF scopes = {} THEN 0 ELSE stack[least(scopes)].r

(* finish_if_ready keeps the cancellation of r borrowed while it settles a *)
(* cancelled run.                                                          *)
cancellation_borrowed(r) == frame("end_borrow", r, 0) \in frames

accepts_children(r) ==
  /\ ~ run[r].body_done
  /\ ~ run[r].finalizers_started
  /\ ~ run[r].cancellation
  /\ ~ closed(r)

(* Queue a promise callback; outside a drain it is run at once, before the *)
(* calls in `then` go on.                                                  *)
enqueue(job, then) ==
  IF draining THEN jobs' = Append(jobs, job) /\ stack' = then
  ELSE jobs' = <<job>> /\ stack' = <<frame("drain_jobs", 0, 0)>> \o then

(* The callbacks of an event of r that was just added to its log. *)
published(r, then) ==
  IF r \in Watched THEN enqueue(0, then) ELSE stack' = then /\ UNCHANGED jobs

-----------------------------------------------------------------------------
Init ==
  /\ run = << >>
  /\ started = TRUE /\ queue = << >> /\ runs = [id \in Ids |-> 0]
  /\ stack = << >> /\ jobs = << >> /\ ran = FALSE
  /\ now = 0 /\ calls = 0

call(op, r, arg) ==
  /\ op \in Ops /\ user_code
  /\ calls < MaxCalls                                             \* bound
  /\ calls' = calls + 1
  /\ stack' = <<frame(op, r, arg)>> \o stack
  /\ UNCHANGED <<run, host, jobs, ran, now>>

UserCall ==
  \/ /\ Len(run) < MaxRuns                                        \* bound
     /\ \E id \in Ids, detached \in BOOLEAN, d \in Deadlines :
          LET options == [id |-> id, detached |-> detached, deadline |-> d]
          IN  \/ call("submit", current_work_context, options)
              \/ \E r \in Runs : call("submit_child", r, options)
  \/ \E id \in Ids : call("run", 0, id)
  \/ \E op \in {"run_next", "drain", "start", "stop", "kill", "reset"} :
       call(op, 0, 0)
  \/ \E r \in Runs, op \in {"cancel", "status", "result_state", "result_wait",
                            "result_cancel", "on_close", "emit"} :
       call(op, r, 0)
  \/ \E r \in Runs, o \in {"ok", "err"} :
       run[r].source = "Pending" /\ call("settle_source", r, o)

UserReturn ==
  /\ at("user")
  /\ stack' = rest
  /\ UNCHANGED <<run, host, jobs, ran, now, calls>>

-----------------------------------------------------------------------------
(* Submission. *)

resolve_deadline(options, parent) ==
  IF parent # 0 /\ run[parent].deadline < options.deadline
  THEN run[parent].deadline ELSE options.deadline

queued_run(options) ==
  [id |-> options.id, status |-> "Queued", result |-> "Pending",
   parent |-> 0, children |-> {}, cancellation |-> FALSE,
   deadline |-> options.deadline,
   body_done |-> FALSE, body_outcome |-> "none", source |-> "none",
   active_promise |-> FALSE, subscribed |-> FALSE,
   finalizers |-> << >>, finalizers_started |-> FALSE,
   parent_notified |-> FALSE, events |-> <<"Queued">>,
   accepted |-> 0, finalized |-> << >>]   \* ghosts: finalizers taken and run

WorkRunInner(options, parent) ==
  [queued_run(options) EXCEPT
     !.parent = parent, !.deadline = resolve_deadline(options, parent)]

(* submit_with_parent *)
submit ==
  /\ at("submit")
  /\ LET options == top.arg
         parent  == IF options.detached THEN 0 ELSE top.r
         new     == Len(run) + 1
     IN  IF \/ ~ started
            \/ runs[options.id] # 0
            \/ parent # 0 /\ ~ accepts_children(parent)
         THEN stack' = rest /\ UNCHANGED <<run, runs, queue>>
         ELSE /\ run' = Append([r \in Runs |->
                          IF r = parent
                          THEN [run[r] EXCEPT !.children =
                                  {c \in @ : run[c].id # options.id} \cup {new}]
                          ELSE run[r]], WorkRunInner(options, parent))
              /\ runs' = [runs EXCEPT ![options.id] = new]
              /\ queue' = Append(queue, [id |-> options.id, task |-> new])
              /\ stack' = <<frame("status", new, 0)>> \o rest
  /\ UNCHANGED <<started, jobs, ran, now, calls>>

(* WorkContext::submit_child: the token is checked first. *)
submit_child ==
  /\ at("submit_child")
  /\ stack' = <<frame("status", top.r, 0), frame("submit_live", top.r, top.arg)>>
              \o rest
  /\ UNCHANGED <<run, host, jobs, ran, now, calls>>

submit_live ==
  /\ at("submit_live")
  /\ stack' = IF run[top.r].cancellation THEN rest
              ELSE <<frame("submit", top.r, top.arg)>> \o rest
  /\ UNCHANGED <<run, host, jobs, ran, now, calls>>

(* check_deadline, which is also all that work_status and resolve_id do.   *)
check_deadline ==
  /\ at("status")
  /\ stack' = IF run[top.r].deadline <= now
              THEN <<frame("cancel", top.r, 0)>> \o rest ELSE rest
  /\ UNCHANGED <<run, host, jobs, ran, now, calls>>

-----------------------------------------------------------------------------
(* Execution. *)

remove(q, i) == SubSeq(q, 1, i - 1) \o SubSeq(q, i + 1, Len(q))

(* WorkHost::run takes the entry out of the queue before anything else.    *)
(* mark_running looks at the deadline again, which is the same as looking  *)
(* once, later.                                                            *)
host_run ==
  /\ at("run")
  /\ LET index == {i \in DOMAIN queue : queue[i].id = top.arg}
     IN  IF index = {}
         THEN stack' = rest /\ ran' = FALSE /\ UNCHANGED queue
         ELSE LET r == runs[top.arg]
              IN  /\ queue' = remove(queue, least(index))
                  /\ stack' = <<frame("status", r, 0),
                                frame("mark_running", r, 0)>> \o rest
                  /\ UNCHANGED ran
  /\ UNCHANGED <<run, started, runs, jobs, now, calls>>

(* Mutant: the run is started in whatever state it is. *)
mark_running_unchecked ==
  /\ at("mark_running")
  /\ LET r == top.r
     IN  /\ run' = [run EXCEPT ![r].status = "Running",
                               ![r].events = Append(@, "Running")]
         /\ published(r, <<frame("body", r, 0), frame("ran", r, 0)>> \o rest)
  /\ UNCHANGED <<host, ran, now, calls>>

mark_running ==
  /\ at("mark_running")
  /\ LET r == top.r
     IN  IF run[r].status # "Queued"
         THEN stack' = rest /\ ran' = FALSE /\ UNCHANGED <<run, jobs>>
         ELSE /\ run' = [run EXCEPT ![r].status = "Running",
                                    ![r].events = Append(@, "Running")]
              /\ published(r, <<frame("body", r, 0), frame("ran", r, 0)>> \o rest)
              /\ UNCHANGED ran
  /\ UNCHANGED <<host, now, calls>>

(* The body returns a value or an error ... *)
body_returns ==
  /\ at("body")
  /\ \E outcome \in {"ok", "err"} :
       run' = [run EXCEPT ![top.r].body_outcome = outcome,
                          ![top.r].body_done = TRUE]
  /\ stack' = <<frame("finish_if_ready", top.r, 0)>> \o rest
  /\ UNCHANGED <<host, jobs, ran, now, calls>>

(* ... or a promise, which the run then waits for (settle_body). *)
settle_body ==
  /\ at("body")
  /\ LET r == top.r
     IN  /\ run' = [run EXCEPT ![r].active_promise = TRUE,
                               ![r].source = "Pending"]
         /\ stack' = (IF run[r].cancellation
                      THEN <<frame("settle_source", r, "err")>> ELSE << >>)
                     \o <<frame("poll_source", r, 0), frame("subscribe", r, 0),
                          frame("set_nonterminal_state", r, 0),
                          frame("poll_source", r, 0)>> \o rest
  /\ UNCHANGED <<host, jobs, ran, now, calls>>

run_returns ==
  /\ at("ran")
  /\ stack' = rest /\ ran' = TRUE
  /\ UNCHANGED <<run, host, jobs, now, calls>>

(* The promise a body returned is settled, here or by its provider. *)
settle_source ==
  /\ at("settle_source")
  /\ LET r == top.r
     IN  IF run[r].source # "Pending"
         THEN stack' = rest /\ UNCHANGED <<run, jobs>>
         ELSE /\ run' = [run EXCEPT ![r].source = top.arg]
              /\ IF run[r].subscribed THEN enqueue(r, rest)
                 ELSE stack' = rest /\ UNCHANGED jobs
  /\ UNCHANGED <<host, ran, now, calls>>

(* Promise::state on the active promise: it may settle now. *)
poll_source ==
  /\ at("poll_source")
  /\ \/ stack' = rest
     \/ /\ run[top.r].active_promise
        /\ \E o \in {"ok", "err"} :
             stack' = <<frame("settle_source", top.r, o)>> \o rest
  /\ UNCHANGED <<run, host, jobs, ran, now, calls>>

subscribe ==
  /\ at("subscribe")
  /\ LET r == top.r
     IN  IF run[r].source = "Pending"
         THEN /\ run' = [run EXCEPT ![r].subscribed = TRUE]
              /\ stack' = rest /\ UNCHANGED jobs
         ELSE enqueue(r, rest) /\ UNCHANGED run
  /\ UNCHANGED <<host, ran, now, calls>>

(* The callback settle_body subscribed. *)
body_settled ==
  /\ at("body_settled")
  /\ LET r == top.r
     IN  /\ run' = [run EXCEPT ![r].active_promise = FALSE,
                               ![r].body_outcome = run[r].source,
                               ![r].body_done = TRUE]
         /\ stack' = <<frame("finish_if_ready", r, 0)>> \o rest
  /\ UNCHANGED <<host, jobs, ran, now, calls>>

drain_jobs ==
  /\ at("drain_jobs")
  /\ IF jobs = << >> THEN stack' = rest /\ UNCHANGED jobs
     ELSE /\ jobs' = Tail(jobs)
          /\ stack' = <<IF Head(jobs) = 0 THEN frame("user", 0, 0)
                        ELSE frame("body_settled", Head(jobs), 0)>> \o stack
  /\ UNCHANGED <<run, host, ran, now, calls>>

run_next ==
  /\ at("run_next")
  /\ IF queue = << >> THEN stack' = rest /\ ran' = FALSE
     ELSE stack' = <<frame("run", 0, Head(queue).id)>> \o rest /\ UNCHANGED ran
  /\ UNCHANGED <<run, host, jobs, now, calls>>

(* WorkHost::drain: while self.run_next() {} *)
drain ==
  /\ at("drain")
  /\ stack' = <<frame("run_next", 0, 0), frame("drain_more", 0, 0)>> \o rest
  /\ UNCHANGED <<run, host, jobs, ran, now, calls>>

drain_more ==
  /\ at("drain_more")
  /\ stack' = IF ran THEN <<frame("drain", 0, 0)>> \o rest ELSE rest
  /\ UNCHANGED <<run, host, jobs, ran, now, calls>>

-----------------------------------------------------------------------------
(* Progress and waiting, through the hooks of the result promise. *)

result_state ==
  /\ at("result_state")
  /\ stack' = IF run[top.r].result # "Pending" THEN rest
              ELSE <<frame("progress", 0, run[top.r].id)>> \o rest
  /\ UNCHANGED <<run, host, jobs, ran, now, calls>>

(* progress_subscribed_promises: the pending promises with subscribers are *)
(* the results with a callback and the promises that runs wait for.        *)
progress_subscribed ==
  /\ at("progress_subscribed")
  /\ LET results == {r \in Runs \cap Awaited : run[r].result = "Pending"}
         sources == {r \in Runs : run[r].subscribed /\ run[r].source = "Pending"}
     IN  stack' = <<frame("progress_each", 0,
                          (results \X {"result_state"}) \cup (sources \X {"poll_source"}))>>
                  \o rest
  /\ UNCHANGED <<run, host, jobs, ran, now, calls>>

(* Each is polled, in any order, unless a call further down is polling it. *)
progress_each ==
  /\ at("progress_each")
  /\ IF top.arg = {} THEN stack' = rest
     ELSE \E p \in top.arg :
            LET more == <<frame("progress_each", 0, top.arg \ {p})>> \o rest
                entered == frame("leave", p[1], p[2])
            IN  stack' = IF entered \in frames THEN more
                         ELSE <<frame(p[2], p[1], 0), entered>> \o more
  /\ UNCHANGED <<run, host, jobs, ran, now, calls>>

leave ==
  /\ at("leave")
  /\ stack' = rest
  /\ UNCHANGED <<run, host, jobs, ran, now, calls>>

(* Promise::wait_state: poll, then the waiter, then poll again. *)
result_wait ==
  /\ at("result_wait")
  /\ stack' = <<frame("progress_subscribed", 0, 0), frame("result_state", top.r, 0),
                frame("result_waiter", top.r, 0)>> \o rest
  /\ UNCHANGED <<run, host, jobs, ran, now, calls>>

result_waiter ==
  /\ at("result_waiter")
  /\ stack' = IF run[top.r].result # "Pending" THEN rest
              ELSE LET id == run[top.r].id
                   IN  <<frame("progress", 0, id), frame("wait_for", 0, id),
                         frame("progress_subscribed", 0, 0),
                         frame("result_state", top.r, 0)>> \o rest
  /\ UNCHANGED <<run, host, jobs, ran, now, calls>>

(* wait_state on the promise a run waits for; further turns of its loop do *)
(* the same again.                                                         *)
wait_source ==
  /\ at("wait_source")
  /\ stack' = IF run[top.r].active_promise
              THEN <<frame("progress_subscribed", 0, 0),
                     frame("poll_source", top.r, 0)>> \o rest
              ELSE rest
  /\ UNCHANGED <<run, host, jobs, ran, now, calls>>

wait_for ==
  /\ at("wait_for")
  /\ LET r == runs[top.arg]
     IN  stack' = IF r = 0 THEN rest
                  ELSE <<frame("status", r, 0), frame("wait_source", r, 0),
                         frame("progress", 0, top.arg)>> \o rest
  /\ UNCHANGED <<run, host, jobs, ran, now, calls>>

progress ==
  /\ at("progress")
  /\ stack' = <<frame("run", 0, top.arg), frame("progress_live", 0, top.arg)>>
              \o rest
  /\ UNCHANGED <<run, host, jobs, ran, now, calls>>

progress_live ==
  /\ at("progress_live")
  /\ LET r == runs[top.arg]
     IN  stack' = IF r = 0 THEN rest
                  ELSE <<frame("status", r, 0), frame("poll_source", r, 0),
                         frame("progress_loop", r, 0)>> \o rest
  /\ UNCHANGED <<run, host, jobs, ran, now, calls>>

progress_loop ==
  /\ at("progress_loop")
  /\ LET r == top.r
     IN  stack' = IF closed(r)
                  THEN <<frame("progress_end", r, 0)>> \o rest
                  ELSE <<frame("run_next", 0, 0), frame("progress_more", r, 0)>>
                       \o rest
  /\ UNCHANGED <<run, host, jobs, ran, now, calls>>

progress_more ==
  /\ at("progress_more")
  /\ stack' = <<frame(IF ran THEN "progress_loop" ELSE "progress_end", top.r, 0)>>
              \o rest
  /\ UNCHANGED <<run, host, jobs, ran, now, calls>>

progress_end ==
  /\ at("progress_end")
  /\ stack' = <<frame("poll_source", top.r, 0), frame("status", top.r, 0)>>
              \o rest
  /\ UNCHANGED <<run, host, jobs, ran, now, calls>>

-----------------------------------------------------------------------------
(* Cancellation. *)

(* A RefCell borrowed twice panics, which ends the program. *)
panic == stack' = <<frame("panic", 0, 0)>>

cancel ==
  /\ at("cancel")
  /\ LET r == top.r
     IN  IF cancellation_borrowed(r)
         THEN panic /\ UNCHANGED <<run, jobs>>
         ELSE IF run[r].cancellation \/ closed(r)
         THEN stack' = rest /\ UNCHANGED <<run, jobs>>
         ELSE /\ run' = [run EXCEPT ![r].cancellation = TRUE,
                                    ![r].status = "Cancelling",
                                    ![r].events = Append(@, "Cancelling")]
              /\ published(r, <<frame("cancel_rest", r, run[r].status)>> \o rest)
  /\ UNCHANGED <<host, ran, now, calls>>

(* queue.retain: the entries of other ids stay, in order. *)
without(q, id) ==
  LET kept[n \in 0..Len(q)] ==
        IF n = 0 THEN << >>
        ELSE IF q[n].id # id THEN Append(kept[n - 1], q[n])
        ELSE kept[n - 1]
  IN  kept[Len(q)]

(* Mutant: the entry of a cancelled run stays in the queue. *)
cancel_rest_keeps_entry ==
  /\ at("cancel_rest")
  /\ LET r == top.r
     IN  /\ run' = [run EXCEPT ![r].body_done = @ \/ top.arg = "Queued"]
         /\ stack' = (IF run[r].active_promise
                      THEN <<frame("settle_source", r, "err")>> ELSE << >>)
                     \o <<frame("cancel_children", r, 0)>> \o rest
  /\ UNCHANGED <<host, jobs, ran, now, calls>>

(* Mutant: the promise a cancelled run waits for is left pending. *)
cancel_rest_keeps_waiting ==
  /\ at("cancel_rest")
  /\ LET r == top.r
         was_queued == top.arg = "Queued"
     IN  /\ queue' = IF was_queued THEN without(queue, run[r].id) ELSE queue
         /\ run' = [run EXCEPT ![r].body_done = @ \/ was_queued]
         /\ stack' = <<frame("cancel_children", r, 0)>> \o rest
  /\ UNCHANGED <<started, runs, jobs, ran, now, calls>>

(* After the cancelling event: leave the queue, cancel the active promise. *)
cancel_rest ==
  /\ at("cancel_rest")
  /\ LET r == top.r
         was_queued == top.arg = "Queued"
     IN  /\ queue' = IF was_queued THEN without(queue, run[r].id) ELSE queue
         /\ run' = [run EXCEPT ![r].body_done = @ \/ was_queued]
         /\ stack' = (IF run[r].active_promise
                      THEN <<frame("settle_source", r, "err")>> ELSE << >>)
                     \o <<frame("cancel_children", r, 0)>> \o rest
  /\ UNCHANGED <<started, runs, jobs, ran, now, calls>>

(* Mutant: children are not told. *)
cancel_run_only ==
  /\ at("cancel_children")
  /\ stack' = <<frame("finish_if_ready", top.r, 0)>> \o rest
  /\ UNCHANGED <<run, host, jobs, ran, now, calls>>

cancel_children ==
  /\ at("cancel_children")
  /\ stack' = <<frame("cancel_each", 0, run[top.r].children),
                frame("finish_if_ready", top.r, 0)>> \o rest
  /\ UNCHANGED <<run, host, jobs, ran, now, calls>>

(* Cancel the runs of a set in the order of a HashMap, which is any. *)
cancel_each ==
  /\ at("cancel_each")
  /\ IF top.arg = {} THEN stack' = rest
     ELSE \E r \in top.arg :
            stack' = <<frame("cancel", r, 0),
                       frame("cancel_each", 0, top.arg \ {r})>> \o rest
  /\ UNCHANGED <<run, host, jobs, ran, now, calls>>

(* Promise::cancel on the result: its hook cancels the run. *)
result_cancel ==
  /\ at("result_cancel")
  /\ stack' = IF run[top.r].result # "Pending" THEN rest
              ELSE <<frame("cancel", top.r, 0),
                     frame("result_rejected", top.r, 0)>> \o rest
  /\ UNCHANGED <<run, host, jobs, ran, now, calls>>

(* The callbacks of the result of r, which is settled in this step. *)
result_settled(r, then) ==
  IF run[r].result = "Pending" /\ r \in Awaited THEN enqueue(0, then)
  ELSE stack' = then /\ UNCHANGED jobs

result_rejected ==
  /\ at("result_rejected")
  /\ LET r == top.r
     IN  /\ run' = [run EXCEPT ![r].result = IF @ = "Pending" THEN "Rejected" ELSE @]
         /\ result_settled(r, rest)
  /\ UNCHANGED <<host, ran, now, calls>>

-----------------------------------------------------------------------------
(* Closing a run. *)

set_nonterminal_state ==
  /\ at("set_nonterminal_state")
  /\ LET r == top.r
         state   == IF run[r].cancellation THEN "Cancelling" ELSE "Waiting"
         changed == ~ closed(r) /\ run[r].status # state
     IN  IF ~ changed THEN stack' = rest /\ UNCHANGED <<run, jobs>>
         ELSE IF state = "Waiting"
         THEN /\ run' = [run EXCEPT ![r].status = state,
                                    ![r].events = Append(@, state)]
              /\ published(r, rest)
         ELSE /\ run' = [run EXCEPT ![r].status = state]
              /\ stack' = rest /\ UNCHANGED jobs
  /\ UNCHANGED <<host, ran, now, calls>>

(* Mutant: the scope closes with its body, whatever its children do. *)
finish_with_body ==
  /\ at("finish_if_ready")
  /\ LET r == top.r
     IN  IF ~ run[r].body_done \/ run[r].finalizers_started
         THEN stack' = rest /\ UNCHANGED run
         ELSE /\ run' = [run EXCEPT ![r].finalizers_started = TRUE,
                                    ![r].finalizers = << >>]
              /\ stack' = <<frame("finalize", r, [left |-> run[r].finalizers,
                                                  error |-> FALSE])>> \o rest
  /\ UNCHANGED <<host, jobs, ran, now, calls>>

finish_if_ready ==
  /\ at("finish_if_ready")
  /\ LET r == top.r
     IN  IF ~ run[r].body_done
         THEN stack' = rest /\ UNCHANGED run
         ELSE IF run[r].children # {}
         THEN /\ stack' = <<frame("set_nonterminal_state", r, 0)>> \o rest
              /\ UNCHANGED run
         ELSE IF run[r].finalizers_started
         THEN stack' = rest /\ UNCHANGED run
         ELSE /\ run' = [run EXCEPT ![r].finalizers_started = TRUE,
                                    ![r].finalizers = << >>]
              /\ stack' = <<frame("finalize", r, [left |-> run[r].finalizers,
                                                  error |-> FALSE])>> \o rest
  /\ UNCHANGED <<host, jobs, ran, now, calls>>

(* Mutant: a body that finished anyway outweighs its cancellation. *)
finalize_by_outcome ==
  /\ at("finalize")
  /\ LET r    == top.r
         left == top.arg.left
     IN  IF left # << >>
         THEN /\ run' = [run EXCEPT ![r].finalized = Append(@, left[Len(left)])]
              /\ stack' = <<frame("finalizer", r, 0),
                            frame("finalize", r,
                                  [top.arg EXCEPT !.left = SubSeq(left, 1, Len(left) - 1)])>>
                          \o rest
         ELSE /\ stack' = <<frame("settle_terminal", r,
                                 IF ~ top.arg.error /\ run[r].body_outcome = "ok"
                                 THEN "Completed" ELSE "Failed")>> \o rest
              /\ UNCHANGED run
  /\ UNCHANGED <<host, jobs, ran, now, calls>>

(* The next finalizer, last registered first; then the terminal state. *)
finalize ==
  /\ at("finalize")
  /\ LET r    == top.r
         left == top.arg.left
     IN  IF left # << >>
         THEN /\ run' = [run EXCEPT ![r].finalized = Append(@, left[Len(left)])]
              /\ stack' = <<frame("finalizer", r, 0),
                            frame("finalize", r,
                                  [top.arg EXCEPT !.left = SubSeq(left, 1, Len(left) - 1)])>>
                          \o rest
         ELSE /\ stack' =
                   (IF run[r].cancellation
                    THEN <<frame("settle_terminal", r, "Cancelled"),
                           frame("end_borrow", r, 0)>>
                    ELSE <<frame("settle_terminal", r,
                                 IF ~ top.arg.error /\ run[r].body_outcome = "ok"
                                 THEN "Completed" ELSE "Failed")>>) \o rest
              /\ UNCHANGED run
  /\ UNCHANGED <<host, jobs, ran, now, calls>>

finalizer_returns ==
  /\ at("finalizer")
  /\ \E error \in BOOLEAN :
       stack' = <<[rest[1] EXCEPT !.arg.error = @ \/ error]>> \o Tail(rest)
  /\ UNCHANGED <<run, host, jobs, ran, now, calls>>

end_borrow ==
  /\ at("end_borrow")
  /\ stack' = rest
  /\ UNCHANGED <<run, host, jobs, ran, now, calls>>

settle_terminal ==
  /\ at("settle_terminal")
  /\ LET r == top.r
         outcome == IF top.arg = "Completed" THEN "Fulfilled" ELSE "Rejected"
     IN  IF closed(r) THEN stack' = rest /\ UNCHANGED <<run, jobs>>
         ELSE /\ run' = [run EXCEPT ![r].status = top.arg,
                                    ![r].result = IF @ = "Pending"
                                                  THEN outcome ELSE @]
              /\ result_settled(r, <<frame("closing", r, 0)>> \o rest)
  /\ UNCHANGED <<host, ran, now, calls>>

(* The terminal event closes the log, then the parent is told. *)
closing ==
  /\ at("closing")
  /\ run' = [run EXCEPT ![top.r].events = Append(@, run[top.r].status)]
  /\ published(top.r, <<frame("notify_parent", top.r, 0)>> \o rest)
  /\ UNCHANGED <<host, ran, now, calls>>

(* Mutant: the parent counts down but does not look whether it is done. *)
notify_parent_counts_only ==
  /\ at("notify_parent")
  /\ LET r == top.r
         p == run[r].parent
     IN  run' = IF p = 0 THEN [run EXCEPT ![r].parent_notified = TRUE]
                ELSE [run EXCEPT ![r].parent_notified = TRUE,
                                 ![p].children = {c \in @ : run[c].id # run[r].id}]
  /\ stack' = rest
  /\ UNCHANGED <<host, jobs, ran, now, calls>>

notify_parent ==
  /\ at("notify_parent")
  /\ LET r == top.r
         p == run[r].parent
     IN  IF run[r].parent_notified \/ p = 0
         THEN /\ run' = [run EXCEPT ![r].parent_notified = TRUE]
              /\ stack' = rest
         ELSE /\ run' = [run EXCEPT ![r].parent_notified = TRUE,
                                    ![p].children =
                                      {c \in @ : run[c].id # run[r].id}]
              /\ stack' = <<frame("finish_if_ready", p, 0)>> \o rest
  /\ UNCHANGED <<host, jobs, ran, now, calls>>

(* WorkContext::on_close *)
register_finalizer ==
  /\ at("on_close")
  /\ LET r == top.r
     IN  run' = IF run[r].finalizers_started \/ closed(r) THEN run
                ELSE [run EXCEPT ![r].accepted = @ + 1,
                        ![r].finalizers = Append(@, run[r].accepted + 1)]
  /\ stack' = rest
  /\ UNCHANGED <<host, jobs, ran, now, calls>>

(* Mutant: a closed run still takes events. *)
emit_always ==
  /\ at("emit")
  /\ run' = [run EXCEPT ![top.r].events = Append(@, "domain")]
  /\ published(top.r, rest)
  /\ UNCHANGED <<host, ran, now, calls>>

emit ==
  /\ at("emit")
  /\ LET r == top.r
     IN  IF closed(r) THEN stack' = rest /\ UNCHANGED <<run, jobs>>
         ELSE /\ run' = [run EXCEPT ![r].events = Append(@, "domain")]
              /\ published(r, rest)
  /\ UNCHANGED <<host, ran, now, calls>>

-----------------------------------------------------------------------------
(* The host's life cycle. *)

start ==
  /\ at("start")
  /\ started' = TRUE /\ stack' = rest
  /\ UNCHANGED <<run, runs, queue, jobs, ran, now, calls>>

stop ==
  /\ at("stop")
  /\ started' = FALSE /\ stack' = rest
  /\ UNCHANGED <<run, runs, queue, jobs, ran, now, calls>>

kill ==
  /\ at("kill")
  /\ started' = FALSE
  /\ stack' = <<frame("cancel_each", 0, {runs[id] : id \in Ids} \ {0})>> \o rest
  /\ UNCHANGED <<run, runs, queue, jobs, ran, now, calls>>

reset ==
  /\ at("reset")
  /\ stack' = <<frame("kill", 0, 0), frame("clear", 0, 0)>> \o rest
  /\ UNCHANGED <<run, host, jobs, ran, now, calls>>

clear ==
  /\ at("clear")
  /\ queue' = << >> /\ runs' = [id \in Ids |-> 0] /\ started' = TRUE
  /\ stack' = rest
  /\ UNCHANGED <<run, jobs, ran, now, calls>>

Tick ==
  /\ now < MaxNow                                                 \* bound
  /\ now' = now + 1
  /\ UNCHANGED <<run, host, stack, jobs, ran, calls>>

(* The evaluator executes the innermost call. *)
Step ==
  \/ UserReturn \/ submit \/ submit_child \/ submit_live \/ check_deadline
  \/ host_run \/ mark_running \/ body_returns \/ settle_body \/ run_returns
  \/ settle_source \/ poll_source \/ subscribe \/ body_settled \/ drain_jobs
  \/ run_next \/ drain \/ drain_more
  \/ result_state \/ progress_subscribed \/ progress_each \/ leave
  \/ result_wait \/ result_waiter \/ wait_source \/ wait_for \/ progress
  \/ progress_live \/ progress_loop \/ progress_more \/ progress_end
  \/ cancel \/ cancel_rest \/ cancel_children \/ cancel_each
  \/ result_cancel \/ result_rejected
  \/ set_nonterminal_state \/ finish_if_ready \/ finalize \/ finalizer_returns
  \/ end_borrow \/ settle_terminal \/ closing \/ notify_parent
  \/ register_finalizer \/ emit
  \/ start \/ stop \/ kill \/ reset \/ clear

Next == UserCall \/ Step \/ Tick

Spec == Init /\ [][Next]_vars

(* Running code keeps running, and user code returns. *)
FairSpec == Spec /\ WF_vars(Step)

-----------------------------------------------------------------------------
rank(status) ==
  CASE status = "Queued"     -> 0
    [] status = "Running"    -> 1
    [] status = "Waiting"    -> 2
    [] status = "Cancelling" -> 3
    [] OTHER                 -> 4

panicked == at("panic")

(* The fields of the runs and of the host hold what their Rust types       *)
(* allow, and the parent and children links of two runs agree.             *)
TypeOK ==
  /\ \A r \in Runs :
       /\ run[r].id \in Ids
       /\ run[r].status \in States
       /\ run[r].result \in {"Pending", "Fulfilled", "Rejected"}
       /\ run[r].source \in {"none", "Pending", "ok", "err"}
       /\ run[r].body_outcome \in {"none", "ok", "err"}
       /\ run[r].parent \in 0..(r - 1)
       /\ run[r].children \subseteq {c \in Runs : run[c].parent = r}
       /\ run[r].deadline \in 0..Never
  /\ started \in BOOLEAN /\ ran \in BOOLEAN
  /\ runs \in [Ids -> 0..Len(run)]
  /\ queue \in Seq([id: Ids, task: Runs])
  /\ jobs \in Seq(0..Len(run))
  /\ now \in 0..MaxNow /\ calls \in 0..MaxCalls

(* A scope closes after everything in it: when a run is terminal its       *)
(* attached children are, and each finalizer it accepted has run exactly   *)
(* once, last registered first (finish_if_ready, register_finalizer).      *)
ScopeClosesLast ==
  \A r \in Runs : closed(r) =>
    /\ \A c \in Runs : run[c].parent = r => closed(c)
    /\ run[r].finalized = [i \in 1..run[r].accepted |-> run[r].accepted + 1 - i]

(* Cancelling takes precedence and is seen consistently: a closed run is   *)
(* Cancelled exactly when it was cancelled, and its result promise agrees, *)
(* even when the result itself was cancelled first (finish_if_ready and    *)
(* the cancel hook of install_progress_hooks).                             *)
OutcomeAgrees ==
  \A r \in Runs :
    /\ closed(r) => (run[r].cancellation <=> run[r].status = "Cancelled")
    /\ closed(r) => run[r].result = IF run[r].status = "Completed"
                                    THEN "Fulfilled" ELSE "Rejected"
    /\ ~ closed(r) /\ run[r].result # "Pending" => run[r].cancellation

(* The queue refers to live runs: an entry's id resolves to the very run   *)
(* its task was submitted for, no run is queued twice, and an entry whose  *)
(* run is no longer Queued is one that a cancel in progress is about to    *)
(* take out.  So run's expect never fails and no task runs in the scope of *)
(* another run, though reset reuses ids.                                   *)
QueueSound ==
  /\ \A i \in DOMAIN queue :
       LET r == queue[i].task
       IN  /\ runs[queue[i].id] = r
           /\ run[r].status = "Queued"
              \/ frame("cancel_rest", r, "Queued") \in frames \/ panicked
  /\ \A i, j \in DOMAIN queue : queue[i].id = queue[j].id => i = j

(* The event log of a run tells its history, and with it that the state is *)
(* "monotonic" (types.rs:27): states only move forward, the terminal event *)
(* is the last one and stays the state of the run, and it is there as soon *)
(* as the call that closed the run is over (publish_event and emit).       *)
EventsTellHistory ==
  \A r \in Runs :
    LET log  == run[r].events
        last == log[Len(log)]
    IN  /\ \A i, j \in DOMAIN log :
             i < j /\ log[i] # "domain" /\ log[j] # "domain" =>
               rank(log[i]) < rank(log[j])
        /\ \A i \in 1..(Len(log) - 1) : log[i] \notin Terminal
        /\ last \in Terminal => last = run[r].status
        /\ closed(r) /\ stack = << >> => last = run[r].status

(* When no call is in progress nothing that could be closed is left open:  *)
(* a run whose body is done and whose children are closed is terminal, and *)
(* no closed child is still counted (finish_if_ready is called after every *)
(* change that may complete a run).                                        *)
NothingLeftToFinish ==
  stack = << >> =>
    \A r \in Runs :
      /\ run[r].body_done /\ run[r].children = {} => closed(r)
      /\ \A c \in run[r].children : ~ closed(c)

(* Cancellation flows down: when no call is in progress, the attached      *)
(* children of a cancelled run are cancelled or closed.                    *)
CancellationFlowsDown ==
  stack = << >> =>
    \A r, c \in Runs :
      run[r].cancellation /\ run[c].parent = r => run[c].cancellation \/ closed(c)

(* Cancelling queued work prevents its executor from starting, also when   *)
(* the cancel comes from a deadline or a callback after run took the entry *)
(* out of the queue (mark_running).                                        *)
CancelledNeverStarts ==
  \A f \in frames : f.op = "body" =>
    \E i \in DOMAIN run[f.r].events :
      /\ run[f.r].events[i] = "Running"
      /\ \A j \in 1..(i - 1) : run[f.r].events[j] # "Cancelling"

(* Cancelling a run a second time, from wherever, returns: it does not     *)
(* panic.                                                                  *)
CancelReturns == ~ panicked

(* drain returns when nothing runnable is queued any more. *)
DrainEmptiesQueue ==
  [][drain_more /\ ~ ran => queue = << >>]_vars

(* A cancelled run reaches a terminal state. *)
CancelledRunsClose ==
  \A r \in 1..MaxRuns :
    (r \in Runs /\ run[r].cancellation) ~> (panicked \/ (r \in Runs /\ closed(r)))
=============================================================================
