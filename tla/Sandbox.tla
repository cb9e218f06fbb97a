------------------------------ MODULE Sandbox ------------------------------
(***************************************************************************)
(* The in-process sandbox provider (runtime/sandbox.rs): for every sandbox *)
(* a worker thread that takes commands from a channel, and a record shared *)
(* with the Kernel thread under a mutex.  A step is what a thread does     *)
(* under one lock, or one operation on a channel.  The Kernel's side of    *)
(* the interface is written as operators here and used by SessionKernel.   *)
(***************************************************************************)
EXTENDS Naturals, Sequences, FiniteSets

CONSTANTS
  Sandboxes,        \* sandbox ids
  MaxEvaluations    \* bound on the evaluations allocated in one sandbox

ASSUME SandboxConstants ==
  /\ Sandboxes \subseteq Nat \ {0}
  /\ MaxEvaluations \in Nat

Evaluations == 1 .. MaxEvaluations

(* Results of run_controlled with the size limit applied: "failed" stands for
   every error that is not a cancellation (timeout, limit, transfer, guest). *)
Outcomes == {"ok", "cancelled", "failed"}
Replies  == Outcomes \cup {"none", "pending", "dropped"}

None  == 0   \* no evaluation
Close == 0   \* SandboxCommand::Close in a channel of evaluation ids

VARIABLES
  shared,     \* Sandboxes -> [state, active, error]: WorkerState
  flag,       \* Sandboxes -> evaluations whose AtomicBool is set
  asked,      \* Sandboxes -> evaluations whose cancellation was asked for, a ghost
  commands,   \* Sandboxes -> the command channel
  worker,     \* Sandboxes -> [at, evaluation, result]: the worker thread
  replies,    \* Sandboxes -> Evaluations -> what the reply channel holds
  senders     \* sandboxes whose command sender the Kernel still owns

sandboxVars == <<shared, flag, asked, commands, worker, replies, senders>>

States == {"open", "running", "cancelling", "cancelled", "failed"}
WorkerAt == {"absent", "recv", "run", "poll", "finish", "reply", "done", "panicked"}

SharedStates == [state: States, active: Evaluations \cup {None}, error: BOOLEAN]
WorkerStates == [at: WorkerAt, evaluation: Evaluations \cup {None}, result: Outcomes \cup {"none"}]

SandboxTypeOK ==
  /\ shared \in [Sandboxes -> SharedStates]
  /\ flag \in [Sandboxes -> SUBSET Evaluations]
  /\ asked \in [Sandboxes -> SUBSET Evaluations]
  /\ commands \in [Sandboxes -> Seq(Evaluations \cup {Close})]
  /\ worker \in [Sandboxes -> WorkerStates]
  /\ replies \in [Sandboxes -> [Evaluations -> Replies]]
  /\ senders \subseteq Sandboxes

SandboxInit ==
  /\ shared = [b \in Sandboxes |-> [state |-> "open", active |-> None, error |-> FALSE]]
  /\ flag = [b \in Sandboxes |-> {}]
  /\ asked = [b \in Sandboxes |-> {}]
  /\ commands = [b \in Sandboxes |-> <<>>]
  /\ worker = [b \in Sandboxes |->
                 [at |-> "absent", evaluation |-> None, result |-> "none"]]
  /\ replies = [b \in Sandboxes |-> [e \in Evaluations |-> "none"]]
  /\ senders = {}

----------------------------------------------------------------------------
(* The Kernel's side *)

(* InProcessSandbox::open: the worker thread is started. *)
Open(b) ==
  /\ worker' = [worker EXCEPT ![b].at = "recv"]
  /\ senders' = senders \cup {b}
  /\ UNCHANGED <<shared, flag, asked, commands, replies>>

(* The test of begin, under the lock. *)
CanBegin(b) == shared[b].state = "open" /\ shared[b].active = None

(* eval and call: begin, then the command is sent.  Between the two the worker
   can only send an earlier reply, so they are one step. *)
Begin(b, e) ==
  /\ shared' = [shared EXCEPT ![b] = [state |-> "running", active |-> e, error |-> FALSE]]
  /\ commands' = [commands EXCEPT ![b] = Append(@, e)]
  /\ replies' = [replies EXCEPT ![b][e] = "pending"]
  /\ UNCHANGED <<flag, asked, worker, senders>>

(* Mutant: cancel takes the active evaluation, whatever id was asked for. *)
Cancel_active(b, e) ==
  /\ asked' = [asked EXCEPT ![b] = @ \cup ({e} \ {None})]
  /\ IF e # None /\ shared[b].active # None
     THEN /\ flag' = [flag EXCEPT ![b] = @ \cup {shared[b].active}]
          /\ shared' = [shared EXCEPT ![b].state = "cancelling"]
     ELSE UNCHANGED <<flag, shared>>
  /\ UNCHANGED <<commands, worker, replies, senders>>

(* cancel, under the lock: only the evaluation that is active is told. *)
Cancel(b, e) ==
  /\ asked' = [asked EXCEPT ![b] = @ \cup ({e} \ {None})]
  /\ IF e # None /\ shared[b].active = e
     THEN /\ flag' = [flag EXCEPT ![b] = @ \cup {e}]
          /\ shared' = [shared EXCEPT ![b].state = "cancelling"]
     ELSE UNCHANGED <<flag, shared>>
  /\ UNCHANGED <<commands, worker, replies, senders>>

(* Mutant: close trusts the cancellation to end a busy worker. *)
SendClose_if_idle(b) ==
  /\ commands' = IF shared[b].active # None \/ worker[b].at = "panicked" THEN commands
                 ELSE [commands EXCEPT ![b] = Append(@, Close)]
  /\ UNCHANGED <<shared, flag, asked, worker, replies, senders>>

(* close sends the last command; a worker that panicked no longer receives. *)
SendClose(b) ==
  /\ commands' = IF worker[b].at = "panicked" THEN commands
                 ELSE [commands EXCEPT ![b] = Append(@, Close)]
  /\ UNCHANGED <<shared, flag, asked, worker, replies, senders>>

(* worker.join() returns. *)
Joinable(b) == worker[b].at \in {"done", "panicked"}

----------------------------------------------------------------------------
(* The worker thread *)

Idle == [at |-> "recv", evaluation |-> None, result |-> "none"]

(* recv at the head of the loop; Close leaves the loop and releases the session. *)
Receive(b) ==
  /\ worker[b].at = "recv"
  /\ commands[b] # <<>>
  /\ commands' = [commands EXCEPT ![b] = Tail(@)]
  /\ worker' = [worker EXCEPT ![b] =
                  IF Head(commands[b]) = Close
                  THEN [Idle EXCEPT !.at = "done"]
                  ELSE [Idle EXCEPT !.at = "run", !.evaluation = Head(commands[b])]]
  /\ UNCHANGED <<shared, flag, asked, replies, senders>>

(* recv fails once the channel is empty and its sender dropped. *)
Disconnected(b) ==
  /\ worker[b].at = "recv"
  /\ commands[b] = <<>>
  /\ b \notin senders
  /\ worker' = [worker EXCEPT ![b].at = "done"]
  /\ UNCHANGED <<shared, flag, asked, commands, replies, senders>>

(* Guest code runs between two polls of the interrupt closure, and is about to
   evaluate its next form.  What it does in between polls nothing: a primitive
   such as deref-timeout waits for as long as the guest says. *)
NextForm(b) ==
  /\ worker[b].at = "run"
  /\ worker' = [worker EXCEPT ![b].at = "poll"]
  /\ UNCHANGED <<shared, flag, asked, commands, replies, senders>>

(* check_evaluation_interrupt finds neither the flag set nor the deadline
   passed, and the form is evaluated. *)
Poll(b) ==
  /\ worker[b].at = "poll"
  /\ worker[b].evaluation \notin flag[b]
  /\ worker' = [worker EXCEPT ![b].at = "run"]
  /\ UNCHANGED <<shared, flag, asked, commands, replies, senders>>

(* The closure reports the flag or else the deadline, as an error of the guest.
   Every later form of a handler raises it again, so that the evaluation ends;
   a handler without a form catches it, and the result is then another one. *)
Interrupted(b) ==
  /\ worker[b].at = "poll"
  /\ \E r \in Outcomes :
       /\ r = "cancelled" => worker[b].evaluation \in flag[b]
       /\ worker' = [worker EXCEPT ![b].at = "finish", ![b].result = r]
  /\ UNCHANGED <<shared, flag, asked, commands, replies, senders>>

(* The guest ends by itself.  A flag set since the last poll is never seen; and
   errors are told apart by their text, so that a guest error which contains
   the text of the interrupt counts as a cancellation nobody asked for. *)
RunControlled(b) ==
  /\ worker[b].at = "run"
  /\ \E r \in Outcomes :
       worker' = [worker EXCEPT ![b].at = "finish", ![b].result = r]
  /\ UNCHANGED <<shared, flag, asked, commands, replies, senders>>

(* The evaluator panics: the thread unwinds and drops its ends of the channels. *)
WorkerPanics(b) ==
  /\ worker[b].at = "run"
  /\ worker' = [worker EXCEPT ![b].at = "panicked"]
  /\ replies' = [replies EXCEPT ![b][worker[b].evaluation] = "dropped"]
  /\ commands' = [commands EXCEPT ![b] = <<>>]
  /\ UNCHANGED <<shared, flag, asked, senders>>

(* Mutant: a cancelled evaluation leaves no last error. *)
FinishEvaluation_no_error(b) ==
  /\ worker[b].at = "finish"
  /\ worker' = [worker EXCEPT ![b].at = "reply"]
  /\ shared' =
       IF shared[b].active # worker[b].evaluation THEN shared
       ELSE [shared EXCEPT ![b] =
              [state  |-> CASE worker[b].result = "ok" -> "open"
                            [] worker[b].result = "cancelled" -> "cancelled"
                            [] OTHER -> "failed",
               active |-> None,
               error  |-> worker[b].result = "failed"]]
  /\ UNCHANGED <<flag, asked, commands, replies, senders>>

(* finish_evaluation, under the lock. *)
FinishEvaluation(b) ==
  /\ worker[b].at = "finish"
  /\ worker' = [worker EXCEPT ![b].at = "reply"]
  /\ shared' =
       IF shared[b].active # worker[b].evaluation THEN shared
       ELSE [shared EXCEPT ![b] =
              CASE worker[b].result = "ok" ->
                     [state |-> "open", active |-> None, error |-> shared[b].error]
                [] worker[b].result = "cancelled" ->
                     [state |-> "cancelled", active |-> None, error |-> TRUE]
                [] OTHER ->
                     [state |-> "failed", active |-> None, error |-> TRUE]]
  /\ UNCHANGED <<flag, asked, commands, replies, senders>>

(* reply.send: only now does a waiter see the result. *)
Reply(b) ==
  /\ worker[b].at = "reply"
  /\ replies' = [replies EXCEPT ![b][worker[b].evaluation] = worker[b].result]
  /\ worker' = [worker EXCEPT ![b] = Idle]
  /\ UNCHANGED <<shared, flag, asked, commands, senders>>

Worker(b) ==
  \/ Receive(b)
  \/ Disconnected(b)
  \/ NextForm(b)
  \/ Poll(b)
  \/ Interrupted(b)
  \/ RunControlled(b)
  \/ WorkerPanics(b)
  \/ FinishEvaluation(b)
  \/ Reply(b)

----------------------------------------------------------------------------
(* What a sandbox promises, read off the state of both threads. *)

PhaseOf(b) ==
  IF worker[b].at \in {"done", "panicked"} \/ shared[b].state \in {"cancelled", "failed"}
  THEN "ended"
  ELSE IF shared[b].state = "open" THEN "open" ELSE "busy"

OutcomeOf(b) ==
  [e \in Evaluations |->
     IF replies[b][e] \notin {"none", "pending"} THEN replies[b][e]
     ELSE IF worker[b].at = "reply" /\ worker[b].evaluation = e THEN worker[b].result
     ELSE "none"]

AcceptedBy(b) == {e \in Evaluations : replies[b][e] # "none"}
AnsweredBy(b) == {e \in Evaluations : replies[b][e] \notin {"none", "pending"}}

Phase    == [b \in Sandboxes |-> PhaseOf(b)]
Current  == [b \in Sandboxes |-> shared[b].active]
Accepted == [b \in Sandboxes |-> AcceptedBy(b)]
Outcome  == [b \in Sandboxes |-> OutcomeOf(b)]
Answered == [b \in Sandboxes |-> AnsweredBy(b)]

Contract == INSTANCE SandboxContract WITH
  phase <- Phase, current <- Current, accepted <- Accepted, asked <- asked, granted <- flag,
  outcome <- Outcome, answered <- Answered

============================================================================
