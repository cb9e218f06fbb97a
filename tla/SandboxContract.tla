-------------------------- MODULE SandboxContract --------------------------
(***************************************************************************)
(* What every sandbox promises to the Kernel and to whoever waits for a    *)
(* result, without threads, locks or channels: the contract documented on  *)
(* SandboxInstance and SandboxPending in runtime/sandbox.rs.  One          *)
(* evaluation at a time; every accepted evaluation has one outcome and one *)
(* answer, answers come in the order of acceptance; a cancellation reaches *)
(* the evaluation it was asked for, and only while that is in progress;    *)
(* after any outcome but "ok" nothing is accepted again, and retiring a    *)
(* sandbox takes no answer away.                                           *)
(***************************************************************************)
EXTENDS Naturals, FiniteSets

CONSTANTS
  Sandboxes,     \* sandbox ids
  Evaluations    \* evaluation ids of a sandbox, positive numbers

Results == {"ok", "cancelled", "failed", "dropped"}

VARIABLES
  phase,      \* Sandboxes -> "open", "busy" or "ended"
  current,    \* Sandboxes -> the evaluation in progress, 0 when there is none
  accepted,   \* Sandboxes -> evaluations accepted so far
  asked,      \* Sandboxes -> evaluations whose cancellation was asked for
  granted,    \* Sandboxes -> evaluations whose cancellation was granted
  outcome,    \* Sandboxes -> Evaluations -> Results or "none"
  answered    \* Sandboxes -> evaluations whose answer has been sent

contractVars == <<phase, current, accepted, asked, granted, outcome, answered>>

Init ==
  /\ phase = [b \in Sandboxes |-> "open"]
  /\ current = [b \in Sandboxes |-> 0]
  /\ accepted = [b \in Sandboxes |-> {}]
  /\ asked = [b \in Sandboxes |-> {}]
  /\ granted = [b \in Sandboxes |-> {}]
  /\ outcome = [b \in Sandboxes |-> [e \in Evaluations |-> "none"]]
  /\ answered = [b \in Sandboxes |-> {}]

(* An evaluation with a new, larger id begins. *)
Accept(b, e) ==
  /\ phase[b] = "open"
  /\ \A f \in accepted[b] : f < e
  /\ phase' = [phase EXCEPT ![b] = "busy"]
  /\ current' = [current EXCEPT ![b] = e]
  /\ accepted' = [accepted EXCEPT ![b] = @ \cup {e}]
  /\ UNCHANGED <<asked, granted, outcome, answered>>

(* A cancellation is asked for, late or early: the evaluation in progress gets
   it if it is the one named, and no other ever does. *)
Ask(b, e) ==
  /\ asked' = [asked EXCEPT ![b] = @ \cup {e}]
  /\ granted' = IF current[b] = e THEN [granted EXCEPT ![b] = @ \cup {e}] ELSE granted
  /\ UNCHANGED <<phase, current, accepted, outcome, answered>>

(* The evaluation in progress gets its outcome, which decides whether the
   sandbox can be used again.  "cancelled" is what the guest's error says, with
   or without a request. *)
Complete(b, e, r) ==
  /\ phase[b] = "busy"
  /\ current[b] = e
  /\ phase' = [phase EXCEPT ![b] = IF r = "ok" THEN "open" ELSE "ended"]
  /\ current' = [current EXCEPT ![b] = 0]
  /\ outcome' = [outcome EXCEPT ![b][e] = r]
  /\ UNCHANGED <<accepted, asked, granted, answered>>

(* The outcome is sent to the waiter, after those of earlier evaluations. *)
Answer(b, e) ==
  /\ outcome[b][e] # "none"
  /\ e \notin answered[b]
  /\ \A f \in accepted[b] : f < e => f \in answered[b]
  /\ answered' = [answered EXCEPT ![b] = @ \cup {e}]
  /\ UNCHANGED <<phase, current, accepted, asked, granted, outcome>>

(* The provider dies under an evaluation: its waiter learns it at once, the
   Kernel still takes the evaluation for the current one. *)
Break(b, e) ==
  /\ phase[b] = "busy"
  /\ current[b] = e
  /\ phase' = [phase EXCEPT ![b] = "ended"]
  /\ outcome' = [outcome EXCEPT ![b][e] = "dropped"]
  /\ answered' = [answered EXCEPT ![b] = @ \cup {e}]
  /\ UNCHANGED <<current, accepted, asked, granted>>

(* The sandbox is given up while it is idle. *)
Retire(b) ==
  /\ phase[b] = "open"
  /\ phase' = [phase EXCEPT ![b] = "ended"]
  /\ UNCHANGED <<current, accepted, asked, granted, outcome, answered>>

Finish(b) == \E e \in Evaluations : Break(b, e) \/ \E r \in Results : Complete(b, e, r)
Send(b)   == \E e \in Evaluations : Answer(b, e)

Next ==
  \E b \in Sandboxes :
    \/ \E e \in Evaluations : Accept(b, e) \/ Ask(b, e)
    \/ Finish(b)
    \/ Send(b)
    \/ Retire(b)

Spec == Init /\ [][Next]_contractVars

(* An accepted evaluation ends and its answer is sent: what a provider owes as
   long as the guest gives it the chance to interrupt. *)
Fairness == \A b \in Sandboxes : WF_contractVars(Finish(b)) /\ WF_contractVars(Send(b))

============================================================================
