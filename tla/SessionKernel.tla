--------------------------- MODULE SessionKernel ---------------------------
(***************************************************************************)
(* The SessionKernel (runtime/session.rs and the second half of            *)
(* runtime/sandbox.rs): sessions, filesystem mounts with their attachment  *)
(* counts, and the sandboxes, whose worker threads are those of Sandbox.   *)
(* The Kernel is owned by one thread.  Its calls run one after the other;  *)
(* a call that takes a sandbox's lock several times, or that joins its     *)
(* worker, is cut there, and the workers may step in between.              *)
(***************************************************************************)
EXTENDS Sandbox

CONSTANTS
  SessionNames,   \* names sessions may be created with, "ROOT" among them
  MaxMounts       \* bound on the mounts created

ASSUME KernelConstants ==
  /\ "ROOT" \in SessionNames
  /\ IsFiniteSet(SessionNames)
  /\ IsFiniteSet(Sandboxes)
  /\ MaxMounts \in Nat

MountIds == 1 .. MaxMounts
NoMount  == 0
NoStatus == [state |-> "open", active |-> FALSE, error |-> FALSE]
Idling   == [op |-> "idle", sandbox |-> 0, evaluation |-> None]

VARIABLES
  sessions,             \* names of the open sessions
  filesystem,           \* SessionNames -> Session.filesystem, which is also the
                        \*   file provider of its Runtime
  mounts,               \* ids of the registered mounts
  attachments,          \* MountIds -> FilesystemMount.attachments
  sessionAttachments,   \* SessionNames -> mount, NoMount when there is no entry
  sandboxAttachments,   \* Sandboxes -> mount, NoMount when there is no entry
  entries,              \* ids in the sandbox registry
  sandboxMount,         \* Sandboxes -> Sandbox.mount
  nextMount, nextSandbox,
  nextEvaluation,       \* Sandboxes -> Sandbox.next_evaluation_id
  kernel,               \* the call in progress: [op, sandbox, evaluation]
  status                \* the SandboxStatus being read

mountVars  == <<sessions, filesystem, mounts, attachments, sessionAttachments,
                sandboxAttachments, nextMount>>
registryVars == <<entries, sandboxMount, nextSandbox>>
kernelVars == <<mountVars, registryVars, nextEvaluation, kernel, status>>
vars == <<kernelVars, sandboxVars>>

KernelCalls == [op: {"idle", "cancel", "status-active", "status-error", "status-return",
                     "close-cancel", "close-send", "close-join", "gone"},
                sandbox: Sandboxes \cup {0}, evaluation: Evaluations \cup {None}]
Reports == [state: States, active: BOOLEAN, error: BOOLEAN]

TypeOK ==
  /\ SandboxTypeOK
  /\ sessions \subseteq SessionNames
  /\ filesystem \in [SessionNames -> MountIds \cup {NoMount}]
  /\ mounts \subseteq MountIds
  /\ attachments \in [MountIds -> Nat]
  /\ sessionAttachments \in [SessionNames -> MountIds \cup {NoMount}]
  /\ sandboxAttachments \in [Sandboxes -> MountIds \cup {NoMount}]
  /\ entries \subseteq Sandboxes
  /\ sandboxMount \in [Sandboxes -> MountIds \cup {NoMount}]
  /\ nextMount \in Nat /\ nextSandbox \in Nat
  /\ nextEvaluation \in [Sandboxes -> 1 .. MaxEvaluations + 1]
  /\ kernel \in KernelCalls
  /\ status \in Reports

Init ==
  /\ SandboxInit
  /\ sessions = {"ROOT"}
  /\ filesystem = [s \in SessionNames |-> NoMount]
  /\ mounts = {}
  /\ attachments = [m \in MountIds |-> 0]
  /\ sessionAttachments = [s \in SessionNames |-> NoMount]
  /\ sandboxAttachments = [b \in Sandboxes |-> NoMount]
  /\ entries = {}
  /\ sandboxMount = [b \in Sandboxes |-> NoMount]
  /\ nextMount = 1
  /\ nextSandbox = 1
  /\ nextEvaluation = [b \in Sandboxes |-> 1]
  /\ kernel = Idling
  /\ status = NoStatus

----------------------------------------------------------------------------
(* Sessions and mounts: calls that touch no sandbox. *)

MountCall == kernel.op = "idle" /\ UNCHANGED <<sandboxVars, registryVars, nextEvaluation, kernel, status>>

CreateSession(s) ==
  /\ MountCall
  /\ s \notin sessions
  /\ sessions' = sessions \cup {s}
  /\ UNCHANGED <<filesystem, mounts, attachments, sessionAttachments, sandboxAttachments, nextMount>>

CreateFilesystem ==
  /\ MountCall
  /\ nextMount \in MountIds
  /\ mounts' = mounts \cup {nextMount}
  /\ attachments' = [attachments EXCEPT ![nextMount] = 0]
  /\ nextMount' = nextMount + 1
  /\ UNCHANGED <<sessions, filesystem, sessionAttachments, sandboxAttachments>>

(* saturating_sub on the count of a mount that is still registered. *)
Released(counts, m) ==
  IF m \in mounts
  THEN [counts EXCEPT ![m] = IF @ > 0 THEN @ - 1 ELSE 0]
  ELSE counts

(* Mutant: a second attach forgets the mount attached before. *)
AttachFilesystem_leaks(s, m) ==
  /\ MountCall
  /\ s \in sessions
  /\ m \in mounts
  /\ sessionAttachments[s] # m
  /\ attachments' = [attachments EXCEPT ![m] = @ + 1]
  /\ sessionAttachments' = [sessionAttachments EXCEPT ![s] = m]
  /\ filesystem' = [filesystem EXCEPT ![s] = m]
  /\ UNCHANGED <<sessions, mounts, sandboxAttachments, nextMount>>

(* An attach to the mount already attached changes nothing; any other attach
   detaches first. *)
AttachFilesystem(s, m) ==
  /\ MountCall
  /\ s \in sessions
  /\ m \in mounts
  /\ sessionAttachments[s] # m
  /\ attachments' = [Released(attachments, sessionAttachments[s]) EXCEPT ![m] = @ + 1]
  /\ sessionAttachments' = [sessionAttachments EXCEPT ![s] = m]
  /\ filesystem' = [filesystem EXCEPT ![s] = m]
  /\ UNCHANGED <<sessions, mounts, sandboxAttachments, nextMount>>

(* The part of detach_filesystem that close_session shares. *)
Detach(s) ==
  /\ filesystem' = [filesystem EXCEPT ![s] = NoMount]
  /\ attachments' = Released(attachments, sessionAttachments[s])
  /\ sessionAttachments' = [sessionAttachments EXCEPT ![s] = NoMount]

DetachFilesystem(s) ==
  /\ MountCall
  /\ s \in sessions
  /\ Detach(s)
  /\ UNCHANGED <<sessions, mounts, sandboxAttachments, nextMount>>

CloseFilesystem(m) ==
  /\ MountCall
  /\ m \in mounts
  /\ attachments[m] = 0
  /\ mounts' = mounts \ {m}
  /\ UNCHANGED <<sessions, filesystem, attachments, sessionAttachments, sandboxAttachments, nextMount>>

CloseSession(s) ==
  /\ MountCall
  /\ s \in sessions \ {"ROOT"}
  /\ Detach(s)
  /\ sessions' = sessions \ {s}
  /\ UNCHANGED <<mounts, sandboxAttachments, nextMount>>

----------------------------------------------------------------------------
(* Sandboxes *)

(* counts and indexed are the counts and the index before the release. *)
ReleaseSandboxMount(b, m, counts, indexed) ==
  /\ attachments' = IF m # NoMount /\ indexed[b] = m THEN Released(counts, m) ELSE counts
  /\ sandboxAttachments' = IF m = NoMount THEN indexed ELSE [indexed EXCEPT ![b] = NoMount]

(* The mount is attached before the provider opens, and released again when
   the provider fails; the id is used up either way. *)
OpenSandbox(m) ==
  LET b == nextSandbox
      attached == IF m = NoMount THEN attachments ELSE [attachments EXCEPT ![m] = @ + 1]
      indexed  == [sandboxAttachments EXCEPT ![b] = m]
  IN /\ kernel.op = "idle"
     /\ b \in Sandboxes
     /\ m \in mounts \cup {NoMount}
     /\ nextSandbox' = nextSandbox + 1
     /\ \/ /\ Open(b)
           /\ attachments' = attached
           /\ sandboxAttachments' = indexed
           /\ entries' = entries \cup {b}
           /\ sandboxMount' = [sandboxMount EXCEPT ![b] = m]
        \/ /\ ReleaseSandboxMount(b, m, attached, indexed)
           /\ UNCHANGED <<sandboxVars, entries, sandboxMount>>
     /\ UNCHANGED <<sessions, filesystem, mounts, sessionAttachments, nextMount,
                    nextEvaluation, kernel, status>>

(* sandbox_eval and sandbox_call allocate an id before anything can refuse:
   the source limit of eval, or begin.  A refused call leaves only the id. *)
SandboxEval(b) ==
  LET e == nextEvaluation[b]
  IN /\ kernel.op = "idle"
     /\ b \in entries
     /\ e \in Evaluations
     /\ nextEvaluation' = [nextEvaluation EXCEPT ![b] = @ + 1]
     /\ \/ CanBegin(b) /\ Begin(b, e)
        \/ UNCHANGED sandboxVars
     /\ UNCHANGED <<mountVars, registryVars, kernel, status>>

KernelCall == UNCHANGED <<mountVars, registryVars, nextEvaluation>>

(* cancel_sandbox reads the active evaluation and then cancels that one. *)
CancelSandbox(b) ==
  /\ kernel.op = "idle"
  /\ b \in entries
  /\ shared[b].active # None
  /\ kernel' = [op |-> "cancel", sandbox |-> b, evaluation |-> shared[b].active]
  /\ KernelCall
  /\ UNCHANGED <<sandboxVars, status>>

CancelRead ==
  /\ kernel.op = "cancel"
  /\ Cancel(kernel.sandbox, kernel.evaluation)
  /\ kernel' = Idling
  /\ KernelCall
  /\ UNCHANGED status

(* cancel_sandbox_evaluation: a promise's cancel hook names its own evaluation,
   which may have ended long ago. *)
CancelSandboxEvaluation(b, e) ==
  /\ kernel.op = "idle"
  /\ b \in entries
  /\ e < nextEvaluation[b]
  /\ Cancel(b, e)
  /\ KernelCall
  /\ UNCHANGED <<kernel, status>>

(* sandbox_status reads state, activity and error under a lock each. *)
SandboxStatus(b) ==
  /\ kernel.op = "idle"
  /\ b \in entries
  /\ status' = [status EXCEPT !.state = shared[b].state]
  /\ kernel' = [Idling EXCEPT !.op = "status-active", !.sandbox = b]
  /\ KernelCall
  /\ UNCHANGED sandboxVars

StatusActive ==
  /\ kernel.op = "status-active"
  /\ status' = [status EXCEPT !.active = shared[kernel.sandbox].active # None]
  /\ kernel' = [kernel EXCEPT !.op = "status-error"]
  /\ KernelCall
  /\ UNCHANGED sandboxVars

StatusError ==
  /\ kernel.op = "status-error"
  /\ status' = [status EXCEPT !.error = shared[kernel.sandbox].error]
  /\ kernel' = [kernel EXCEPT !.op = "status-return"]
  /\ KernelCall
  /\ UNCHANGED sandboxVars

StatusReturn ==
  /\ kernel.op = "status-return"
  /\ status' = NoStatus
  /\ kernel' = Idling
  /\ KernelCall
  /\ UNCHANGED sandboxVars

(* close_sandbox: the entry goes first; then close reads the active
   evaluation, cancels it, sends Close, joins, and the mount is released. *)
CloseSandbox(b) ==
  /\ kernel.op = "idle"
  /\ b \in entries
  /\ entries' = entries \ {b}
  /\ kernel' = [op |-> "close-cancel", sandbox |-> b, evaluation |-> shared[b].active]
  /\ UNCHANGED <<sandboxVars, mountVars, sandboxMount, nextSandbox, nextEvaluation, status>>

CloseCancel ==
  /\ kernel.op = "close-cancel"
  /\ Cancel(kernel.sandbox, kernel.evaluation)
  /\ kernel' = [kernel EXCEPT !.op = "close-send"]
  /\ KernelCall
  /\ UNCHANGED status

CloseSend ==
  /\ kernel.op = "close-send"
  /\ SendClose(kernel.sandbox)
  /\ kernel' = [kernel EXCEPT !.op = "close-join"]
  /\ KernelCall
  /\ UNCHANGED status

CloseJoin ==
  LET b == kernel.sandbox
  IN /\ kernel.op = "close-join"
     /\ Joinable(b)
     /\ ReleaseSandboxMount(b, sandboxMount[b], attachments, sandboxAttachments)
     /\ sandboxMount' = [sandboxMount EXCEPT ![b] = NoMount]
     /\ UNCHANGED <<entries, nextSandbox>>
     /\ senders' = senders \ {b}
     /\ kernel' = Idling
     /\ UNCHANGED <<shared, flag, asked, commands, worker, replies, sessions, filesystem, mounts,
                    sessionAttachments, nextMount, nextEvaluation, status>>

(* The Kernel is dropped (the broker thread ends) with its sessions, mounts and
   registries: no worker is told or joined, every command sender goes. *)
DropKernel ==
  /\ kernel.op = "idle"
  /\ kernel' = [Idling EXCEPT !.op = "gone"]
  /\ sessions' = {}
  /\ filesystem' = [s \in SessionNames |-> NoMount]
  /\ mounts' = {}
  /\ attachments' = [m \in MountIds |-> 0]
  /\ sessionAttachments' = [s \in SessionNames |-> NoMount]
  /\ sandboxAttachments' = [b \in Sandboxes |-> NoMount]
  /\ entries' = {}
  /\ sandboxMount' = [b \in Sandboxes |-> NoMount]
  /\ senders' = {}
  /\ UNCHANGED <<nextMount, nextSandbox, nextEvaluation, status, shared, flag, asked, commands, worker, replies>>

(* The rest of a call in progress. *)
KernelStep ==
  CancelRead \/ StatusActive \/ StatusError \/ StatusReturn \/ CloseCancel \/ CloseSend \/ CloseJoin

MountNext ==
  \/ \E s \in SessionNames :
       \/ CreateSession(s)
       \/ DetachFilesystem(s)
       \/ CloseSession(s)
       \/ \E m \in MountIds : AttachFilesystem(s, m)
  \/ CreateFilesystem
  \/ \E m \in MountIds : CloseFilesystem(m)

SandboxNext ==
  \/ \E m \in MountIds \cup {NoMount} : OpenSandbox(m)
  \/ \E b \in Sandboxes :
       \/ SandboxEval(b)
       \/ CancelSandbox(b)
       \/ \E e \in Evaluations : CancelSandboxEvaluation(b, e)
       \/ SandboxStatus(b)
       \/ CloseSandbox(b)

WorkerStep(b) == Worker(b) /\ UNCHANGED kernelVars

Next ==
  \/ MountNext
  \/ SandboxNext
  \/ KernelStep
  \/ DropKernel
  \/ \E b \in Sandboxes : WorkerStep(b)

Spec == Init /\ [][Next]_vars

(* Threads are scheduled.  A guest that polls again and again is interrupted,
   because past the deadline every poll reports it.  Nothing makes a guest reach
   its next poll, or its end, and no call is assumed to be made. *)
FairSpec ==
  /\ Spec
  /\ WF_vars(KernelStep)
  /\ \A b \in Sandboxes :
       /\ WF_vars((Receive(b) \/ Disconnected(b) \/ FinishEvaluation(b) \/ Reply(b)) /\ UNCHANGED kernelVars)
       /\ SF_vars(Interrupted(b) /\ UNCHANGED kernelVars)

----------------------------------------------------------------------------
(* Properties *)

(* A sandbox that has been opened and whose close has not returned. *)
Holds(b, m) ==
  /\ sandboxMount[b] = m
  /\ b \in entries \/ (kernel.sandbox = b /\ kernel.op \in {"close-cancel", "close-send", "close-join"})

(* attachments is the number of sessions that have the mount as their
   filesystem plus the number of sandboxes that use it, whatever sequence of
   attach, detach, re-attach, failed open and close led there; a mount in use
   is registered (close_filesystem refuses it), and a worker thread of a live
   Kernel never outlives its claim on the mount. *)
MountsBalanced ==
  kernel.op # "gone" =>
    /\ \A m \in MountIds :
         /\ attachments[m] = Cardinality({s \in sessions : filesystem[s] = m})
                           + Cardinality({b \in Sandboxes : Holds(b, m)})
         /\ attachments[m] > 0 => m \in mounts
    /\ \A s \in SessionNames : filesystem[s] # NoMount => s \in sessions
    /\ \A b \in Sandboxes :
         worker[b].at \in {"recv", "run", "poll", "finish", "reply"} => Holds(b, sandboxMount[b])

(* A status can be trusted for what is final, although its three fields are
   read under three locks while the worker runs: an open state comes without
   evaluation and error, an ended state with its error and without evaluation.
   Only "running" and "cancelling" may be out of date when the call returns,
   and then the error may already belong to the evaluation shown as active. *)
StatusIsCoherent ==
  kernel.op = "status-return" =>
    /\ status.active => status.state \in {"running", "cancelling"}
    /\ status.state \in {"cancelled", "failed"} => status.error
    /\ status.state = "open" => ~status.error

(* No guest stays in one form for ever. *)
GuestsReturn == \A b \in Sandboxes : []<>(worker[b].at # "run")

(* Every sandbox keeps the contract of SandboxInstance and SandboxPending: the
   two threads implement every step of SandboxContract, and its liveness as
   long as the guests return to a poll. *)
SandboxesKeepContract == Contract!Spec /\ (GuestsReturn => Contract!Fairness)

(* close_sandbox returns although it joins a worker that may be in the middle
   of an evaluation, and no worker is left behind: once a sandbox is closed or
   the Kernel dropped, its thread ends.  This needs guests that return to a
   poll: neither the cancellation nor the deadline ends a form that waits, and
   close_sandbox waits with it. *)
ClosingEnds ==
  GuestsReturn =>
    \A b \in Sandboxes :
      (b \notin entries \/ kernel.op = "gone")
        ~> (worker[b].at \in {"absent", "done", "panicked"} /\ kernel.op \in {"idle", "gone"})

============================================================================
