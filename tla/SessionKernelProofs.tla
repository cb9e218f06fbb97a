------------------------ MODULE SessionKernelProofs ------------------------
(***************************************************************************)
(* For any sets of sessions, sandboxes and evaluations: a status can be    *)
(* trusted although it is read under three locks, because what has         *)
(* been read of it still holds if it was final (runtime/sandbox.rs).       *)
(* From the same invariant: the two threads of a sandbox implement every   *)
(* step of SandboxContract.  The counts of the mounts are proved exact in  *)
(* KernelMountProofs.                                                      *)
(***************************************************************************)
EXTENDS SessionKernel, TLAPS

(* What WorkerState holds between two critical sections. *)
SharedOK(sh) ==
  /\ sh.active # None <=> sh.state \in {"running", "cancelling"}
  /\ sh.error <=> sh.state \in {"cancelled", "failed"}

(* Where the evaluation in progress is: in the channel until the worker has
   received it, with the worker until finish_evaluation.  Behind it there can
   only be Close. *)
ThreadOK(sh, w, c) ==
  /\ w.at = "absent" => sh.active = None /\ sh.state = "open" /\ c = <<>>
  /\ w.at \in {"recv", "reply"} =>
       c \in IF sh.active = None THEN {<<>>, <<Close>>} ELSE {<<sh.active>>, <<sh.active, Close>>}
  /\ w.at \in {"run", "poll", "finish"} => sh.active = w.evaluation /\ c \in {<<>>, <<Close>>}
  /\ w.at = "panicked" => sh.active = w.evaluation /\ c = <<>>
  /\ w.at = "done" => sh.active = None
  /\ w.at \in {"run", "poll", "finish", "reply", "panicked"} => w.evaluation # None
  /\ w.at \in {"finish", "reply"} => w.result \in Outcomes

(* Whose answer is outstanding: the evaluation in progress, unless the worker
   died under it, and the one whose reply is still to be sent, which is older.
   Ids are given out in order. *)
RepliesOK(sh, w, r, next) ==
  /\ \A e \in Evaluations : r[e] # "none" => e < next
  /\ \A e \in Evaluations :
       r[e] = "pending" <=> \/ e = sh.active /\ w.at # "panicked"
                            \/ e = w.evaluation /\ w.at = "reply"
  /\ w.at = "reply" /\ sh.active # None => w.evaluation < sh.active
  /\ sh.active < next

SandboxOK(b) ==
  /\ SharedOK(shared[b])
  /\ ThreadOK(shared[b], worker[b], commands[b])
  /\ RepliesOK(shared[b], worker[b], replies[b], nextEvaluation[b])

(* A worker that runs and whose channel has not got Close. *)
Fresh(sh, w, c) ==
  w.at \notin {"absent", "done"} /\ c \in {<<>>, <<sh.active>>} /\ c # <<Close>>

FreshBox(b) == Fresh(shared[b], worker[b], commands[b])

(* A sandbox that has not been told to close. *)
Unclosed(b) ==
  b \in entries \/ (kernel.sandbox = b /\ kernel.op \in {"close-cancel", "close-send"})

Closing == {"close-cancel", "close-send", "close-join"}

(* The sandboxes the Kernel knows, and the one its call in progress is about. *)
RegistryOK ==
  /\ nextSandbox > 0
  /\ \A b \in Sandboxes : b >= nextSandbox => worker[b].at = "absent" /\ b \notin entries
  /\ kernel.op \in Closing =>
       kernel.sandbox \in Sandboxes \ entries /\ worker[kernel.sandbox].at # "absent"
  /\ kernel.op \in {"cancel", "status-active", "status-error", "status-return"} =>
       kernel.sandbox \in entries
  /\ kernel.op = "gone" => entries = {}
  /\ \A b \in Sandboxes : Unclosed(b) => b \in senders /\ FreshBox(b)

(* What has been read of a status still holds if it was final. *)
StatusOK ==
  /\ kernel.op \in {"status-active", "status-error"} /\ status.state \notin {"running", "cancelling"} =>
       shared[kernel.sandbox].state = status.state
  /\ kernel.op = "status-error" => (status.active => status.state \in {"running", "cancelling"})

KernelInv ==
  /\ TypeOK
  /\ \A b \in Sandboxes : SandboxOK(b)
  /\ RegistryOK
  /\ StatusOK
  /\ StatusIsCoherent

----------------------------------------------------------------------------
(* Types *)

MountTypes ==
  /\ sessions \subseteq SessionNames
  /\ filesystem \in [SessionNames -> MountIds \cup {NoMount}]
  /\ mounts \subseteq MountIds
  /\ attachments \in [MountIds -> Nat]
  /\ sessionAttachments \in [SessionNames -> MountIds \cup {NoMount}]
  /\ sandboxAttachments \in [Sandboxes -> MountIds \cup {NoMount}]
  /\ nextMount \in Nat

RegistryTypes ==
  /\ entries \subseteq Sandboxes
  /\ sandboxMount \in [Sandboxes -> MountIds \cup {NoMount}]
  /\ nextSandbox \in Nat

CallTypes ==
  /\ nextEvaluation \in [Sandboxes -> 1 .. MaxEvaluations + 1]
  /\ kernel \in KernelCalls
  /\ status \in Reports

(* The types of the Kernel's fields, grouped by the calls that write them. *)
LEMMA TypeParts == TypeOK <=> SandboxTypeOK /\ MountTypes /\ RegistryTypes /\ CallTypes
BY Zenon DEF TypeOK, MountTypes, RegistryTypes, CallTypes

(* A new SessionKernel, without sandboxes, is of the right type. *)
LEMMA InitTypeOK == Init => TypeOK
BY SandboxConstants, KernelConstants
DEF Init, SandboxInit, TypeOK, SandboxTypeOK, SharedStates, WorkerStates, States, WorkerAt, Outcomes,
    Replies, Evaluations, None, Close, MountIds, NoMount, KernelCalls, Idling, Reports, NoStatus

(* A count of attachments that is released. *)
LEMMA ReleasedType ==
  ASSUME NEW counts \in [MountIds -> Nat], NEW m \in MountIds \cup {NoMount}, mounts \subseteq MountIds
  PROVE  Released(counts, m) \in [MountIds -> Nat]
BY DEF Released

(* Calls that touch no sandbox. *)
LEMMA MountTypeOK == TypeOK /\ MountNext => TypeOK'
<1> SUFFICES ASSUME TypeOK, MountNext PROVE TypeOK'
  BY Zenon
<1> USE SandboxConstants, KernelConstants
<1>0. MountCall
  BY Zenon DEF MountNext, CreateSession, DetachFilesystem, CloseSession, AttachFilesystem, CreateFilesystem,
         CloseFilesystem
<1>a. SandboxTypeOK /\ MountTypes /\ RegistryTypes /\ CallTypes
  BY TypeParts, Zenon
<1>1. SandboxTypeOK' /\ RegistryTypes' /\ CallTypes'
  BY <1>0, <1>a, Zenon DEF MountCall, sandboxVars, registryVars, SandboxTypeOK, RegistryTypes, CallTypes
<1>2. MountTypes'
  <2>1. ASSUME NEW s \in SessionNames, CreateSession(s) PROVE MountTypes'
    BY <1>a, <2>1, Zenon DEF CreateSession, MountTypes
  <2>2. ASSUME NEW s \in SessionNames, Detach(s), mounts' = mounts, sandboxAttachments' = sandboxAttachments,
               nextMount' = nextMount, sessions' \subseteq sessions
        PROVE  MountTypes'
    <3>1. attachments' \in [MountIds -> Nat]
      BY <1>a, <2>2, ReleasedType, Zenon DEF Detach, MountTypes
    <3> QED BY <1>a, <2>2, <3>1, Zenon DEF Detach, MountTypes
  <2>3. ASSUME NEW s \in SessionNames, DetachFilesystem(s) PROVE MountTypes'
    BY <2>2, <2>3, Zenon DEF DetachFilesystem
  <2>4. ASSUME NEW s \in SessionNames, CloseSession(s) PROVE MountTypes'
    BY <2>2, <2>4, Zenon DEF CloseSession
  <2>5. ASSUME NEW s \in SessionNames, NEW m \in MountIds, AttachFilesystem(s, m) PROVE MountTypes'
    <3> DEFINE r == Released(attachments, sessionAttachments[s])
    <3>1. r \in [MountIds -> Nat]
      BY <1>a, ReleasedType, Zenon DEF MountTypes
    <3>2. attachments' = [r EXCEPT ![m] = @ + 1]
      BY <2>5, Zenon DEF AttachFilesystem
    <3> HIDE DEF r
    <3>3. attachments' \in [MountIds -> Nat]
      BY <3>1, <3>2
    <3> QED BY <1>a, <2>5, <3>3, Zenon DEF AttachFilesystem, MountTypes
  <2>6. CASE CreateFilesystem
    BY <1>a, <2>6 DEF CreateFilesystem, MountTypes, MountIds
  <2>7. ASSUME NEW m \in MountIds, CloseFilesystem(m) PROVE MountTypes'
    BY <1>a, <2>7, Zenon DEF CloseFilesystem, MountTypes
  <2> QED BY <2>1, <2>3, <2>4, <2>5, <2>6, <2>7, Zenon DEF MountNext
<1> QED BY <1>1, <1>2, TypeParts, Zenon DEF TypeOK, MountTypes, RegistryTypes, CallTypes

(* The Kernel's side of a sandbox and the worker keep the types of the two. *)
LEMMA WorkerTypeOK ==
  ASSUME SandboxTypeOK, NEW b \in Sandboxes, Worker(b)
  PROVE  SandboxTypeOK'
<1> USE SandboxConstants DEF SandboxTypeOK
<1>0. /\ worker[b] \in WorkerStates /\ shared[b] \in SharedStates
      /\ commands[b] \in Seq(Evaluations \cup {Close})
  BY Zenon
<1>1. CASE Receive(b)
  <2> DEFINE w == IF Head(commands[b]) = Close
                  THEN [Idle EXCEPT !.at = "done"]
                  ELSE [Idle EXCEPT !.at = "run", !.evaluation = Head(commands[b])]
  <2>1. Head(commands[b]) \in Evaluations \cup {Close}
    BY <1>0, <1>1 DEF Receive
  <2>2. w \in WorkerStates
    BY <2>1, Zenon DEF Idle, WorkerStates, WorkerAt, Close, None
  <2>3. worker' = [worker EXCEPT ![b] = w]
    BY <1>1, Zenon DEF Receive
  <2> HIDE DEF w
  <2>4. commands' \in [Sandboxes -> Seq(Evaluations \cup {Close})]
    BY <1>1 DEF Receive
  <2>5. worker' \in [Sandboxes -> WorkerStates]
    BY <2>2, <2>3, Zenon
  <2>6. UNCHANGED <<shared, flag, asked, replies, senders>>
    BY <1>1, Zenon DEF Receive
  <2> QED BY <2>4, <2>5, <2>6, Zenon
<1>2. ASSUME NEW w \in WorkerStates, worker' = [worker EXCEPT ![b] = w],
             UNCHANGED <<shared, flag, asked, commands, replies, senders>>
      PROVE  SandboxTypeOK'
  BY <1>2, Zenon
<1>3. CASE Disconnected(b)
  <2> DEFINE w == [worker[b] EXCEPT !.at = "done"]
  <2>1. w \in WorkerStates
    BY <1>0, Zenon DEF WorkerStates, WorkerAt
  <2>2. worker' = [worker EXCEPT ![b] = w]
    BY <1>3, Zenon DEF Disconnected
  <2> HIDE DEF w
  <2> QED BY <1>2, <1>3, <2>1, <2>2, Zenon DEF Disconnected
<1>4. CASE RunControlled(b) \/ Interrupted(b)
  <2>1. PICK r \in Outcomes : worker' = [worker EXCEPT ![b].at = "finish", ![b].result = r]
    BY <1>4, Zenon DEF RunControlled, Interrupted
  <2> DEFINE w == [worker[b] EXCEPT !.at = "finish", !.result = r]
  <2>2. w \in WorkerStates
    BY <1>0, Zenon DEF WorkerStates, WorkerAt
  <2>3. worker' = [worker EXCEPT ![b] = w]
    BY <2>1, Zenon
  <2> HIDE DEF w
  <2> QED BY <1>2, <1>4, <2>2, <2>3, Zenon DEF RunControlled, Interrupted
<1>8. CASE NextForm(b) \/ Poll(b)
  <2>1. PICK a \in {"run", "poll"} : worker' = [worker EXCEPT ![b].at = a]
    BY <1>8, Zenon DEF NextForm, Poll
  <2> DEFINE w == [worker[b] EXCEPT !.at = a]
  <2>2. w \in WorkerStates
    BY <1>0, Zenon DEF WorkerStates, WorkerAt
  <2>3. worker' = [worker EXCEPT ![b] = w]
    BY <2>1, Zenon
  <2> HIDE DEF w
  <2> QED BY <1>2, <1>8, <2>2, <2>3, Zenon DEF NextForm, Poll
<1>5. CASE WorkerPanics(b)
  <2> DEFINE w == [worker[b] EXCEPT !.at = "panicked"]
             r == [replies[b] EXCEPT ![worker[b].evaluation] = "dropped"]
  <2>1. w \in WorkerStates
    BY <1>0, Zenon DEF WorkerStates, WorkerAt
  <2>2. r \in [Evaluations -> Replies]
    BY Zenon DEF Replies
  <2>3. worker' = [worker EXCEPT ![b] = w] /\ replies' = [replies EXCEPT ![b] = r]
    BY <1>5, Zenon DEF WorkerPanics
  <2> HIDE DEF w, r
  <2>4. commands' = [commands EXCEPT ![b] = <<>>] /\ UNCHANGED <<shared, flag, asked, senders>>
    BY <1>5, Zenon DEF WorkerPanics
  <2> QED BY <2>1, <2>2, <2>3, <2>4
<1>6. CASE FinishEvaluation(b)
  <2> DEFINE w  == [worker[b] EXCEPT !.at = "reply"]
             sh == CASE worker[b].result = "ok" ->
                          [state |-> "open", active |-> None, error |-> shared[b].error]
                     [] worker[b].result = "cancelled" ->
                          [state |-> "cancelled", active |-> None, error |-> TRUE]
                     [] OTHER -> [state |-> "failed", active |-> None, error |-> TRUE]
  <2>1. w \in WorkerStates
    BY <1>0, Zenon DEF WorkerStates, WorkerAt
  <2>2. sh \in SharedStates
    BY <1>0, Zenon DEF SharedStates, States
  <2>3. /\ worker' = [worker EXCEPT ![b] = w]
        /\ shared' = shared \/ shared' = [shared EXCEPT ![b] = sh]
    BY <1>6, Zenon DEF FinishEvaluation
  <2>4. UNCHANGED <<flag, asked, commands, replies, senders>>
    BY <1>6, Zenon DEF FinishEvaluation
  <2> HIDE DEF w, sh
  <2> QED BY <2>1, <2>2, <2>3, <2>4, Zenon
<1>7. CASE Reply(b)
  <2> DEFINE r == [replies[b] EXCEPT ![worker[b].evaluation] = worker[b].result]
  <2>1. Idle \in WorkerStates
    BY Zenon DEF Idle, WorkerStates, WorkerAt, None
  <2>2. r \in [Evaluations -> Replies]
    BY <1>0, Zenon DEF Replies, WorkerStates
  <2>3. worker' = [worker EXCEPT ![b] = Idle] /\ replies' = [replies EXCEPT ![b] = r]
    BY <1>7, Zenon DEF Reply
  <2>4. UNCHANGED <<shared, flag, asked, commands, senders>>
    BY <1>7, Zenon DEF Reply
  <2> HIDE DEF r
  <2> QED BY <2>1, <2>2, <2>3, <2>4, Zenon
<1> QED BY <1>1, <1>3, <1>4, <1>5, <1>6, <1>7, <1>8, Zenon DEF Worker

(* InProcessSandbox::cancel keeps the types. *)
LEMMA CancelTypeOK ==
  ASSUME SandboxTypeOK, NEW b \in Sandboxes, NEW e \in Evaluations \cup {None}, Cancel(b, e)
  PROVE  SandboxTypeOK'
<1> USE DEF SandboxTypeOK
<1> DEFINE sh == [shared[b] EXCEPT !.state = "cancelling"]
<1>1. shared[b] \in SharedStates
  BY Zenon
<1>2. sh \in SharedStates
  BY <1>1, Zenon DEF SharedStates, States
<1>3. \/ /\ e \in Evaluations /\ flag' = [flag EXCEPT ![b] = @ \cup {e}]
         /\ shared' = [shared EXCEPT ![b] = sh]
      \/ flag' = flag /\ shared' = shared
  BY Zenon DEF Cancel
<1> HIDE DEF sh
<1>4. asked' \in [Sandboxes -> SUBSET Evaluations]
  BY Zenon DEF Cancel, None
<1>5. UNCHANGED <<commands, worker, replies, senders>>
  BY Zenon DEF Cancel
<1>6. flag' \in [Sandboxes -> SUBSET Evaluations]
  <2>1. flag \in [Sandboxes -> SUBSET Evaluations] /\ flag[b] \in SUBSET Evaluations
    BY Zenon
  <2>2. e \in Evaluations => flag[b] \cup {e} \in SUBSET Evaluations
    BY <2>1, Zenon
  <2>3. flag' = flag \/ (e \in Evaluations /\ flag' = [flag EXCEPT ![b] = flag[b] \cup {e}])
    BY <1>3, Zenon
  <2> QED BY <2>1, <2>2, <2>3, Zenon
<1>7. shared' \in [Sandboxes -> SharedStates]
  BY <1>2, <1>3, Zenon
<1> QED BY <1>4, <1>5, <1>6, <1>7, Zenon

(* eval and call (begin, then send on the command channel) keep the types. *)
LEMMA BeginTypeOK ==
  ASSUME SandboxTypeOK, NEW b \in Sandboxes, NEW e \in Evaluations, Begin(b, e)
  PROVE  SandboxTypeOK'
<1> USE DEF SandboxTypeOK
<1> DEFINE sh == [state |-> "running", active |-> e, error |-> FALSE]
           r  == [replies[b] EXCEPT ![e] = "pending"]
           c  == Append(commands[b], e)
<1>1. sh \in SharedStates
  BY Zenon DEF SharedStates, States
<1>2. r \in [Evaluations -> Replies] /\ c \in Seq(Evaluations \cup {Close})
  BY DEF Replies
<1>3. /\ shared' = [shared EXCEPT ![b] = sh] /\ replies' = [replies EXCEPT ![b] = r]
      /\ commands' = [commands EXCEPT ![b] = c]
  BY Zenon DEF Begin
<1>4. UNCHANGED <<flag, asked, worker, senders>>
  BY Zenon DEF Begin
<1> HIDE DEF sh, r, c
<1> QED BY <1>1, <1>2, <1>3, <1>4, Zenon

(* InProcessSandbox::open keeps the types. *)
LEMMA OpenTypeOK ==
  ASSUME SandboxTypeOK, NEW b \in Sandboxes, Open(b)
  PROVE  SandboxTypeOK'
<1> USE DEF SandboxTypeOK
<1> DEFINE w == [worker[b] EXCEPT !.at = "recv"]
<1>1. worker[b] \in WorkerStates
  BY Zenon
<1>2. w \in WorkerStates
  BY <1>1, Zenon DEF WorkerStates, WorkerAt
<1>3. worker' = [worker EXCEPT ![b] = w]
  BY Zenon DEF Open
<1> HIDE DEF w
<1> QED BY <1>2, <1>3, Zenon DEF Open

(* The last command InProcessSandbox::close sends keeps the types. *)
LEMMA SendCloseTypeOK ==
  ASSUME SandboxTypeOK, NEW b \in Sandboxes, SendClose(b)
  PROVE  SandboxTypeOK'
BY DEF SandboxTypeOK, SendClose

(* Records of the Kernel. *)
LEMMA KernelFields ==
  ASSUME TypeOK
  PROVE  /\ kernel.sandbox \in Sandboxes \cup {0} /\ kernel.evaluation \in Evaluations \cup {None}
         /\ Idling \in KernelCalls /\ [Idling EXCEPT !.op = "gone"] \in KernelCalls
         /\ NoStatus \in Reports
         /\ \A op \in {"cancel", "close-cancel"}, b \in Sandboxes, e \in Evaluations \cup {None} :
              [op |-> op, sandbox |-> b, evaluation |-> e] \in KernelCalls
         /\ \A b \in Sandboxes :
              [Idling EXCEPT !.op = "status-active", !.sandbox = b] \in KernelCalls
         /\ \A op \in {"status-error", "status-return", "close-send", "close-join"} :
              [kernel EXCEPT !.op = op] \in KernelCalls
<1>1. kernel \in KernelCalls
  BY Zenon DEF TypeOK
<1> QED BY <1>1, Zenon DEF KernelCalls, Idling, Reports, NoStatus, States, None

(* The rest of a call in progress. *)
LEMMA KernelStepTypeOK == TypeOK /\ RegistryOK /\ KernelStep => TypeOK'
<1> SUFFICES ASSUME TypeOK, RegistryOK, KernelStep PROVE TypeOK'
  BY Zenon
<1>a. SandboxTypeOK /\ MountTypes /\ RegistryTypes /\ CallTypes
  BY TypeParts, Zenon
<1>b. kernel.op \notin {"idle", "gone"} => kernel.sandbox \in Sandboxes
  <2>1. kernel \in KernelCalls /\ entries \subseteq Sandboxes
    BY Zenon DEF TypeOK
  <2> QED BY <2>1, Zenon DEF KernelCalls, RegistryOK, Closing
<1>c. KernelCall /\ SandboxTypeOK' /\ kernel' \in KernelCalls /\ status' \in Reports => TypeOK'
  BY <1>a, Zenon DEF KernelCall, mountVars, registryVars, TypeOK, MountTypes, RegistryTypes, CallTypes
<1>d. status \in Reports /\ UNCHANGED sandboxVars => SandboxTypeOK'
  BY <1>a, Zenon DEF SandboxTypeOK, sandboxVars
<1>e. status \in Reports
  BY <1>a, Zenon DEF CallTypes
<1>1. CASE CancelRead
  BY <1>1, <1>b, <1>c, <1>e, <1>a, KernelFields, CancelTypeOK, Zenon DEF CancelRead
<1>2. CASE StatusActive
  <2>1. [status EXCEPT !.active = shared[kernel.sandbox].active # None] \in Reports
    BY <1>e, Zenon DEF Reports
  <2> QED BY <1>2, <2>1, <1>c, <1>d, <1>e, KernelFields, Zenon DEF StatusActive
<1>3. CASE StatusError
  <2>1. shared[kernel.sandbox] \in SharedStates
    BY <1>3, <1>a, <1>b, Zenon DEF StatusError, SandboxTypeOK
  <2>2. [status EXCEPT !.error = shared[kernel.sandbox].error] \in Reports
    BY <1>e, <2>1, Zenon DEF Reports, SharedStates
  <2> QED BY <1>3, <2>2, <1>c, <1>d, <1>e, KernelFields, Zenon DEF StatusError
<1>4. CASE StatusReturn
  BY <1>4, <1>c, <1>d, <1>e, KernelFields, Zenon DEF StatusReturn
<1>5. CASE CloseCancel
  BY <1>5, <1>a, <1>b, <1>c, <1>e, KernelFields, CancelTypeOK, Zenon DEF CloseCancel
<1>6. CASE CloseSend
  BY <1>6, <1>a, <1>b, <1>c, <1>e, KernelFields, SendCloseTypeOK, Zenon DEF CloseSend
<1>7. CASE CloseJoin
  <2> DEFINE b == kernel.sandbox
  <2>1. b \in Sandboxes
    BY <1>7, <1>b, Zenon DEF CloseJoin
  <2>2. SandboxTypeOK' /\ CallTypes'
    BY <1>7, <1>a, KernelFields, Zenon DEF CloseJoin, SandboxTypeOK, CallTypes
  <2>3. RegistryTypes'
    BY <1>7, <1>a, <2>1, Zenon DEF CloseJoin, RegistryTypes, NoMount
  <2>4. sandboxMount[b] \in MountIds \cup {NoMount}
    BY <1>a, <2>1, Zenon DEF RegistryTypes
  <2>5. attachments' \in [MountIds -> Nat]
    BY <1>7, <1>a, <2>4, ReleasedType, Zenon DEF CloseJoin, ReleaseSandboxMount, MountTypes
  <2>6. sandboxAttachments' \in [Sandboxes -> MountIds \cup {NoMount}]
    BY <1>7, <1>a, Zenon DEF CloseJoin, ReleaseSandboxMount, MountTypes
  <2>7. MountTypes'
    BY <1>7, <1>a, <2>5, <2>6, Zenon DEF CloseJoin, MountTypes
  <2> QED BY <2>2, <2>3, <2>7, TypeParts, Zenon DEF TypeOK, MountTypes, RegistryTypes, CallTypes
<1> QED BY <1>1, <1>2, <1>3, <1>4, <1>5, <1>6, <1>7, Zenon DEF KernelStep

(* Calls on a sandbox. *)
LEMMA SandboxNextTypeOK == TypeOK /\ SandboxNext => TypeOK'
<1> SUFFICES ASSUME TypeOK, SandboxNext PROVE TypeOK'
  OBVIOUS
<1>a. SandboxTypeOK /\ MountTypes /\ RegistryTypes /\ CallTypes
  BY TypeParts, Zenon
<1>c. KernelCall /\ SandboxTypeOK' /\ kernel' \in KernelCalls /\ status' \in Reports => TypeOK'
  BY <1>a, Zenon DEF KernelCall, mountVars, registryVars, TypeOK, MountTypes, RegistryTypes, CallTypes
<1>d. UNCHANGED sandboxVars => SandboxTypeOK'
  BY <1>a, Zenon DEF SandboxTypeOK, sandboxVars
<1>e. status \in Reports /\ kernel \in KernelCalls /\ entries \subseteq Sandboxes
  BY <1>a, Zenon DEF CallTypes, RegistryTypes
<1>f. \A b \in Sandboxes : shared[b].active \in Evaluations \cup {None} /\ shared[b].state \in States
  <2>1. \A b \in Sandboxes : shared[b] \in SharedStates
    BY <1>a, Zenon DEF SandboxTypeOK
  <2> QED BY <2>1, Zenon DEF SharedStates
<1>1. ASSUME NEW m \in MountIds \cup {NoMount}, OpenSandbox(m) PROVE TypeOK'
  <2> DEFINE b == nextSandbox
             attached == IF m = NoMount THEN attachments ELSE [attachments EXCEPT ![m] = @ + 1]
             indexed  == [sandboxAttachments EXCEPT ![b] = m]
  <2>1. b \in Sandboxes /\ nextSandbox' = nextSandbox + 1
    BY <1>1, Zenon DEF OpenSandbox
  <2>2. attached \in [MountIds -> Nat]
    BY <1>a DEF MountTypes
  <2>3. indexed \in [Sandboxes -> MountIds \cup {NoMount}]
    BY <1>a, Zenon DEF MountTypes
  <2>4. /\ UNCHANGED <<sessions, filesystem, mounts, sessionAttachments, nextMount,
                       nextEvaluation, kernel, status>>
        /\ \/ /\ Open(b) /\ attachments' = attached /\ sandboxAttachments' = indexed
              /\ entries' = entries \cup {b} /\ sandboxMount' = [sandboxMount EXCEPT ![b] = m]
           \/ /\ ReleaseSandboxMount(b, m, attached, indexed)
              /\ UNCHANGED <<sandboxVars, entries, sandboxMount>>
    BY <1>1, Zenon DEF OpenSandbox
  <2> HIDE DEF b, attached, indexed
  <2>5. CallTypes'
    BY <1>a, <2>4, Zenon DEF CallTypes
  <2>6. nextSandbox' \in Nat
    BY <1>a, <2>1 DEF RegistryTypes
  <2>7. CASE /\ Open(b) /\ attachments' = attached /\ sandboxAttachments' = indexed
             /\ entries' = entries \cup {b} /\ sandboxMount' = [sandboxMount EXCEPT ![b] = m]
    <3>1. SandboxTypeOK'
      BY <1>a, <2>1, <2>7, OpenTypeOK, Zenon
    <3>2. MountTypes' /\ RegistryTypes'
      BY <1>a, <2>1, <2>2, <2>3, <2>4, <2>6, <2>7, Zenon DEF MountTypes, RegistryTypes
    <3> QED BY <2>5, <3>1, <3>2, Zenon DEF TypeOK, MountTypes, RegistryTypes, CallTypes
  <2>8. CASE /\ ReleaseSandboxMount(b, m, attached, indexed)
             /\ UNCHANGED <<sandboxVars, entries, sandboxMount>>
    <3>1. attachments' \in [MountIds -> Nat]
      BY <1>a, <2>2, <2>8, ReleasedType, Zenon DEF ReleaseSandboxMount, MountTypes
    <3>2. sandboxAttachments' \in [Sandboxes -> MountIds \cup {NoMount}]
      BY <2>3, <2>8, Zenon DEF ReleaseSandboxMount
    <3>3. MountTypes' /\ RegistryTypes'
      BY <1>a, <2>4, <2>6, <2>8, <3>1, <3>2, Zenon DEF MountTypes, RegistryTypes
    <3> QED BY <1>d, <2>5, <2>8, <3>3, Zenon DEF TypeOK, MountTypes, RegistryTypes, CallTypes
  <2> QED BY <2>4, <2>7, <2>8, Zenon
<1>2. ASSUME NEW b \in Sandboxes, SandboxEval(b) PROVE TypeOK'
  <2> DEFINE e == nextEvaluation[b]
  <2>1. e \in Evaluations /\ e + 1 \in 1 .. MaxEvaluations + 1
    BY <1>2, SandboxConstants DEF SandboxEval, Evaluations
  <2>2. /\ nextEvaluation' = [nextEvaluation EXCEPT ![b] = e + 1]
        /\ Begin(b, e) \/ UNCHANGED sandboxVars
        /\ UNCHANGED <<mountVars, registryVars, kernel, status>>
    BY <1>2, Zenon DEF SandboxEval
  <2> HIDE DEF e
  <2>3. SandboxTypeOK'
    BY <1>a, <1>d, <2>1, <2>2, BeginTypeOK, Zenon
  <2>4. nextEvaluation' \in [Sandboxes -> 1 .. MaxEvaluations + 1]
    BY <1>a, <2>1, <2>2, Zenon DEF CallTypes
  <2> QED BY <1>a, <2>2, <2>3, <2>4, Zenon DEF TypeOK, MountTypes, RegistryTypes, CallTypes, mountVars, registryVars

<1>3. ASSUME NEW b \in Sandboxes, CancelSandbox(b) PROVE TypeOK'
  BY <1>3, <1>c, <1>d, <1>e, <1>f, KernelFields, Zenon DEF CancelSandbox
<1>4. ASSUME NEW b \in Sandboxes, NEW e \in Evaluations, CancelSandboxEvaluation(b, e) PROVE TypeOK'
  BY <1>4, <1>a, <1>c, <1>e, CancelTypeOK, Zenon DEF CancelSandboxEvaluation
<1>5. ASSUME NEW b \in Sandboxes, SandboxStatus(b) PROVE TypeOK'
  <2>1. [status EXCEPT !.state = shared[b].state] \in Reports
    BY <1>e, <1>f, Zenon DEF Reports
  <2> QED BY <1>5, <2>1, <1>c, <1>d, <1>e, KernelFields, Zenon DEF SandboxStatus
<1>6. ASSUME NEW b \in Sandboxes, CloseSandbox(b) PROVE TypeOK'
  <2>1. SandboxTypeOK' /\ kernel' \in KernelCalls
    BY <1>6, <1>d, <1>f, KernelFields, Zenon DEF CloseSandbox
  <2>2. RegistryTypes'
    BY <1>6, <1>a, Zenon DEF CloseSandbox, RegistryTypes
  <2>3. MountTypes' /\ nextEvaluation' = nextEvaluation /\ status' = status
    BY <1>6, <1>a, Zenon DEF CloseSandbox, MountTypes, mountVars
  <2> QED BY <1>a, <2>1, <2>2, <2>3, Zenon DEF TypeOK, MountTypes, RegistryTypes, CallTypes
<1> QED BY <1>1, <1>2, <1>3, <1>4, <1>5, <1>6, Zenon DEF SandboxNext

(* Every call on the Kernel and every step of a worker keeps the types; RegistryOK says which
   sandbox the call in progress is about. *)
LEMMA NextTypeOK == TypeOK /\ RegistryOK /\ [Next]_vars => TypeOK'
<1> SUFFICES ASSUME TypeOK, RegistryOK, [Next]_vars PROVE TypeOK'
  BY Zenon
<1>a. SandboxTypeOK /\ MountTypes /\ RegistryTypes /\ CallTypes
  BY TypeParts, Zenon
<1>b. UNCHANGED kernelVars => MountTypes' /\ RegistryTypes' /\ CallTypes'
  BY <1>a, Zenon DEF kernelVars, mountVars, registryVars, MountTypes, RegistryTypes, CallTypes
<1>1. CASE UNCHANGED vars
  <2>1. SandboxTypeOK'
    BY <1>1, <1>a, Zenon DEF vars, sandboxVars, SandboxTypeOK
  <2>2. UNCHANGED kernelVars
    BY <1>1, Zenon DEF vars
  <2> QED BY <1>b, <2>1, <2>2, Zenon DEF TypeOK, MountTypes, RegistryTypes, CallTypes
<1>2. ASSUME NEW b \in Sandboxes, WorkerStep(b) PROVE TypeOK'
  <2>1. SandboxTypeOK'
    BY <1>2, <1>a, WorkerTypeOK, Zenon DEF WorkerStep
  <2>2. UNCHANGED kernelVars
    BY <1>2, Zenon DEF WorkerStep
  <2> QED BY <1>b, <2>1, <2>2, Zenon DEF TypeOK, MountTypes, RegistryTypes, CallTypes
<1>3. CASE DropKernel
  <2>1. SandboxTypeOK' /\ CallTypes'
    BY <1>3, <1>a, KernelFields, Zenon DEF DropKernel, SandboxTypeOK, CallTypes
  <2>2. MountTypes' /\ RegistryTypes'
    BY <1>3, <1>a, Zenon DEF DropKernel, MountTypes, RegistryTypes
  <2> QED BY <2>1, <2>2, Zenon DEF TypeOK, MountTypes, RegistryTypes, CallTypes
<1> QED BY <1>1, <1>2, <1>3, MountTypeOK, SandboxNextTypeOK, KernelStepTypeOK, Zenon DEF Next

----------------------------------------------------------------------------
(* One sandbox: its shared record, its worker, channel and replies, and the
   next evaluation id, as values. *)

Coherent(sh, w, c, r, next) ==
  SharedOK(sh) /\ ThreadOK(sh, w, c) /\ RepliesOK(sh, w, r, next)

Commands == Seq(Evaluations \cup {Close})

(* What every lemma about these values assumes of them. *)
Values(sh, w, c, r, next) ==
  /\ sh \in SharedStates /\ w \in WorkerStates /\ c \in Commands
  /\ r \in [Evaluations -> Replies] /\ next \in 1 .. MaxEvaluations + 1

(* The channel never holds more than two commands. *)
LEMMA AppendLast ==
  ASSUME NEW S, NEW s \in Seq(S), NEW b \in S
  PROVE  Append(s, b)[Len(s) + 1] = b
OBVIOUS

(* Two sequences are equal when their lengths and elements are. *)
LEMMA SameElements ==
  ASSUME NEW S, NEW s \in Seq(S), NEW t \in Seq(S), Len(s) = Len(t),
         \A i \in 1 .. Len(s) : s[i] = t[i]
  PROVE  s = t
<1>1. s = [i \in 1 .. Len(s) |-> s[i]]
  OBVIOUS
<1>2. t = [i \in 1 .. Len(t) |-> t[i]]
  OBVIOUS
<1> QED BY <1>1, <1>2, Zenon

(* Appending to a channel with one command. *)
LEMMA AppendToOne ==
  ASSUME NEW S, NEW s \in Seq(S), NEW b \in S, Len(s) = 1
  PROVE  /\ Append(s, b) \in Seq(S) /\ Len(Append(s, b)) = 2
         /\ Append(s, b)[1] = s[1] /\ Append(s, b)[2] = b
<1>1. Append(s, b)[Len(s) + 1] = b
  BY AppendLast, Zenon
<1>2. Append(s, b)[1] = s[1]
  OBVIOUS
<1>3. Append(s, b) \in Seq(S)
  OBVIOUS
<1>4. Len(Append(s, b)) = 2
  OBVIOUS
<1>5. Len(s) + 1 = 2
  OBVIOUS
<1> QED BY <1>1, <1>2, <1>3, <1>4, <1>5, Zenon

(* Close behind an evaluation. *)
LEMMA TwoCommands ==
  ASSUME NEW a \in Nat, NEW b \in Nat
  PROVE  Append(<<a>>, b) = <<a, b>>
<1>1. PICK s : s = <<a>>
  BY Zenon
<1>2. s \in Seq(Nat) /\ Len(s) = 1 /\ s[1] = a
  BY <1>1
<1>3. /\ Append(s, b) \in Seq(Nat) /\ Len(Append(s, b)) = 2
      /\ Append(s, b)[1] = a /\ Append(s, b)[2] = b
  BY <1>2, AppendToOne
<1>4. PICK u : u = Append(s, b)
  BY Zenon
<1>5. u \in Seq(Nat) /\ Len(u) = 2 /\ u[1] = a /\ u[2] = b
  BY <1>3, <1>4, Zenon
<1>6. /\ <<a, b>> \in Seq(Nat) /\ Len(<<a, b>>) = 2
      /\ <<a, b>>[1] = a /\ <<a, b>>[2] = b
  OBVIOUS
<1>7. \A i \in 1 .. Len(u) : u[i] = <<a, b>>[i]
  BY <1>5
<1>8. u = <<a, b>>
  BY <1>5, <1>6, <1>7, SameElements, Zenon
<1> QED BY <1>1, <1>4, <1>8, Zenon

(* begin, with the command sent. *)
LEMMA BeginCoherent ==
  ASSUME NEW sh, NEW w, NEW c, NEW r, NEW next \in Evaluations,
         Values(sh, w, c, r, next), Coherent(sh, w, c, r, next),
         sh.state = "open", c \in {<<>>, <<sh.active>>}, c # <<Close>>,
         w.at \notin {"absent", "done"}
  PROVE  Coherent([state |-> "running", active |-> next, error |-> FALSE], w, Append(c, next),
                  [r EXCEPT ![next] = "pending"], next + 1)
<1> DEFINE sh2 == [state |-> "running", active |-> next, error |-> FALSE]
           r2  == [r EXCEPT ![next] = "pending"]
<1> USE SandboxConstants
<1>1. /\ sh.active = None /\ c = <<>> /\ w.at \in {"recv", "run", "poll", "finish", "reply", "panicked"}
      /\ w.evaluation \in Evaluations \cup {None}
  BY Zenon DEF Values, Coherent, SharedOK, SharedStates, WorkerStates, WorkerAt, None, Close
<1>2. w.at \in {"recv", "reply"}
  BY <1>1, Zenon DEF Coherent, ThreadOK
<1>3. next # None /\ next \in Nat /\ Append(c, next) = <<next>>
  BY <1>1 DEF Evaluations, None
<1>4. SharedOK(sh2)
  BY <1>3, Zenon DEF SharedOK
<1>5. ThreadOK(sh2, w, <<next>>)
  BY <1>2, <1>3, Zenon DEF ThreadOK, Coherent
<1>6. /\ \A e \in Evaluations : r2[e] = IF e = next THEN "pending" ELSE r[e]
      /\ sh2.active = next
  BY Zenon DEF Values
<1>7. RepliesOK(sh2, w, r2, next + 1)
  <2> HIDE DEF sh2, r2
  <2>1. \A e \in Evaluations : r[e] # "none" => e < next
    BY Zenon DEF Coherent, RepliesOK
  <2>2. \A e \in Evaluations : r2[e] # "none" => e < next + 1
    BY <1>3, <1>6, <2>1 DEF Evaluations
  <2>3. \A e \in Evaluations : r[e] = "pending" <=> e = w.evaluation /\ w.at = "reply"
    BY <1>1, <1>2 DEF Coherent, RepliesOK, Evaluations, None
  <2>4. w.at = "reply" => w.evaluation < next
    BY <1>1, <2>1, <2>3, Zenon DEF Coherent, ThreadOK
  <2>5. w.at # "panicked" /\ (w.at = "reply" => w.evaluation # next)
    BY <1>2, <1>3, <2>4
  <2>6. ASSUME NEW e \in Evaluations
        PROVE  r2[e] = "pending" <=> \/ e = sh2.active /\ w.at # "panicked"
                                     \/ e = w.evaluation /\ w.at = "reply"
    <3>1. CASE e = next
      BY <1>6, <2>5, <3>1, Zenon
    <3>2. CASE e # next
      BY <1>6, <2>3, <3>2, Zenon
    <3> QED BY <3>1, <3>2, Zenon
  <2> QED BY <1>3, <1>6, <2>2, <2>4, <2>6, Zenon DEF RepliesOK
<1> QED BY <1>3, <1>4, <1>5, <1>7, Zenon DEF Coherent

(* An evaluation id is used up by a refused call. *)
LEMMA RefusedCoherent ==
  ASSUME NEW sh, NEW w, NEW c, NEW r, NEW next \in Nat, Values(sh, w, c, r, next),
         Coherent(sh, w, c, r, next)
  PROVE  Coherent(sh, w, c, r, next + 1)
<1>1. sh.active \in Nat
  BY SandboxConstants DEF Values, SharedStates, Evaluations, None
<1> QED BY <1>1, SandboxConstants DEF Coherent, RepliesOK, Evaluations

(* cancel reaches the active evaluation. *)
LEMMA CancelCoherent ==
  ASSUME NEW sh, NEW w, NEW c, NEW r, NEW next, Values(sh, w, c, r, next),
         Coherent(sh, w, c, r, next), sh.active # None
  PROVE  Coherent([sh EXCEPT !.state = "cancelling"], w, c, r, next)
<1> DEFINE sh2 == [sh EXCEPT !.state = "cancelling"]
<1>1. /\ sh2.active = sh.active /\ sh2.state = "cancelling" /\ sh2.error = sh.error
      /\ sh.state \in {"running", "cancelling"}
  BY Zenon DEF Values, SharedStates, Coherent, SharedOK
<1> HIDE DEF sh2
<1>2. SharedOK(sh2)
  BY <1>1, Zenon DEF Coherent, SharedOK
<1>3. ThreadOK(sh2, w, c)
  BY <1>1, Zenon DEF Coherent, ThreadOK
<1>4. RepliesOK(sh2, w, r, next)
  BY <1>1, Zenon DEF Coherent, RepliesOK
<1> QED BY <1>2, <1>3, <1>4, Zenon DEF Coherent, sh2

(* close sends the last command. *)
LEMMA CloseCoherent ==
  ASSUME NEW sh, NEW w, NEW c, NEW r, NEW next, Values(sh, w, c, r, next),
         Coherent(sh, w, c, r, next), c \in {<<>>, <<sh.active>>}, c # <<Close>>,
         w.at \notin {"absent", "done", "panicked"}
  PROVE  Coherent(sh, w, Append(c, Close), r, next)
<1>0. sh.active \in Nat /\ Close \in Nat
  BY SandboxConstants DEF Values, SharedStates, Evaluations, None, Close
<1>1. Append(<<>>, Close) = <<Close>> /\ Append(<<sh.active>>, Close) = <<sh.active, Close>>
  BY <1>0, TwoCommands
<1>2. ThreadOK(sh, w, Append(c, Close))
  <2>1. CASE c = <<>>
    BY <1>1, <2>1, Zenon DEF Coherent, ThreadOK
  <2>2. CASE c = <<sh.active>> /\ sh.active # None
    BY <1>1, <2>2, Zenon DEF Coherent, ThreadOK, None, Close
  <2> QED BY <2>1, <2>2, Zenon DEF None, Close
<1> QED BY <1>2, Zenon DEF Coherent

(* The worker is started. *)
LEMMA OpenCoherent ==
  ASSUME NEW sh, NEW w, NEW c, NEW r, NEW next, Values(sh, w, c, r, next),
         Coherent(sh, w, c, r, next), w.at = "absent"
  PROVE  Coherent(sh, [w EXCEPT !.at = "recv"], c, r, next)
<1> DEFINE w2 == [w EXCEPT !.at = "recv"]
<1>1. w2.at = "recv" /\ w2.evaluation = w.evaluation /\ w2.result = w.result
  BY Zenon DEF Values, WorkerStates
<1> HIDE DEF w2
<1>2. ThreadOK(sh, w2, c) /\ RepliesOK(sh, w2, r, next)
  BY <1>1, Zenon DEF Coherent, ThreadOK, RepliesOK
<1> QED BY <1>2, Zenon DEF Coherent, w2

(* recv: the evaluation in progress, or Close when there is none. *)
LEMMA ReceiveCoherent ==
  ASSUME NEW sh, NEW w, NEW c, NEW r, NEW next, Values(sh, w, c, r, next),
         Coherent(sh, w, c, r, next), w.at = "recv", c # <<>>
  PROVE  /\ Head(c) = Close => Coherent(sh, [Idle EXCEPT !.at = "done"], Tail(c), r, next)
         /\ Head(c) # Close =>
              /\ Coherent(sh, [Idle EXCEPT !.at = "run", !.evaluation = Head(c)], Tail(c), r, next)
              /\ sh.active = Head(c)
         /\ Head(c) = Close => c = <<Close>> /\ sh.active = None
<1>0. sh.active \in Nat
  BY SandboxConstants DEF Values, SharedStates, Evaluations, None
<1>1. \/ sh.active = None /\ c = <<Close>>
      \/ sh.active # None /\ c \in {<<sh.active>>, <<sh.active, Close>>}
  BY Zenon DEF Coherent, ThreadOK
<1>2. CASE sh.active = None /\ c = <<Close>>
  <2> DEFINE w2 == [Idle EXCEPT !.at = "done"]
  <2>1. Head(c) = Close /\ Tail(c) = <<>>
    BY <1>2 DEF Close
  <2>2. w2.at = "done" /\ w2.evaluation = None /\ w2.result = "none"
    BY Zenon DEF Idle
  <2> HIDE DEF w2
  <2>3. ThreadOK(sh, w2, <<>>)
    BY <1>2, <2>2, Zenon DEF ThreadOK
  <2>4. RepliesOK(sh, w2, r, next)
    BY <1>2, <2>2, Zenon DEF Coherent, RepliesOK, Evaluations, None
  <2> QED BY <1>2, <2>1, <2>3, <2>4, Zenon DEF Coherent, w2
<1>3. CASE sh.active # None /\ c \in {<<sh.active>>, <<sh.active, Close>>}
  <2> DEFINE w2 == [Idle EXCEPT !.at = "run", !.evaluation = Head(c)]
  <2>1. Head(c) = sh.active
    BY <1>3
  <2>2. Tail(c) \in {<<>>, <<Close>>}
    <3>1. CASE c = <<sh.active>>
      BY <3>1
    <3>2. CASE c = <<sh.active, Close>>
      BY <3>2
    <3> QED BY <1>3, <3>1, <3>2, Zenon
  <2>3. w2.at = "run" /\ w2.evaluation = sh.active /\ w2.result = "none"
    BY <2>1, Zenon DEF Idle
  <2> HIDE DEF w2
  <2>4. ThreadOK(sh, w2, Tail(c))
    BY <1>3, <2>2, <2>3, Zenon DEF ThreadOK
  <2>5. RepliesOK(sh, w2, r, next)
    BY <2>3, Zenon DEF Coherent, RepliesOK
  <2> QED BY <1>3, <2>1, <2>4, <2>5, Zenon DEF Coherent, w2, None, Close
<1> QED BY <1>1, <1>2, <1>3, Zenon

(* recv fails. *)
LEMMA DisconnectedCoherent ==
  ASSUME NEW sh, NEW w, NEW c, NEW r, NEW next, Values(sh, w, c, r, next),
         Coherent(sh, w, c, r, next), w.at = "recv", c = <<>>
  PROVE  Coherent(sh, [w EXCEPT !.at = "done"], c, r, next) /\ sh.active = None
<1> DEFINE w2 == [w EXCEPT !.at = "done"]
<1>1. w2.at = "done" /\ w2.evaluation = w.evaluation
  BY Zenon DEF Values, WorkerStates
<1> HIDE DEF w2
<1>2. sh.active = None
  BY Zenon DEF Coherent, ThreadOK
<1>3. ThreadOK(sh, w2, c) /\ RepliesOK(sh, w2, r, next)
  BY <1>1, <1>2, Zenon DEF Coherent, ThreadOK, RepliesOK
<1> QED BY <1>2, <1>3, Zenon DEF Coherent, w2

(* The guest reaches a poll, or goes on after it. *)
LEMMA TurnCoherent ==
  ASSUME NEW sh, NEW w, NEW c, NEW r, NEW next, Values(sh, w, c, r, next),
         Coherent(sh, w, c, r, next), w.at \in {"run", "poll"}, NEW a \in {"run", "poll"}
  PROVE  Coherent(sh, [w EXCEPT !.at = a], c, r, next)
<1> DEFINE w2 == [w EXCEPT !.at = a]
<1>1. w2.at = a /\ w2.evaluation = w.evaluation /\ w2.result = w.result
  BY Zenon DEF Values, WorkerStates
<1> HIDE DEF w2
<1>2. ThreadOK(sh, w2, c)
  BY <1>1, Zenon DEF Coherent, ThreadOK
<1>3. RepliesOK(sh, w2, r, next)
  BY <1>1, Zenon DEF Coherent, RepliesOK
<1> QED BY <1>2, <1>3, Zenon DEF Coherent, w2

(* run_controlled ends. *)
LEMMA RunCoherent ==
  ASSUME NEW sh, NEW w, NEW c, NEW r, NEW next, Values(sh, w, c, r, next),
         Coherent(sh, w, c, r, next), w.at \in {"run", "poll"}, NEW o \in Outcomes
  PROVE  Coherent(sh, [w EXCEPT !.at = "finish", !.result = o], c, r, next)
<1> DEFINE w2 == [w EXCEPT !.at = "finish", !.result = o]
<1>1. w2.at = "finish" /\ w2.evaluation = w.evaluation /\ w2.result = o
  BY Zenon DEF Values, WorkerStates
<1> HIDE DEF w2
<1>2. ThreadOK(sh, w2, c)
  BY <1>1, Zenon DEF Coherent, ThreadOK
<1>3. RepliesOK(sh, w2, r, next)
  BY <1>1, Zenon DEF Coherent, RepliesOK
<1> QED BY <1>2, <1>3, Zenon DEF Coherent, w2

(* The worker dies under its evaluation. *)
LEMMA PanicCoherent ==
  ASSUME NEW sh, NEW w, NEW c, NEW r, NEW next, Values(sh, w, c, r, next),
         Coherent(sh, w, c, r, next), w.at = "run"
  PROVE  Coherent(sh, [w EXCEPT !.at = "panicked"], <<>>, [r EXCEPT ![w.evaluation] = "dropped"], next)
<1> DEFINE w2 == [w EXCEPT !.at = "panicked"]
           r2 == [r EXCEPT ![w.evaluation] = "dropped"]
<1>1. /\ w2.at = "panicked" /\ w2.evaluation = w.evaluation
      /\ w.evaluation \in Evaluations /\ sh.active = w.evaluation
  BY Zenon DEF Values, WorkerStates, Coherent, ThreadOK
<1>2. \A e \in Evaluations : r2[e] = IF e = w.evaluation THEN "dropped" ELSE r[e]
  BY Zenon DEF Values
<1> HIDE DEF w2, r2
<1>3. ThreadOK(sh, w2, <<>>)
  BY <1>1, Zenon DEF Coherent, ThreadOK
<1>4. RepliesOK(sh, w2, r2, next)
  <2>1. \A e \in Evaluations : r[e] # "none" => e < next
    BY Zenon DEF Coherent, RepliesOK
  <2>2. \A e \in Evaluations : r[e] = "pending" <=> e = sh.active
    BY Zenon DEF Coherent, RepliesOK
  <2>3. \A e \in Evaluations : r2[e] # "none" => e < next
    BY <1>1, <1>2, <2>1, <2>2, Zenon
  <2>4. \A e \in Evaluations : r2[e] # "pending"
    BY <1>1, <1>2, <2>2, Zenon
  <2> QED BY <1>1, <2>3, <2>4, Zenon DEF Coherent, RepliesOK
<1> QED BY <1>3, <1>4, Zenon DEF Coherent, w2, r2

(* finish_evaluation: the evaluation of the worker is the active one. *)
LEMMA FinishCoherent ==
  ASSUME NEW sh, NEW w, NEW c, NEW r, NEW next, Values(sh, w, c, r, next),
         Coherent(sh, w, c, r, next), w.at = "finish", NEW sh2 \in SharedStates,
         sh2.active = None,
         sh2.state = CASE w.result = "ok" -> "open"
                       [] w.result = "cancelled" -> "cancelled"
                       [] OTHER -> "failed",
         w.result = "ok" => sh2.error = sh.error, w.result # "ok" => sh2.error
  PROVE  sh.active = w.evaluation /\ Coherent(sh2, [w EXCEPT !.at = "reply"], c, r, next)
<1> DEFINE w2 == [w EXCEPT !.at = "reply"]
<1>1. /\ w2.at = "reply" /\ w2.evaluation = w.evaluation /\ w2.result = w.result
      /\ w.evaluation \in Evaluations /\ sh.active = w.evaluation /\ w.result \in Outcomes
  BY Zenon DEF Values, WorkerStates, Coherent, ThreadOK
<1> HIDE DEF w2
<1>2. SharedOK(sh2)
  <2>1. sh.state \in {"running", "cancelling"} /\ ~sh.error
    BY <1>1, Zenon DEF Coherent, SharedOK, ThreadOK
  <2> QED BY <1>1, <2>1, Zenon DEF SharedOK, Outcomes
<1>3. ThreadOK(sh2, w2, c)
  BY <1>1, Zenon DEF Coherent, ThreadOK
<1>4. RepliesOK(sh2, w2, r, next)
  <2>1. \A e \in Evaluations : r[e] = "pending" <=> e = w.evaluation
    BY <1>1, Zenon DEF Coherent, RepliesOK
  <2>2. next \in Nat /\ None < next /\ \A e \in Evaluations : e # None
    BY SandboxConstants DEF Values, None, Evaluations
  <2> QED BY <1>1, <2>1, <2>2, Zenon DEF Coherent, RepliesOK
<1> QED BY <1>1, <1>2, <1>3, <1>4, Zenon DEF Coherent, w2

(* reply.send. *)
LEMMA ReplyCoherent ==
  ASSUME NEW sh, NEW w, NEW c, NEW r, NEW next, Values(sh, w, c, r, next),
         Coherent(sh, w, c, r, next), w.at = "reply"
  PROVE  Coherent(sh, Idle, c, [r EXCEPT ![w.evaluation] = w.result], next)
<1> DEFINE r2 == [r EXCEPT ![w.evaluation] = w.result]
<1>1. /\ Idle.at = "recv" /\ Idle.evaluation = None
      /\ w.evaluation \in Evaluations /\ w.result \in Outcomes
  BY Zenon DEF Values, WorkerStates, Coherent, ThreadOK, Idle
<1>2. \A e \in Evaluations : r2[e] = IF e = w.evaluation THEN w.result ELSE r[e]
  BY Zenon DEF Values
<1> HIDE DEF r2
<1>3. ThreadOK(sh, Idle, c)
  BY <1>1, Zenon DEF Coherent, ThreadOK
<1>4. RepliesOK(sh, Idle, r2, next)
  <2>1. \A e \in Evaluations : r[e] # "none" => e < next
    BY Zenon DEF Coherent, RepliesOK
  <2>2. \A e \in Evaluations : r[e] = "pending" <=> e = sh.active \/ e = w.evaluation
    BY Zenon DEF Coherent, RepliesOK
  <2>3. \A e \in Evaluations : r2[e] # "none" => e < next
    BY <1>1, <1>2, <2>1, <2>2, Zenon
  <2>4. w.evaluation # sh.active
    <3>1. sh.active # None => w.evaluation < sh.active
      BY Zenon DEF Coherent, RepliesOK
    <3>2. w.evaluation \in Nat /\ w.evaluation # None /\ sh.active \in Nat
      BY <1>1, SandboxConstants DEF Evaluations, None, Values, SharedStates
    <3> QED BY <3>1, <3>2
  <2>5. ASSUME NEW e \in Evaluations PROVE r2[e] = "pending" <=> e = sh.active
    <3>1. CASE e = w.evaluation
      BY <1>1, <1>2, <2>4, <3>1, Zenon DEF Outcomes
    <3>2. CASE e # w.evaluation
      BY <1>2, <2>2, <3>2, Zenon
    <3> QED BY <3>1, <3>2, Zenon
  <2> QED BY <1>1, <2>3, <2>5, Zenon DEF Coherent, RepliesOK
<1> QED BY <1>3, <1>4, Zenon DEF Coherent, r2

----------------------------------------------------------------------------
(* One step, as seen from each sandbox. *)

(* A step leaves the two threads of c and its channels alone. *)
Same(c) ==
  /\ shared'[c] = shared[c] /\ worker'[c] = worker[c] /\ commands'[c] = commands[c]
  /\ replies'[c] = replies[c] /\ flag'[c] = flag[c]

(* The types of one sandbox. *)
LEMMA BoxValues ==
  ASSUME TypeOK, NEW b \in Sandboxes
  PROVE  Values(shared[b], worker[b], commands[b], replies[b], nextEvaluation[b])
BY Zenon DEF TypeOK, SandboxTypeOK, Values, Commands

(* What a step of the worker does to its own sandbox and to the others: it
   keeps the sandbox coherent, it ends no sandbox that has not been told to
   close, and it changes the shared record only while an evaluation is active
   (run_worker, finish_evaluation). *)
LEMMA WorkerKeeps ==
  ASSUME TypeOK, NEW b \in Sandboxes, SandboxOK(b), Worker(b), UNCHANGED nextEvaluation
  PROVE  /\ SandboxOK(b)'
         /\ worker[b].at # "absent" /\ worker'[b].at # "absent"
         /\ b \in senders /\ FreshBox(b) => FreshBox(b)'
         /\ UNCHANGED <<asked, flag, senders>>
         /\ shared'[b] # shared[b] => shared[b].active # None
         /\ \A c \in Sandboxes : c # b => Same(c)
<1> DEFINE sh == shared[b]
           w  == worker[b]
           c  == commands[b]
           r  == replies[b]
           n  == nextEvaluation[b]
<1>a. Values(sh, w, c, r, n)
  BY BoxValues, Zenon
<1>b. Coherent(sh, w, c, r, n)
  BY Zenon DEF SandboxOK, Coherent
<1>t. /\ shared = [x \in Sandboxes |-> shared[x]] /\ worker = [x \in Sandboxes |-> worker[x]]
      /\ commands = [x \in Sandboxes |-> commands[x]] /\ replies = [x \in Sandboxes |-> replies[x]]
  BY Zenon DEF TypeOK, SandboxTypeOK
<1>c. ASSUME NEW sh2, NEW w2, NEW c2, NEW r2, Coherent(sh2, w2, c2, r2, n),
             shared' = [shared EXCEPT ![b] = sh2], worker' = [worker EXCEPT ![b] = w2],
             commands' = [commands EXCEPT ![b] = c2], replies' = [replies EXCEPT ![b] = r2],
             UNCHANGED <<flag, asked, senders>>,
             w.at # "absent", w2.at # "absent", sh2 # sh => sh.active # None,
             b \in senders /\ Fresh(sh, w, c) => Fresh(sh2, w2, c2)
      PROVE  /\ SandboxOK(b)'
             /\ worker[b].at # "absent" /\ worker'[b].at # "absent"
             /\ b \in senders /\ FreshBox(b) => FreshBox(b)'
             /\ UNCHANGED <<asked, flag, senders>>
             /\ shared'[b] # shared[b] => shared[b].active # None
             /\ \A x \in Sandboxes : x # b => Same(x)
  <2>1. shared'[b] = sh2 /\ worker'[b] = w2 /\ commands'[b] = c2 /\ replies'[b] = r2
    BY <1>c, <1>t, Zenon
  <2>2. SandboxOK(b)'
    BY <1>c, <2>1, Zenon DEF SandboxOK, Coherent
  <2>3. \A x \in Sandboxes : x # b => Same(x)
    BY <1>c, <1>t, Zenon DEF Same
  <2>4. b \in senders /\ FreshBox(b) => FreshBox(b)'
    BY <1>c, <2>1, Zenon DEF FreshBox
  <2> QED BY <1>c, <2>1, <2>2, <2>3, <2>4, Zenon
<1>d. /\ shared = [shared EXCEPT ![b] = sh] /\ worker = [worker EXCEPT ![b] = w]
      /\ commands = [commands EXCEPT ![b] = c] /\ replies = [replies EXCEPT ![b] = r]
  BY <1>t, Zenon
<1>1. CASE Receive(b)
  <2> DEFINE w2 == IF Head(c) = Close
                   THEN [Idle EXCEPT !.at = "done"]
                   ELSE [Idle EXCEPT !.at = "run", !.evaluation = Head(c)]
             c2 == Tail(c)
  <2>1. /\ commands' = [commands EXCEPT ![b] = c2] /\ worker' = [worker EXCEPT ![b] = w2]
        /\ UNCHANGED <<shared, flag, asked, replies, senders>> /\ w.at = "recv" /\ c # <<>>
    BY <1>1, Zenon DEF Receive
  <2>2. Coherent(sh, w2, c2, r, n)
    BY <1>a, <1>b, <2>1, ReceiveCoherent, Zenon
  <2>3. w2.at # "absent" /\ (Head(c) # Close => w2.at = "run")
    BY Zenon DEF Idle
  <2>4. Fresh(sh, w, c) => Fresh(sh, w2, c2)
    <3>1. SUFFICES ASSUME Fresh(sh, w, c) PROVE Fresh(sh, w2, c2)
      BY Zenon
    <3>2. Head(c) = Close => c = <<Close>>
      <4> HIDE DEF sh, w, c, r, n
      <4> QED BY <1>a, <1>b, <2>1, ReceiveCoherent, Zenon
    <3>3. c = <<sh.active>> /\ Head(c) # Close
      BY <2>1, <3>1, <3>2, Zenon DEF Fresh
    <3>4. Tail(<<sh.active>>) = <<>>
      OBVIOUS
    <3> QED BY <2>3, <3>3, <3>4 DEF Fresh
  <2> HIDE DEF w2, c2, sh, w, c, r, n
  <2> QED BY <1>c, <1>d, <2>1, <2>2, <2>3, <2>4, Zenon
<1>2. CASE Disconnected(b)
  <2> DEFINE w2 == [w EXCEPT !.at = "done"]
  <2>1. /\ worker' = [worker EXCEPT ![b] = w2] /\ b \notin senders /\ w.at = "recv" /\ c = <<>>
        /\ UNCHANGED <<shared, flag, asked, commands, replies, senders>>
    BY <1>2, Zenon DEF Disconnected
  <2>2. Coherent(sh, w2, c, r, n)
    BY <1>a, <1>b, <2>1, DisconnectedCoherent, Zenon
  <2>3. w2.at # "absent"
    BY <1>a, Zenon DEF Values, WorkerStates
  <2> HIDE DEF w2, sh, w, c, r, n
  <2> QED BY <1>c, <1>d, <2>1, <2>2, <2>3, Zenon
<1>3. CASE RunControlled(b) \/ Interrupted(b)
  <2>0. PICK o \in Outcomes : worker' = [worker EXCEPT ![b].at = "finish", ![b].result = o]
    BY <1>3, Zenon DEF RunControlled, Interrupted
  <2> DEFINE w2 == [w EXCEPT !.at = "finish", !.result = o]
  <2>1. /\ worker' = [worker EXCEPT ![b] = w2] /\ w.at \in {"run", "poll"}
        /\ UNCHANGED <<shared, flag, asked, commands, replies, senders>>
    BY <1>3, <2>0, Zenon DEF RunControlled, Interrupted
  <2>2. Coherent(sh, w2, c, r, n)
    BY <1>a, <1>b, <2>1, RunCoherent, Zenon
  <2>3. w2.at = "finish"
    BY <1>a, Zenon DEF Values, WorkerStates
  <2>4. Fresh(sh, w, c) => Fresh(sh, w2, c)
    BY <2>3, Zenon DEF Fresh
  <2> HIDE DEF w2, sh, w, c, r, n
  <2> QED BY <1>c, <1>d, <2>1, <2>2, <2>3, <2>4, Zenon
<1>4. CASE WorkerPanics(b)
  <2> DEFINE w2 == [w EXCEPT !.at = "panicked"]
             r2 == [r EXCEPT ![w.evaluation] = "dropped"]
  <2>1. /\ worker' = [worker EXCEPT ![b] = w2] /\ replies' = [replies EXCEPT ![b] = r2]
        /\ commands' = [commands EXCEPT ![b] = <<>>] /\ w.at = "run"
        /\ UNCHANGED <<shared, flag, asked, senders>>
    BY <1>4, Zenon DEF WorkerPanics
  <2>2. Coherent(sh, w2, <<>>, r2, n)
    BY <1>a, <1>b, <2>1, PanicCoherent, Zenon
  <2>3. w2.at = "panicked"
    BY <1>a, Zenon DEF Values, WorkerStates
  <2>4. Fresh(sh, w2, <<>>)
    BY <2>3, Zenon DEF Fresh
  <2> HIDE DEF w2, r2, sh, w, c, r, n
  <2> QED BY <1>c, <1>d, <2>1, <2>2, <2>3, <2>4, Zenon
<1>5. CASE FinishEvaluation(b)
  <2> DEFINE w2  == [w EXCEPT !.at = "reply"]
             sh2 == CASE w.result = "ok" -> [state |-> "open", active |-> None, error |-> sh.error]
                      [] w.result = "cancelled" ->
                           [state |-> "cancelled", active |-> None, error |-> TRUE]
                      [] OTHER -> [state |-> "failed", active |-> None, error |-> TRUE]
  <2>0. w.at = "finish"
    BY <1>5, Zenon DEF FinishEvaluation
  <2>a. sh.active = w.evaluation /\ sh.active # None /\ c \in {<<>>, <<Close>>}
    BY <1>b, <2>0, Zenon DEF Coherent, ThreadOK
  <2>1. /\ worker' = [worker EXCEPT ![b] = w2] /\ shared' = [shared EXCEPT ![b] = sh2]
        /\ UNCHANGED <<flag, asked, commands, replies, senders>>
    BY <1>5, <2>a, Zenon DEF FinishEvaluation
  <2>2. /\ sh2 \in SharedStates /\ sh2.active = None
        /\ sh2.state = CASE w.result = "ok" -> "open"
                         [] w.result = "cancelled" -> "cancelled"
                         [] OTHER -> "failed"
        /\ w.result = "ok" => sh2.error = sh.error
        /\ w.result # "ok" => sh2.error
    BY <1>a, Zenon DEF Values, SharedStates, States
  <2>3. w2.at = "reply"
    BY <1>a, Zenon DEF Values, WorkerStates
  <2>4. Coherent(sh2, w2, c, r, n)
    <3> HIDE DEF sh2, sh
    <3> QED BY <1>a, <1>b, <2>0, <2>2, FinishCoherent, Zenon
  <2>5. Fresh(sh, w, c) => Fresh(sh2, w2, c)
    BY <2>a, <2>3, Zenon DEF Fresh
  <2> HIDE DEF w2, sh2, sh, w, c, r, n
  <2> QED BY <1>c, <1>d, <2>a, <2>0, <2>1, <2>3, <2>4, <2>5, Zenon
<1>6. CASE Reply(b)
  <2> DEFINE r2 == [r EXCEPT ![w.evaluation] = w.result]
  <2>1. /\ worker' = [worker EXCEPT ![b] = Idle] /\ replies' = [replies EXCEPT ![b] = r2]
        /\ UNCHANGED <<shared, flag, asked, commands, senders>> /\ w.at = "reply"
    BY <1>6, Zenon DEF Reply
  <2>2. Coherent(sh, Idle, c, r2, n)
    BY <1>a, <1>b, <2>1, ReplyCoherent, Zenon
  <2>3. Idle.at = "recv"
    BY Zenon DEF Idle
  <2>4. Fresh(sh, w, c) => Fresh(sh, Idle, c)
    BY <2>3, Zenon DEF Fresh
  <2> HIDE DEF r2, sh, w, c, r, n
  <2> QED BY <1>c, <1>d, <2>1, <2>2, <2>3, <2>4, Zenon
<1>7. CASE NextForm(b) \/ Poll(b)
  <2>0. PICK a \in {"run", "poll"} : worker' = [worker EXCEPT ![b].at = a]
    BY <1>7, Zenon DEF NextForm, Poll
  <2> DEFINE w2 == [w EXCEPT !.at = a]
  <2>1. /\ worker' = [worker EXCEPT ![b] = w2] /\ w.at \in {"run", "poll"}
        /\ UNCHANGED <<shared, flag, asked, commands, replies, senders>>
    BY <1>7, <2>0, Zenon DEF NextForm, Poll
  <2>2. Coherent(sh, w2, c, r, n)
    BY <1>a, <1>b, <2>1, TurnCoherent, Zenon
  <2>3. w2.at = a
    BY <1>a, Zenon DEF Values, WorkerStates
  <2>4. Fresh(sh, w, c) => Fresh(sh, w2, c)
    BY <2>3, Zenon DEF Fresh
  <2> HIDE DEF w2, sh, w, c, r, n
  <2> QED BY <1>c, <1>d, <2>1, <2>2, <2>3, <2>4, Zenon
<1> QED BY <1>1, <1>2, <1>3, <1>4, <1>5, <1>6, <1>7, Zenon DEF Worker

(* A sandbox the step leaves alone stays as it was. *)
LEMMA SameBox ==
  ASSUME NEW c \in Sandboxes, Same(c), nextEvaluation'[c] = nextEvaluation[c]
  PROVE  (SandboxOK(c) => SandboxOK(c)') /\ (FreshBox(c) => FreshBox(c)')
BY Zenon DEF Same, SandboxOK, FreshBox

(* cancel: only the state of the active evaluation changes. *)
LEMMA CancelKeeps ==
  ASSUME TypeOK, NEW b \in Sandboxes, NEW e \in Evaluations \cup {None}, SandboxOK(b),
         Cancel(b, e), UNCHANGED nextEvaluation
  PROVE  /\ SandboxOK(b)' /\ (FreshBox(b) => FreshBox(b)')
         /\ UNCHANGED <<commands, worker, replies, senders>>
         /\ shared'[b].active = shared[b].active
         /\ shared'[b] # shared[b] =>
              shared[b].active # None /\ shared'[b].state = "cancelling"
         /\ \A c \in Sandboxes : c # b => Same(c)
<1> DEFINE sh2 == [shared[b] EXCEPT !.state = "cancelling"]
<1>1. /\ UNCHANGED <<commands, worker, replies, senders>>
      /\ \/ UNCHANGED <<flag, shared>>
         \/ /\ shared[b].active # None /\ shared' = [shared EXCEPT ![b] = sh2]
            /\ flag' = [flag EXCEPT ![b] = @ \cup {e}]
  BY Zenon DEF Cancel
<1>2. Values(shared[b], worker[b], commands[b], replies[b], nextEvaluation[b])
  BY BoxValues, Zenon
<1>3. sh2.active = shared[b].active /\ sh2.state = "cancelling"
  BY <1>2, Zenon DEF Values, SharedStates
<1>4. CASE UNCHANGED <<flag, shared>>
  <2>1. \A c \in Sandboxes : Same(c)
    BY <1>1, <1>4, Zenon DEF Same
  <2> QED BY <1>1, <1>4, <2>1, SameBox, Zenon
<1>5. CASE /\ shared[b].active # None /\ shared' = [shared EXCEPT ![b] = sh2]
           /\ flag' = [flag EXCEPT ![b] = @ \cup {e}]
  <2>1. Coherent(sh2, worker[b], commands[b], replies[b], nextEvaluation[b])
    BY <1>2, <1>5, CancelCoherent, Zenon DEF SandboxOK, Coherent
  <2> HIDE DEF sh2
  <2>2. shared'[b] = sh2
    BY <1>5, Zenon DEF TypeOK, SandboxTypeOK
  <2>3. SandboxOK(b)'
    BY <1>1, <2>1, <2>2, Zenon DEF SandboxOK, Coherent
  <2>4. \A c \in Sandboxes : c # b => Same(c)
    BY <1>1, <1>5, Zenon DEF Same, TypeOK, SandboxTypeOK
  <2>5. FreshBox(b) => FreshBox(b)'
    BY <1>1, <1>3, <2>2, Zenon DEF FreshBox, Fresh
  <2> QED BY <1>1, <1>3, <1>5, <2>2, <2>3, <2>4, <2>5, Zenon
<1> QED BY <1>1, <1>4, <1>5, Zenon

(* begin and the command that follows it. *)
LEMMA BeginKeeps ==
  ASSUME TypeOK, NEW b \in Sandboxes, SandboxOK(b), FreshBox(b), CanBegin(b),
         nextEvaluation[b] \in Evaluations, Begin(b, nextEvaluation[b]),
         nextEvaluation' = [nextEvaluation EXCEPT ![b] = @ + 1]
  PROVE  /\ SandboxOK(b)' /\ FreshBox(b)'
         /\ UNCHANGED <<asked, flag, worker, senders>>
         /\ \A c \in Sandboxes : c # b => Same(c) /\ nextEvaluation'[c] = nextEvaluation[c]
<1> DEFINE e   == nextEvaluation[b]
           sh2 == [state |-> "running", active |-> e, error |-> FALSE]
           r2  == [replies[b] EXCEPT ![e] = "pending"]
           c2  == Append(commands[b], e)
<1>1. /\ shared' = [shared EXCEPT ![b] = sh2] /\ commands' = [commands EXCEPT ![b] = c2]
      /\ replies' = [replies EXCEPT ![b] = r2] /\ UNCHANGED <<flag, asked, worker, senders>>
  BY Zenon DEF Begin
<1>2. Values(shared[b], worker[b], commands[b], replies[b], e)
  BY BoxValues, Zenon
<1>3. Coherent(sh2, worker[b], c2, r2, e + 1)
  <2>1. /\ Coherent(shared[b], worker[b], commands[b], replies[b], e)
        /\ shared[b].state = "open" /\ commands[b] \in {<<>>, <<shared[b].active>>}
        /\ commands[b] # <<Close>> /\ worker[b].at \notin {"absent", "done"}
    BY Zenon DEF SandboxOK, Coherent, FreshBox, Fresh, CanBegin
  <2> HIDE DEF e
  <2> QED BY <1>2, <2>1, BeginCoherent, Zenon DEF e
<1>4. Fresh(sh2, worker[b], c2)
  <2>1. commands[b] = <<>> /\ e # Close /\ sh2.active = e /\ worker[b].at \notin {"absent", "done"}
    BY SandboxConstants DEF FreshBox, Fresh, CanBegin, None, Close, Evaluations
  <2>2. c2 = <<e>>
    BY <2>1
  <2> HIDE DEF sh2, c2, e
  <2> QED BY <2>1, <2>2, Zenon DEF Fresh
<1>5. nextEvaluation'[b] = e + 1
  BY Zenon DEF TypeOK
<1> HIDE DEF sh2, r2, c2
<1>6. shared'[b] = sh2 /\ commands'[b] = c2 /\ replies'[b] = r2 /\ worker'[b] = worker[b]
  BY <1>1, Zenon DEF TypeOK, SandboxTypeOK
<1>7. SandboxOK(b)'
  BY <1>3, <1>5, <1>6, Zenon DEF SandboxOK, Coherent
<1>8. FreshBox(b)'
  BY <1>4, <1>6, Zenon DEF FreshBox
<1>9. \A c \in Sandboxes : c # b => Same(c) /\ nextEvaluation'[c] = nextEvaluation[c]
  BY <1>1, Zenon DEF Same, TypeOK, SandboxTypeOK
<1> QED BY <1>1, <1>7, <1>8, <1>9, Zenon

(* A call that allocated an id and was refused. *)
LEMMA RefusedKeeps ==
  ASSUME TypeOK, NEW b \in Sandboxes, SandboxOK(b), UNCHANGED sandboxVars,
         nextEvaluation' = [nextEvaluation EXCEPT ![b] = @ + 1]
  PROVE  /\ SandboxOK(b)' /\ (FreshBox(b) => FreshBox(b)')
         /\ \A c \in Sandboxes : c # b => Same(c) /\ nextEvaluation'[c] = nextEvaluation[c]
<1>1. Values(shared[b], worker[b], commands[b], replies[b], nextEvaluation[b])
  BY BoxValues, Zenon
<1>2. nextEvaluation[b] \in Nat /\ nextEvaluation'[b] = nextEvaluation[b] + 1
  BY SandboxConstants DEF TypeOK
<1>3. Coherent(shared[b], worker[b], commands[b], replies[b], nextEvaluation[b] + 1)
  BY <1>1, <1>2, RefusedCoherent, Zenon DEF SandboxOK, Coherent
<1>4. SandboxOK(b)'
  BY <1>2, <1>3, Zenon DEF SandboxOK, Coherent, sandboxVars
<1>5. FreshBox(b) => FreshBox(b)'
  BY Zenon DEF FreshBox, sandboxVars
<1>6. \A c \in Sandboxes : c # b => Same(c) /\ nextEvaluation'[c] = nextEvaluation[c]
  BY Zenon DEF Same, sandboxVars, TypeOK
<1> QED BY <1>4, <1>5, <1>6, Zenon

(* Close is sent to a sandbox once. *)
LEMMA SendCloseKeeps ==
  ASSUME TypeOK, NEW b \in Sandboxes, SandboxOK(b), FreshBox(b), SendClose(b),
         UNCHANGED nextEvaluation
  PROVE  /\ SandboxOK(b)'
         /\ UNCHANGED <<shared, flag, asked, worker, replies, senders>>
         /\ \A c \in Sandboxes : c # b => Same(c)
<1>1. UNCHANGED <<shared, flag, asked, worker, replies, senders>>
  BY Zenon DEF SendClose
<1>2. CASE worker[b].at = "panicked"
  <2>1. commands' = commands
    BY <1>2, Zenon DEF SendClose
  <2>2. \A c \in Sandboxes : Same(c)
    BY <1>1, <2>1, Zenon DEF Same
  <2> QED BY <1>1, <2>2, SameBox, Zenon
<1>3. CASE worker[b].at # "panicked"
  <2> DEFINE c2 == Append(commands[b], Close)
  <2>1. commands' = [commands EXCEPT ![b] = c2]
    BY <1>3, Zenon DEF SendClose
  <2>2. Values(shared[b], worker[b], commands[b], replies[b], nextEvaluation[b])
    BY BoxValues, Zenon
  <2>3. Coherent(shared[b], worker[b], c2, replies[b], nextEvaluation[b])
    BY <1>3, <2>2, CloseCoherent, Zenon DEF SandboxOK, Coherent, FreshBox, Fresh
  <2> HIDE DEF c2
  <2>4. commands'[b] = c2
    BY <2>1, Zenon DEF TypeOK, SandboxTypeOK
  <2>5. SandboxOK(b)'
    BY <1>1, <2>3, <2>4, Zenon DEF SandboxOK, Coherent
  <2>6. \A c \in Sandboxes : c # b => Same(c)
    BY <1>1, <2>1, Zenon DEF Same, TypeOK, SandboxTypeOK
  <2> QED BY <1>1, <2>5, <2>6, Zenon
<1> QED BY <1>2, <1>3, Zenon

(* The worker thread of a new sandbox. *)
LEMMA OpenKeeps ==
  ASSUME TypeOK, NEW b \in Sandboxes, SandboxOK(b), Open(b), worker[b].at = "absent",
         UNCHANGED nextEvaluation
  PROVE  /\ SandboxOK(b)' /\ FreshBox(b)'
         /\ UNCHANGED <<shared, flag, asked, commands, replies>>
         /\ \A c \in Sandboxes : c # b => Same(c)
<1> DEFINE w2 == [worker[b] EXCEPT !.at = "recv"]
<1>1. /\ worker' = [worker EXCEPT ![b] = w2] /\ UNCHANGED <<shared, flag, asked, commands, replies>>
  BY Zenon DEF Open
<1>2. Values(shared[b], worker[b], commands[b], replies[b], nextEvaluation[b])
  BY BoxValues, Zenon
<1>3. Coherent(shared[b], w2, commands[b], replies[b], nextEvaluation[b])
  BY <1>2, OpenCoherent, Zenon DEF SandboxOK, Coherent
<1>4. w2.at = "recv"
  BY <1>2, Zenon DEF Values, WorkerStates
<1> HIDE DEF w2
<1>5. worker'[b] = w2
  BY <1>1, Zenon DEF TypeOK, SandboxTypeOK
<1>6. SandboxOK(b)'
  BY <1>1, <1>3, <1>5, Zenon DEF SandboxOK, Coherent
<1>7. commands[b] = <<>>
  BY Zenon DEF SandboxOK, ThreadOK
<1>8. FreshBox(b)'
  BY <1>1, <1>4, <1>5, <1>7 DEF FreshBox, Fresh
<1>9. \A c \in Sandboxes : c # b => Same(c)
  BY <1>1, Zenon DEF Same, TypeOK, SandboxTypeOK
<1> QED BY <1>1, <1>6, <1>8, <1>9, Zenon

----------------------------------------------------------------------------
(* Every sandbox stays coherent, and the Kernel's registry with the threads. *)

AllBoxes == \A b \in Sandboxes : SandboxOK(b)

(* A step that adds and removes no entry. *)
LEMMA RegistryFrame ==
  ASSUME TypeOK, RegistryOK, UNCHANGED <<entries, nextSandbox>>,
         \A c \in Sandboxes : worker'[c].at = "absent" <=> worker[c].at = "absent",
         \A c \in Sandboxes :
           Unclosed(c)' => Unclosed(c) /\ (FreshBox(c) /\ c \in senders => FreshBox(c)' /\ c \in senders'),
         kernel'.op \in Closing => kernel.op \in Closing /\ kernel'.sandbox = kernel.sandbox,
         kernel'.op \in {"cancel", "status-active", "status-error", "status-return"} =>
           kernel'.sandbox \in entries,
         kernel'.op = "gone" => kernel.op = "gone"
  PROVE  RegistryOK'
<1>1. nextSandbox' > 0 /\ \A b \in Sandboxes : b >= nextSandbox' => worker'[b].at = "absent" /\ b \notin entries'
  BY Zenon DEF RegistryOK
<1>2. kernel'.op \in Closing =>
       kernel'.sandbox \in Sandboxes \ entries' /\ worker'[kernel'.sandbox].at # "absent"
  BY Zenon DEF RegistryOK
<1>3. \A b \in Sandboxes : Unclosed(b)' => b \in senders' /\ FreshBox(b)'
  BY Zenon DEF RegistryOK
<1>4. /\ kernel'.op \in {"cancel", "status-active", "status-error", "status-return"} =>
           kernel'.sandbox \in entries'
      /\ kernel'.op = "gone" => entries' = {}
  BY Zenon DEF RegistryOK
<1> QED BY <1>1, <1>2, <1>3, <1>4, Zenon DEF RegistryOK

(* A step that keeps the Kernel's registry, call and senders, and every channel
   that has not got Close. *)
LEMMA QuietFrame ==
  ASSUME TypeOK, RegistryOK, UNCHANGED <<kernel, entries, nextSandbox, senders>>,
         \A c \in Sandboxes : worker'[c].at = "absent" <=> worker[c].at = "absent",
         \A c \in Sandboxes : FreshBox(c) /\ c \in senders => FreshBox(c)'
  PROVE  RegistryOK'
<1>1. \A c \in Sandboxes : Unclosed(c)' <=> Unclosed(c)
  BY Zenon DEF Unclosed
<1>2. /\ kernel'.op = kernel.op /\ kernel'.sandbox = kernel.sandbox
      /\ kernel.op \in {"cancel", "status-active", "status-error", "status-return"} =>
           kernel.sandbox \in entries
  BY Zenon DEF RegistryOK
<1> QED BY <1>1, <1>2, RegistryFrame, Zenon

(* The same for a step that touches no sandbox at all. *)
LEMMA SandboxFrame ==
  ASSUME TypeOK, AllBoxes, UNCHANGED <<sandboxVars, nextEvaluation>>
  PROVE  /\ AllBoxes' /\ senders' = senders
         /\ \A c \in Sandboxes : FreshBox(c) => FreshBox(c)'
         /\ \A c \in Sandboxes : worker'[c].at = "absent" <=> worker[c].at = "absent"
<1>1. \A c \in Sandboxes : Same(c) /\ nextEvaluation'[c] = nextEvaluation[c]
  BY Zenon DEF Same, sandboxVars
<1> QED BY <1>1, SameBox, Zenon DEF AllBoxes, sandboxVars

(* A step of one worker (run_worker). *)
LEMMA WorkerBoxes ==
  ASSUME TypeOK, AllBoxes, RegistryOK, NEW b \in Sandboxes, WorkerStep(b)
  PROVE  AllBoxes' /\ RegistryOK'
<1>1. /\ Worker(b)
      /\ UNCHANGED <<nextEvaluation, kernel, entries, nextSandbox>>
  BY Zenon DEF WorkerStep, kernelVars, registryVars
<1>2. /\ SandboxOK(b)'
      /\ worker[b].at # "absent" /\ worker'[b].at # "absent"
      /\ b \in senders /\ FreshBox(b) => FreshBox(b)'
      /\ UNCHANGED senders
      /\ \A c \in Sandboxes : c # b => Same(c)
  BY <1>1, WorkerKeeps, Zenon DEF AllBoxes
<1>3. \A c \in Sandboxes : c # b =>
        SandboxOK(c)' /\ (FreshBox(c) => FreshBox(c)') /\ worker'[c] = worker[c]
  BY <1>1, <1>2, SameBox, Zenon DEF AllBoxes, Same
<1>4. AllBoxes'
  BY <1>2, <1>3, Zenon DEF AllBoxes
<1>5. RegistryOK'
  BY <1>1, <1>2, <1>3, QuietFrame, Zenon
<1> QED BY <1>4, <1>5, Zenon

(* cancel, by whichever call. *)
LEMMA CancelBoxes ==
  ASSUME TypeOK, AllBoxes, NEW b \in Sandboxes, NEW e \in Evaluations \cup {None}, Cancel(b, e),
         UNCHANGED nextEvaluation
  PROVE  /\ AllBoxes' /\ senders' = senders /\ worker' = worker
         /\ \A c \in Sandboxes : FreshBox(c) => FreshBox(c)'
<1>1. /\ SandboxOK(b)' /\ (FreshBox(b) => FreshBox(b)')
      /\ UNCHANGED <<worker, senders>>
      /\ \A c \in Sandboxes : c # b => Same(c)
  BY CancelKeeps, Zenon DEF AllBoxes
<1>2. \A c \in Sandboxes : c # b => SandboxOK(c)' /\ (FreshBox(c) => FreshBox(c)')
  BY <1>1, SameBox, Zenon DEF AllBoxes
<1> QED BY <1>1, <1>2, Zenon DEF AllBoxes

(* Calls on a sandbox. *)
LEMMA CallBoxes ==
  ASSUME TypeOK, AllBoxes, RegistryOK, SandboxNext
  PROVE  AllBoxes' /\ RegistryOK'
<1>0. kernel \in KernelCalls /\ entries \subseteq Sandboxes /\ nextSandbox \in Nat
  BY Zenon DEF TypeOK
<1>1. ASSUME NEW m \in MountIds \cup {NoMount}, OpenSandbox(m) PROVE AllBoxes' /\ RegistryOK'
  <2>1. /\ nextSandbox \in Sandboxes /\ nextSandbox' = nextSandbox + 1 /\ kernel.op = "idle"
        /\ UNCHANGED <<kernel, nextEvaluation>>
        /\ \/ Open(nextSandbox) /\ entries' = entries \cup {nextSandbox}
           \/ UNCHANGED <<sandboxVars, entries>>
    BY <1>1, Zenon DEF OpenSandbox
  <2>2. \A c \in Sandboxes : c >= nextSandbox => worker[c].at = "absent" /\ c \notin entries
    BY Zenon DEF RegistryOK
  <2>3. nextSandbox > 0 /\ \A c \in Sandboxes : c \in Nat
    BY SandboxConstants, Zenon DEF RegistryOK
  <2>4. \A c \in Sandboxes : Unclosed(c) <=> c \in entries
    BY <2>1, Zenon DEF Unclosed
  <2>5. \A c \in Sandboxes : Unclosed(c)' <=> c \in entries'
    BY <2>1, Zenon DEF Unclosed
  <2>6. \A c \in entries : c \in senders /\ FreshBox(c)
    BY <1>0, <2>4, Zenon DEF RegistryOK
  <2>a. kernel'.op = "idle"
    BY <2>1, Zenon
  <2>7. CASE Open(nextSandbox) /\ entries' = entries \cup {nextSandbox}
    <3>0. PICK b \in Sandboxes : b = nextSandbox
      BY <2>1, Zenon
    <3>a. Open(b) /\ entries' = entries \cup {b}
      BY <2>7, <3>0, Zenon
    <3>b. worker[b].at = "absent" /\ b \notin entries
      BY <2>2, <3>0, <1>0
    <3>1. SandboxOK(b)' /\ FreshBox(b)' /\ \A c \in Sandboxes : c # b => Same(c)
      BY <2>1, <3>a, <3>b, OpenKeeps, Zenon DEF AllBoxes
    <3>2. senders' = senders \cup {b}
      BY <3>a, Zenon DEF Open
    <3>3. \A c \in Sandboxes : c # b =>
            SandboxOK(c)' /\ (FreshBox(c) => FreshBox(c)') /\ worker'[c] = worker[c]
      BY <2>1, <3>1, SameBox, Zenon DEF AllBoxes, Same
    <3>4. AllBoxes'
      BY <3>1, <3>3, Zenon DEF AllBoxes
    <3>5. \A c \in Sandboxes : c >= nextSandbox' => worker'[c].at = "absent" /\ c \notin entries'
      <4>1. \A c \in Sandboxes : c >= nextSandbox' => c >= nextSandbox /\ c # b
        BY <1>0, <2>1, <2>3, <3>0
      <4> QED BY <2>2, <3>3, <3>a, <4>1, Zenon
    <3>6. \A c \in Sandboxes : Unclosed(c)' => c \in senders' /\ FreshBox(c)'
      BY <2>5, <2>6, <3>a, <3>1, <3>2, <3>3, Zenon
    <3>7. nextSandbox' > 0
      BY <1>0, <2>1
    <3> QED BY <2>a, <3>4, <3>5, <3>6, <3>7, Zenon DEF RegistryOK, Closing
  <2>8. CASE UNCHANGED <<sandboxVars, entries>>
    <3>1. /\ AllBoxes' /\ senders' = senders /\ \A c \in Sandboxes : FreshBox(c) => FreshBox(c)'
          /\ \A c \in Sandboxes : worker'[c].at = "absent" <=> worker[c].at = "absent"
      BY <2>1, <2>8, SandboxFrame, Zenon
    <3>2. \A c \in Sandboxes : c >= nextSandbox' => worker'[c].at = "absent" /\ c \notin entries'
      <4>1. \A c \in Sandboxes : c >= nextSandbox' => c >= nextSandbox
        BY <1>0, <2>1, <2>3
      <4> QED BY <2>2, <2>8, <3>1, <4>1, Zenon
    <3>3. \A c \in Sandboxes : Unclosed(c)' => c \in senders' /\ FreshBox(c)'
      BY <2>5, <2>6, <2>8, <3>1, Zenon
    <3>4. nextSandbox' > 0
      BY <1>0, <2>1
    <3> QED BY <2>a, <3>1, <3>2, <3>3, <3>4, Zenon DEF RegistryOK, Closing
  <2> QED BY <2>1, <2>7, <2>8, Zenon
<1>2. ASSUME NEW b \in Sandboxes, SandboxEval(b) PROVE AllBoxes' /\ RegistryOK'
  <2>1. /\ b \in entries /\ nextEvaluation[b] \in Evaluations
        /\ nextEvaluation' = [nextEvaluation EXCEPT ![b] = @ + 1]
        /\ \/ CanBegin(b) /\ Begin(b, nextEvaluation[b])
           \/ UNCHANGED sandboxVars
        /\ UNCHANGED <<kernel, entries, nextSandbox>>
    BY <1>2, Zenon DEF SandboxEval, registryVars
  <2>2. FreshBox(b)
    BY <2>1, Zenon DEF RegistryOK, Unclosed
  <2>3. /\ SandboxOK(b)' /\ FreshBox(b)' /\ UNCHANGED <<worker, senders>>
        /\ \A c \in Sandboxes : c # b => Same(c) /\ nextEvaluation'[c] = nextEvaluation[c]
    <3>1. CASE CanBegin(b) /\ Begin(b, nextEvaluation[b])
      BY <2>1, <2>2, <3>1, BeginKeeps, Zenon DEF AllBoxes
    <3>2. CASE UNCHANGED sandboxVars
      <4>1. UNCHANGED <<worker, senders>>
        BY <3>2, Zenon DEF sandboxVars
      <4> QED BY <2>1, <2>2, <3>2, <4>1, RefusedKeeps, Zenon DEF AllBoxes
    <3> QED BY <2>1, <3>1, <3>2, Zenon
  <2>4. \A c \in Sandboxes : c # b => SandboxOK(c)' /\ (FreshBox(c) => FreshBox(c)')
    BY <2>3, SameBox, Zenon DEF AllBoxes
  <2>5. AllBoxes'
    BY <2>3, <2>4, Zenon DEF AllBoxes
  <2> QED BY <2>1, <2>3, <2>4, <2>5, QuietFrame, Zenon
<1>3. ASSUME NEW b \in Sandboxes, NEW e \in Evaluations, CancelSandboxEvaluation(b, e)
      PROVE  AllBoxes' /\ RegistryOK'
  <2>1. Cancel(b, e) /\ UNCHANGED <<kernel, entries, nextSandbox, nextEvaluation>>
    BY <1>3, Zenon DEF CancelSandboxEvaluation, KernelCall, registryVars
  <2>2. /\ AllBoxes' /\ senders' = senders /\ worker' = worker
        /\ \A c \in Sandboxes : FreshBox(c) => FreshBox(c)'
    BY <2>1, CancelBoxes, Zenon
  <2> QED BY <2>1, <2>2, QuietFrame, Zenon
<1>4. ASSUME NEW b \in Sandboxes, b \in entries, UNCHANGED <<sandboxVars, entries, nextSandbox, nextEvaluation>>,
             kernel.op = "idle", kernel'.op \in {"cancel", "status-active"}, kernel'.sandbox = b
      PROVE  AllBoxes' /\ RegistryOK'
  <2>1. /\ AllBoxes' /\ senders' = senders /\ \A c \in Sandboxes : FreshBox(c) => FreshBox(c)'
        /\ \A c \in Sandboxes : worker'[c].at = "absent" <=> worker[c].at = "absent"
    BY <1>4, SandboxFrame, Zenon
  <2>2. \A c \in Sandboxes : Unclosed(c)' => Unclosed(c)
    BY <1>4, Zenon DEF Unclosed
  <2>3. kernel'.op \notin Closing /\ kernel'.op # "gone"
    BY <1>4, Zenon DEF Closing
  <2> QED BY <1>4, <2>1, <2>2, <2>3, RegistryFrame, Zenon
<1>5. ASSUME NEW b \in Sandboxes, CancelSandbox(b) PROVE AllBoxes' /\ RegistryOK'
  BY <1>4, <1>5, Zenon DEF CancelSandbox, KernelCall, registryVars
<1>6. ASSUME NEW b \in Sandboxes, SandboxStatus(b) PROVE AllBoxes' /\ RegistryOK'
  BY <1>4, <1>6, Zenon DEF SandboxStatus, KernelCall, registryVars, Idling
<1>7. ASSUME NEW b \in Sandboxes, CloseSandbox(b) PROVE AllBoxes' /\ RegistryOK'
  <2>1. /\ kernel.op = "idle" /\ b \in entries /\ entries' = entries \ {b}
        /\ kernel'.op = "close-cancel" /\ kernel'.sandbox = b
        /\ UNCHANGED <<sandboxVars, nextSandbox, nextEvaluation>>
    BY <1>7, Zenon DEF CloseSandbox
  <2>2. /\ AllBoxes' /\ senders' = senders /\ \A c \in Sandboxes : FreshBox(c) => FreshBox(c)'
        /\ worker' = worker
    BY <2>1, SandboxFrame, Zenon DEF sandboxVars
  <2>3. \A c \in Sandboxes : Unclosed(c)' => c \in entries
    BY <2>1, Zenon DEF Unclosed
  <2>4. \A c \in Sandboxes : Unclosed(c)' => c \in senders' /\ FreshBox(c)'
    BY <2>2, <2>3, Zenon DEF RegistryOK, Unclosed
  <2>5. FreshBox(b)
    BY <2>1, Zenon DEF RegistryOK, Unclosed
  <2>6. worker'[b].at # "absent"
    BY <2>2, <2>5, Zenon DEF FreshBox, Fresh
  <2>7. nextSandbox' > 0 /\ \A c \in Sandboxes : c >= nextSandbox' => worker'[c].at = "absent" /\ c \notin entries'
    BY <2>1, <2>2, Zenon DEF RegistryOK
  <2> QED BY <2>1, <2>2, <2>4, <2>6, <2>7, Zenon DEF RegistryOK, Closing
<1> QED BY <1>1, <1>2, <1>3, <1>5, <1>6, <1>7, Zenon DEF SandboxNext

(* The rest of a call in progress. *)
LEMMA KernelStepBoxes ==
  ASSUME TypeOK, AllBoxes, RegistryOK, KernelStep
  PROVE  AllBoxes' /\ RegistryOK'
<1>0. kernel \in KernelCalls /\ entries \subseteq Sandboxes
  BY Zenon DEF TypeOK
<1>b. kernel.op \notin {"idle", "gone"} => kernel.sandbox \in Sandboxes
  BY <1>0, Zenon DEF KernelCalls, RegistryOK, Closing
<1>e. kernel.evaluation \in Evaluations \cup {None}
  BY <1>0, Zenon DEF KernelCalls
<1>1. CASE CancelRead
  <2>1. /\ kernel.op = "cancel" /\ Cancel(kernel.sandbox, kernel.evaluation)
        /\ kernel'.op = "idle" /\ UNCHANGED <<entries, nextSandbox, nextEvaluation>>
    BY <1>1, Zenon DEF CancelRead, KernelCall, registryVars, Idling
  <2>2. /\ AllBoxes' /\ senders' = senders /\ worker' = worker
        /\ \A c \in Sandboxes : FreshBox(c) => FreshBox(c)'
    BY <1>b, <1>e, <2>1, CancelBoxes, Zenon
  <2>3. \A c \in Sandboxes : Unclosed(c)' => Unclosed(c)
    BY <2>1, Zenon DEF Unclosed
  <2>4. kernel'.op \notin Closing
    BY <2>1, Zenon DEF Closing
  <2> QED BY <2>1, <2>2, <2>3, <2>4, RegistryFrame, Zenon
<1>2. ASSUME UNCHANGED <<sandboxVars, entries, nextSandbox, nextEvaluation>>,
             kernel'.op \in {"status-error", "status-return"} =>
               kernel.op \in {"status-active", "status-error"} /\ kernel'.sandbox = kernel.sandbox,
             kernel'.op \in {"status-error", "status-return", "idle"}
      PROVE  AllBoxes' /\ RegistryOK'
  <2>1. /\ AllBoxes' /\ senders' = senders /\ \A c \in Sandboxes : FreshBox(c) => FreshBox(c)'
        /\ \A c \in Sandboxes : worker'[c].at = "absent" <=> worker[c].at = "absent"
    BY <1>2, SandboxFrame, Zenon
  <2>2. \A c \in Sandboxes : Unclosed(c)' => Unclosed(c)
    BY <1>2, Zenon DEF Unclosed
  <2>3. kernel'.op \notin Closing /\ kernel'.op # "gone"
    BY <1>2, Zenon DEF Closing
  <2>4. kernel'.op \in {"cancel", "status-active", "status-error", "status-return"} =>
          kernel'.sandbox \in entries
    BY <1>2, Zenon DEF RegistryOK
  <2> QED BY <1>2, <2>1, <2>2, <2>3, <2>4, RegistryFrame, Zenon
<1>f. \A op \in {"status-error", "status-return", "close-send", "close-join"} :
        [kernel EXCEPT !.op = op].op = op /\ [kernel EXCEPT !.op = op].sandbox = kernel.sandbox
  BY <1>0, Zenon DEF KernelCalls
<1>3. CASE StatusActive
  BY <1>2, <1>3, <1>f, Zenon DEF StatusActive, KernelCall, registryVars
<1>4. CASE StatusError
  BY <1>2, <1>4, <1>f, Zenon DEF StatusError, KernelCall, registryVars
<1>5. CASE StatusReturn
  BY <1>2, <1>5, Zenon DEF StatusReturn, KernelCall, registryVars, Idling
<1>6. CASE CloseCancel
  <2>1. /\ kernel.op = "close-cancel" /\ Cancel(kernel.sandbox, kernel.evaluation)
        /\ kernel'.op = "close-send" /\ kernel'.sandbox = kernel.sandbox
        /\ UNCHANGED <<entries, nextSandbox, nextEvaluation>>
    BY <1>6, <1>f, Zenon DEF CloseCancel, KernelCall, registryVars
  <2>2. /\ AllBoxes' /\ senders' = senders /\ worker' = worker
        /\ \A c \in Sandboxes : FreshBox(c) => FreshBox(c)'
    BY <1>b, <1>e, <2>1, CancelBoxes, Zenon
  <2>3. \A c \in Sandboxes : Unclosed(c)' => Unclosed(c)
    BY <2>1, Zenon DEF Unclosed
  <2>4. kernel.op \in Closing
    BY <2>1, Zenon DEF Closing
  <2> QED BY <2>1, <2>2, <2>3, <2>4, RegistryFrame, Zenon
<1>7. CASE CloseSend
  <2>0. PICK b \in Sandboxes : b = kernel.sandbox
    BY <1>7, <1>b, Zenon DEF CloseSend
  <2>1. /\ kernel.op = "close-send" /\ SendClose(b)
        /\ kernel'.op = "close-join" /\ kernel'.sandbox = b
        /\ UNCHANGED <<entries, nextSandbox, nextEvaluation>>
    BY <1>7, <1>f, <2>0, Zenon DEF CloseSend, KernelCall, registryVars
  <2>2. b \notin entries /\ FreshBox(b)
    BY <2>0, <2>1, Zenon DEF RegistryOK, Unclosed, Closing
  <2>3. /\ SandboxOK(b)' /\ UNCHANGED <<worker, senders>>
        /\ \A c \in Sandboxes : c # b => Same(c)
    BY <2>1, <2>2, SendCloseKeeps, Zenon DEF AllBoxes
  <2>4. \A c \in Sandboxes : c # b => SandboxOK(c)' /\ (FreshBox(c) => FreshBox(c)')
    BY <2>1, <2>3, SameBox, Zenon DEF AllBoxes
  <2>5. AllBoxes'
    BY <2>3, <2>4, Zenon DEF AllBoxes
  <2>6. \A c \in Sandboxes : Unclosed(c)' => c # b /\ Unclosed(c)
    BY <2>1, <2>2, Zenon DEF Unclosed
  <2>7. kernel.op \in Closing
    BY <2>1, Zenon DEF Closing
  <2> QED BY <2>0, <2>1, <2>3, <2>4, <2>5, <2>6, <2>7, RegistryFrame, Zenon
<1>8. CASE CloseJoin
  <2>1. /\ kernel.op = "close-join" /\ kernel'.op = "idle" /\ senders' = senders \ {kernel.sandbox}
        /\ UNCHANGED <<shared, flag, commands, worker, replies, entries, nextSandbox, nextEvaluation>>
    BY <1>8, Zenon DEF CloseJoin, Idling
  <2>2. \A c \in Sandboxes : Same(c)
    BY <2>1, Zenon DEF Same
  <2>3. AllBoxes' /\ \A c \in Sandboxes : FreshBox(c) => FreshBox(c)'
    BY <2>1, <2>2, SameBox, Zenon DEF AllBoxes
  <2>4. kernel.sandbox \notin entries
    BY <2>1, Zenon DEF RegistryOK, Closing
  <2>5. \A c \in Sandboxes : Unclosed(c)' => Unclosed(c) /\ c # kernel.sandbox
    BY <2>1, <2>4, Zenon DEF Unclosed
  <2>6. kernel'.op \notin Closing
    BY <2>1, Zenon DEF Closing
  <2> QED BY <2>1, <2>3, <2>5, <2>6, RegistryFrame, Zenon
<1> QED BY <1>1, <1>3, <1>4, <1>5, <1>6, <1>7, <1>8, Zenon DEF KernelStep

(* Every step of the Kernel and of the workers. *)
LEMMA NextBoxes ==
  ASSUME TypeOK, AllBoxes, RegistryOK, [Next]_vars
  PROVE  AllBoxes' /\ RegistryOK'
<1>1. ASSUME UNCHANGED <<sandboxVars, registryVars, nextEvaluation, kernel>>
      PROVE  AllBoxes' /\ RegistryOK'
  <2>1. UNCHANGED <<sandboxVars, nextEvaluation>>
    BY <1>1, Zenon
  <2>2. UNCHANGED <<kernel, entries, nextSandbox>>
    BY <1>1, Zenon DEF registryVars
  <2> QED BY <2>1, <2>2, SandboxFrame, QuietFrame, Zenon
<1>2. CASE MountNext
  <2>1. MountCall
    BY <1>2, Zenon DEF MountNext, CreateSession, DetachFilesystem, CloseSession, AttachFilesystem,
                CreateFilesystem, CloseFilesystem
  <2> QED BY <1>1, <2>1, Zenon DEF MountCall
<1>3. CASE UNCHANGED vars
  BY <1>1, <1>3, Zenon DEF vars, kernelVars
<1>4. CASE DropKernel
  <2>1. /\ entries' = {} /\ kernel'.op = "gone"
        /\ UNCHANGED <<shared, flag, commands, worker, replies, nextSandbox, nextEvaluation>>
    BY <1>4, Zenon DEF DropKernel, Idling
  <2>2. \A c \in Sandboxes : Same(c)
    BY <2>1, Zenon DEF Same
  <2>3. AllBoxes'
    BY <2>1, <2>2, SameBox, Zenon DEF AllBoxes
  <2>4. \A c \in Sandboxes : ~Unclosed(c)'
    BY <2>1, Zenon DEF Unclosed
  <2> QED BY <2>1, <2>3, <2>4, Zenon DEF RegistryOK, Closing
<1> QED BY <1>2, <1>3, <1>4, CallBoxes, KernelStepBoxes, WorkerBoxes, Zenon DEF Next

----------------------------------------------------------------------------
(* The status: what was read first is still true when it was final. *)

(* A worker changes the record of its sandbox only while it is busy, so the
   state the status read first cannot move once it is "open", "cancelled" or
   "failed" (sandbox_status, finish_evaluation). *)
LEMMA NextStatus ==
  ASSUME TypeOK, AllBoxes, RegistryOK, StatusOK, StatusIsCoherent, [Next]_vars
  PROVE  StatusOK' /\ StatusIsCoherent'
<1>0. kernel \in KernelCalls /\ status \in Reports /\ entries \subseteq Sandboxes
  BY Zenon DEF TypeOK
<1>f. \A op \in {"status-error", "status-return", "close-send", "close-join"} :
        [kernel EXCEPT !.op = op].op = op /\ [kernel EXCEPT !.op = op].sandbox = kernel.sandbox
  BY <1>0, Zenon DEF KernelCalls
<1>1. ASSUME kernel'.op \notin {"status-active", "status-error", "status-return"}
      PROVE  StatusOK' /\ StatusIsCoherent'
  BY <1>1, Zenon DEF StatusOK, StatusIsCoherent
<1>2. ASSUME UNCHANGED <<kernel, status>>,
             kernel.op \in {"status-active", "status-error"} =>
               \/ shared'[kernel.sandbox] = shared[kernel.sandbox]
               \/ shared[kernel.sandbox].state \in {"running", "cancelling"}
      PROVE  StatusOK' /\ StatusIsCoherent'
  BY <1>2, Zenon DEF StatusOK, StatusIsCoherent
<1>3. ASSUME UNCHANGED <<kernel, status, shared>> PROVE StatusOK' /\ StatusIsCoherent'
  BY <1>3, Zenon DEF StatusOK, StatusIsCoherent
<1>4. CASE MountNext
  <2>1. MountCall
    BY <1>4, Zenon DEF MountNext, CreateSession, DetachFilesystem, CloseSession, AttachFilesystem,
                CreateFilesystem, CloseFilesystem
  <2> QED BY <1>3, <2>1, Zenon DEF MountCall, sandboxVars
<1>5. CASE SandboxNext
  <2>1. ASSUME NEW b \in Sandboxes, SandboxStatus(b) PROVE StatusOK' /\ StatusIsCoherent'
    <3>1. /\ kernel'.op = "status-active" /\ kernel'.sandbox = b
          /\ status' = [status EXCEPT !.state = shared[b].state] /\ shared' = shared
      BY <2>1, Zenon DEF SandboxStatus, Idling, sandboxVars
    <3>2. status'.state = shared[b].state
      BY <1>0, <3>1, Zenon DEF Reports
    <3> QED BY <3>1, <3>2, Zenon DEF StatusOK, StatusIsCoherent
  <2>2. ASSUME NEW m \in MountIds \cup {NoMount}, OpenSandbox(m) PROVE StatusOK' /\ StatusIsCoherent'
    BY <1>1, <2>2, Zenon DEF OpenSandbox
  <2>3. ASSUME NEW b \in Sandboxes, SandboxEval(b) PROVE StatusOK' /\ StatusIsCoherent'
    BY <1>1, <2>3, Zenon DEF SandboxEval
  <2>4. ASSUME NEW b \in Sandboxes, CancelSandbox(b) PROVE StatusOK' /\ StatusIsCoherent'
    BY <1>1, <2>4, Zenon DEF CancelSandbox
  <2>5. ASSUME NEW b \in Sandboxes, NEW e \in Evaluations, CancelSandboxEvaluation(b, e)
        PROVE  StatusOK' /\ StatusIsCoherent'
    BY <1>1, <2>5, Zenon DEF CancelSandboxEvaluation
  <2>6. ASSUME NEW b \in Sandboxes, CloseSandbox(b) PROVE StatusOK' /\ StatusIsCoherent'
    BY <1>1, <2>6, Zenon DEF CloseSandbox
  <2> QED BY <1>5, <2>1, <2>2, <2>3, <2>4, <2>5, <2>6, Zenon DEF SandboxNext
<1>6. CASE KernelStep
  <2>a. kernel.op \in {"status-active", "status-error"} =>
          kernel.sandbox \in Sandboxes /\ SharedOK(shared[kernel.sandbox])
    BY <1>0, Zenon DEF RegistryOK, AllBoxes, SandboxOK
  <2>1. CASE StatusActive
    <3>1. /\ kernel.op = "status-active" /\ kernel'.op = "status-error"
          /\ kernel'.sandbox = kernel.sandbox /\ shared' = shared
          /\ status' = [status EXCEPT !.active = shared[kernel.sandbox].active # None]
      BY <1>f, <2>1, Zenon DEF StatusActive, sandboxVars
    <3>2. status'.state = status.state /\ (status'.active <=> shared[kernel.sandbox].active # None)
      BY <1>0, <3>1, Zenon DEF Reports
    <3>3. status.state \notin {"running", "cancelling"} => shared[kernel.sandbox].state = status.state
      BY <3>1, Zenon DEF StatusOK
    <3>4. status'.active => status'.state \in {"running", "cancelling"}
      BY <2>a, <3>1, <3>2, <3>3, Zenon DEF SharedOK
    <3> QED BY <3>1, <3>2, <3>3, <3>4, Zenon DEF StatusOK, StatusIsCoherent
  <2>2. CASE StatusError
    <3>1. /\ kernel.op = "status-error" /\ kernel'.op = "status-return"
          /\ status' = [status EXCEPT !.error = shared[kernel.sandbox].error]
      BY <1>f, <2>2, Zenon DEF StatusError
    <3>2. /\ status'.state = status.state /\ status'.active = status.active
          /\ status'.error = shared[kernel.sandbox].error
      BY <1>0, <3>1, Zenon DEF Reports
    <3>3. /\ status.state \notin {"running", "cancelling"} => shared[kernel.sandbox].state = status.state
          /\ status.active => status.state \in {"running", "cancelling"}
      BY <3>1, Zenon DEF StatusOK
    <3>4. /\ status'.state \in {"cancelled", "failed"} => status'.error
          /\ status'.state = "open" => ~status'.error
      BY <2>a, <3>1, <3>2, <3>3, Zenon DEF SharedOK
    <3> QED BY <3>1, <3>2, <3>3, <3>4, Zenon DEF StatusOK, StatusIsCoherent
  <2>3. CASE StatusReturn \/ CancelRead \/ CloseJoin
    BY <1>1, <2>3 DEF StatusReturn, CancelRead, CloseJoin, Idling
  <2>4. CASE CloseCancel \/ CloseSend
    BY <1>1, <1>f, <2>4, Zenon DEF CloseCancel, CloseSend
  <2> QED BY <1>6, <2>1, <2>2, <2>3, <2>4, Zenon DEF KernelStep
<1>7. CASE DropKernel
  BY <1>1, <1>7, Zenon DEF DropKernel, Idling
<1>8. ASSUME NEW b \in Sandboxes, WorkerStep(b) PROVE StatusOK' /\ StatusIsCoherent'
  <2>1. Worker(b) /\ UNCHANGED <<kernel, status, nextEvaluation>>
    BY <1>8, Zenon DEF WorkerStep, kernelVars
  <2>2. /\ shared'[b] # shared[b] => shared[b].active # None
        /\ \A c \in Sandboxes : c # b => Same(c)
    BY <2>1, WorkerKeeps, Zenon DEF AllBoxes
  <2>3. SharedOK(shared[b])
    BY Zenon DEF AllBoxes, SandboxOK
  <2>4. kernel.op \in {"status-active", "status-error"} => kernel.sandbox \in Sandboxes
    BY <1>0, Zenon DEF RegistryOK
  <2>5. \A c \in Sandboxes : shared'[c] = shared[c] \/ shared[c].state \in {"running", "cancelling"}
    BY <2>2, <2>3, Zenon DEF Same, SharedOK
  <2> QED BY <1>2, <2>1, <2>4, <2>5, Zenon
<1>9. CASE UNCHANGED vars
  BY <1>3, <1>9, Zenon DEF vars, kernelVars, sandboxVars
<1> QED BY <1>4, <1>5, <1>6, <1>7, <1>8, <1>9, Zenon DEF Next

----------------------------------------------------------------------------
(* The inductive invariant and what follows from it. *)

(* A Kernel starts without sandboxes. *)
LEMMA InitInv == Init => KernelInv
<1> SUFFICES ASSUME Init PROVE KernelInv
  BY Zenon
<1>1. TypeOK
  BY InitTypeOK, Zenon
<1>2. /\ kernel.op = "idle" /\ kernel.sandbox = 0 /\ entries = {} /\ nextSandbox = 1
  BY Zenon DEF Init, Idling
<1>3. \A b \in Sandboxes :
        /\ shared[b] = [state |-> "open", active |-> None, error |-> FALSE]
        /\ worker[b] = [at |-> "absent", evaluation |-> None, result |-> "none"]
        /\ commands[b] = <<>> /\ replies[b] = [e \in Evaluations |-> "none"]
        /\ nextEvaluation[b] = 1
  BY Zenon DEF Init, SandboxInit
<1>4. ASSUME NEW b \in Sandboxes PROVE SandboxOK(b)
  <2>1. /\ shared[b].state = "open" /\ shared[b].active = None /\ shared[b].error = FALSE
        /\ worker[b].at = "absent" /\ commands[b] = <<>> /\ nextEvaluation[b] = 1
        /\ \A e \in Evaluations : replies[b][e] = "none" /\ e # None
    BY <1>3, SandboxConstants DEF Evaluations, None
  <2>2. SharedOK(shared[b])
    BY <2>1, Zenon DEF SharedOK
  <2>3. ThreadOK(shared[b], worker[b], commands[b])
    BY <2>1, Zenon DEF ThreadOK
  <2>4. RepliesOK(shared[b], worker[b], replies[b], nextEvaluation[b])
    BY <2>1 DEF RepliesOK, None
  <2> QED BY <2>2, <2>3, <2>4, Zenon DEF SandboxOK
<1>5. RegistryOK
  BY <1>2, <1>3 DEF RegistryOK, Closing, Unclosed
<1>6. StatusOK /\ StatusIsCoherent
  BY <1>2, Zenon DEF StatusOK, StatusIsCoherent
<1> QED BY <1>1, <1>4, <1>5, <1>6, Zenon DEF KernelInv

(* Every step of the Kernel and of the workers keeps KernelInv. *)
LEMMA NextInv == KernelInv /\ [Next]_vars => KernelInv'
<1> SUFFICES ASSUME KernelInv, [Next]_vars PROVE KernelInv'
  BY Zenon
<1>1. TypeOK /\ AllBoxes /\ RegistryOK /\ StatusOK /\ StatusIsCoherent
  BY Zenon DEF KernelInv, AllBoxes
<1>2. TypeOK'
  BY <1>1, NextTypeOK, Zenon
<1>3. AllBoxes' /\ RegistryOK'
  BY <1>1, NextBoxes, Zenon
<1>4. StatusOK' /\ StatusIsCoherent'
  BY <1>1, NextStatus, Zenon
<1> QED BY <1>2, <1>3, <1>4, Zenon DEF KernelInv, AllBoxes

(* KernelInv holds in every reachable state. *)
THEOREM KernelInvariant == Spec => []KernelInv
<1> QED BY InitInv, NextInv, PTL DEF Spec

(* A final state in a status comes with its own error and without an active
   evaluation, although sandbox_status takes the lock three times. *)
THEOREM StatusStaysCoherent == Spec => []StatusIsCoherent
<1>1. KernelInv => StatusIsCoherent
  BY Zenon DEF KernelInv
<1> QED BY <1>1, KernelInvariant, PTL

----------------------------------------------------------------------------
(* The caller's thread and the worker thread of every sandbox, with their shared state and
   their two channels, implement SandboxContract: each step is one step of the contract, or
   one the contract does not see. *)

(* What the contract sees of sandbox b does not change. *)
Unseen(b) ==
  /\ PhaseOf(b)' = PhaseOf(b) /\ shared'[b].active = shared[b].active
  /\ AcceptedBy(b)' = AcceptedBy(b) /\ OutcomeOf(b)' = OutcomeOf(b) /\ AnsweredBy(b)' = AnsweredBy(b)

(* A sandbox the step leaves alone. *)
LEMMA SameIsUnseen ==
  ASSUME NEW b \in Sandboxes, shared'[b] = shared[b], worker'[b] = worker[b], replies'[b] = replies[b]
  PROVE  Unseen(b)
BY Zenon DEF Unseen, PhaseOf, OutcomeOf, AcceptedBy, AnsweredBy

(* A step no sandbox's contract sees. *)
LEMMA Stutters ==
  ASSUME \A b \in Sandboxes : Unseen(b), UNCHANGED <<asked, flag>>
  PROVE  UNCHANGED Contract!contractVars
<1>1. UNCHANGED <<Phase, Current, Accepted, Outcome, Answered>>
  BY Zenon DEF Unseen, Phase, Current, Accepted, Outcome, Answered
<1> QED BY <1>1, Zenon DEF Contract!contractVars

(* A step the contract of one sandbox sees. *)
LEMMA MapStep ==
  ASSUME NEW b \in Sandboxes, \A c \in Sandboxes : c # b => Unseen(c)
  PROVE  /\ Phase' = [Phase EXCEPT ![b] = PhaseOf(b)']
         /\ Current' = [Current EXCEPT ![b] = shared'[b].active]
         /\ Accepted' = [Accepted EXCEPT ![b] = AcceptedBy(b)']
         /\ Outcome' = [Outcome EXCEPT ![b] = OutcomeOf(b)']
         /\ Answered' = [Answered EXCEPT ![b] = AnsweredBy(b)']
<1>1. Phase' = [Phase EXCEPT ![b] = PhaseOf(b)']
  BY Zenon DEF Unseen, Phase
<1>2. Current' = [Current EXCEPT ![b] = shared'[b].active]
  BY Zenon DEF Unseen, Current
<1>3. Accepted' = [Accepted EXCEPT ![b] = AcceptedBy(b)']
  BY Zenon DEF Unseen, Accepted
<1>4. Outcome' = [Outcome EXCEPT ![b] = OutcomeOf(b)']
  BY Zenon DEF Unseen, Outcome
<1>5. Answered' = [Answered EXCEPT ![b] = AnsweredBy(b)']
  BY Zenon DEF Unseen, Answered
<1> QED BY <1>1, <1>2, <1>3, <1>4, <1>5, Zenon

(* What the mapping is at one sandbox. *)
LEMMA MapAt ==
  ASSUME NEW b \in Sandboxes
  PROVE  /\ Phase[b] = PhaseOf(b) /\ Current[b] = shared[b].active /\ Accepted[b] = AcceptedBy(b)
         /\ Outcome[b] = OutcomeOf(b) /\ Answered[b] = AnsweredBy(b)
         /\ Phase = [Phase EXCEPT ![b] = PhaseOf(b)]
         /\ Current = [Current EXCEPT ![b] = shared[b].active]
         /\ Accepted = [Accepted EXCEPT ![b] = AcceptedBy(b)]
         /\ Outcome = [Outcome EXCEPT ![b] = OutcomeOf(b)]
         /\ Answered = [Answered EXCEPT ![b] = AnsweredBy(b)]
<1>1. Phase[b] = PhaseOf(b) /\ Phase = [Phase EXCEPT ![b] = PhaseOf(b)]
  BY Zenon DEF Phase
<1>2. Current[b] = shared[b].active /\ Current = [Current EXCEPT ![b] = shared[b].active]
  BY Zenon DEF Current
<1>3. Accepted[b] = AcceptedBy(b) /\ Accepted = [Accepted EXCEPT ![b] = AcceptedBy(b)]
  BY DEF Accepted
<1>4. Outcome[b] = OutcomeOf(b) /\ Outcome = [Outcome EXCEPT ![b] = OutcomeOf(b)]
  BY DEF Outcome
<1>5. Answered[b] = AnsweredBy(b) /\ Answered = [Answered EXCEPT ![b] = AnsweredBy(b)]
  BY DEF Answered
<1> QED BY <1>1, <1>2, <1>3, <1>4, <1>5, Zenon

(* begin is Accept. *)
LEMMA BeginAccepts ==
  ASSUME KernelInv, NEW b \in Sandboxes, FreshBox(b), CanBegin(b), nextEvaluation[b] \in Evaluations,
         Begin(b, nextEvaluation[b]), nextEvaluation' = [nextEvaluation EXCEPT ![b] = @ + 1]
  PROVE  Contract!Next
<1>0. TypeOK /\ SandboxOK(b)
  BY Zenon DEF KernelInv
<1>1. PICK e \in Evaluations : e = nextEvaluation[b]
  BY Zenon
<1>2. UNCHANGED <<asked, flag, worker>> /\ \A c \in Sandboxes : c # b => Same(c)
  BY <1>0, BeginKeeps, Zenon
<1>3. /\ shared'[b] = [state |-> "running", active |-> e, error |-> FALSE]
      /\ \A f \in Evaluations : replies'[b][f] = IF f = e THEN "pending" ELSE replies[b][f]
  BY <1>0, <1>1, Zenon DEF Begin, TypeOK, SandboxTypeOK
<1>4. /\ \A f \in Evaluations : replies[b][f] # "none" => f < e
      /\ worker[b].at = "reply" => worker[b].evaluation \in Evaluations /\ worker[b].evaluation # e
  <2>1. \A f \in Evaluations : replies[b][f] # "none" => f < e
    BY <1>0, <1>1, Zenon DEF SandboxOK, RepliesOK
  <2>2. worker[b] \in WorkerStates
    BY <1>0, Zenon DEF TypeOK, SandboxTypeOK
  <2>3. worker[b].at = "reply" =>
          worker[b].evaluation \in Evaluations /\ replies[b][worker[b].evaluation] = "pending"
    BY <1>0, <2>2, Zenon DEF SandboxOK, RepliesOK, ThreadOK, WorkerStates
  <2>4. \A f \in Evaluations : f < e => f # e
    BY SandboxConstants DEF Evaluations
  <2> QED BY <2>1, <2>3, <2>4, Zenon
<1>5. replies[b][e] = "none"
  BY <1>4, SandboxConstants DEF Evaluations
<1>6. PhaseOf(b) = "open" /\ PhaseOf(b)' = "busy"
  <2>1. worker[b].at \notin {"done", "panicked"}
    BY <1>0, Zenon DEF SandboxOK, ThreadOK, FreshBox, Fresh, CanBegin
  <2> QED BY <1>2, <1>3, <2>1 DEF PhaseOf, CanBegin
<1>7. AcceptedBy(b)' = AcceptedBy(b) \cup {e}
  BY <1>3, Zenon DEF AcceptedBy
<1>8. AnsweredBy(b)' = AnsweredBy(b)
  BY <1>3, <1>5, Zenon DEF AnsweredBy
<1>9. OutcomeOf(b)' = OutcomeOf(b)
  BY <1>2, <1>3, <1>4, <1>5, Zenon DEF OutcomeOf
<1>10. \A f \in AcceptedBy(b) : f < e
  BY <1>4, Zenon DEF AcceptedBy
<1>11. \A c \in Sandboxes : c # b => Unseen(c)
  BY <1>2, SameIsUnseen, Zenon DEF Same
<1>12. shared'[b].active = e
  BY <1>3
<1>13. Contract!Accept(b, e)
  BY <1>2, <1>6, <1>7, <1>8, <1>9, <1>10, <1>11, <1>12, MapStep, MapAt DEF Contract!Accept
<1> QED BY <1>13, Zenon DEF Contract!Next

(* cancel is Ask, or nothing when there was no evaluation to cancel. *)
LEMMA CancelAsks ==
  ASSUME KernelInv, NEW b \in Sandboxes, NEW e \in Evaluations \cup {None}, Cancel(b, e),
         UNCHANGED nextEvaluation
  PROVE  Contract!Next \/ UNCHANGED Contract!contractVars
<1>0. TypeOK /\ SandboxOK(b)
  BY Zenon DEF KernelInv
<1>1. /\ UNCHANGED <<worker, replies>> /\ shared'[b].active = shared[b].active
      /\ shared'[b] # shared[b] => shared[b].active # None /\ shared'[b].state = "cancelling"
      /\ \A c \in Sandboxes : c # b => Same(c)
  BY <1>0, CancelKeeps, Zenon
<1>2. PhaseOf(b)' = PhaseOf(b)
  <2>1. shared[b].active # None => shared[b].state \in {"running", "cancelling"}
    BY <1>0, Zenon DEF SandboxOK, SharedOK
  <2>2. CASE shared'[b] = shared[b]
    BY <1>1, <2>2, Zenon DEF PhaseOf
  <2>3. CASE shared'[b] # shared[b]
    BY <1>1, <2>1, <2>3, Zenon DEF PhaseOf
  <2> QED BY <2>2, <2>3, Zenon
<1>3. Unseen(b)
  BY <1>1, <1>2, Zenon DEF Unseen, OutcomeOf, AcceptedBy, AnsweredBy
<1>4. \A c \in Sandboxes : c # b => Unseen(c)
  BY <1>1, SameIsUnseen, Zenon DEF Same
<1>5. CASE e = None
  <2>1. asked' = asked
    <3>1. asked' = [asked EXCEPT ![b] = @ \cup ({e} \ {None})] /\ asked \in [Sandboxes -> SUBSET Evaluations]
      BY <1>0, Zenon DEF Cancel, TypeOK, SandboxTypeOK
    <3> QED BY <1>5, <3>1, Zenon
  <2>2. flag' = flag
    BY <1>5, Zenon DEF Cancel
  <2> QED BY <1>3, <1>4, <2>1, <2>2, Stutters, Zenon
<1>6. CASE e # None
  <2>1. asked' = [asked EXCEPT ![b] = @ \cup {e}]
    <3>1. {e} \ {None} = {e}
      BY <1>6, Zenon
    <3> QED BY <3>1, Zenon DEF Cancel
  <2>2. flag' = IF shared[b].active = e THEN [flag EXCEPT ![b] = @ \cup {e}] ELSE flag
    BY <1>6, Zenon DEF Cancel
  <2>3. UNCHANGED <<Phase, Current, Accepted, Outcome, Answered>>
    BY <1>3, <1>4, Zenon DEF Unseen, Phase, Current, Accepted, Outcome, Answered
  <2>4. Contract!Ask(b, e)
    BY <2>1, <2>2, <2>3, MapAt, Zenon DEF Contract!Ask
  <2> QED BY <1>6, <2>4, Zenon DEF Contract!Next
<1> QED BY <1>5, <1>6, Zenon

(* A worker that leaves its loop while the sandbox is usable retires it. *)
LEMMA LeavingRetires ==
  ASSUME KernelInv, NEW b \in Sandboxes, worker[b].at = "recv", worker'[b].at = "done",
         shared[b].active = None, UNCHANGED <<shared, replies, asked, flag>>,
         \A c \in Sandboxes : c # b => Unseen(c)
  PROVE  Contract!Next \/ UNCHANGED Contract!contractVars
<1>0. SharedOK(shared[b])
  BY Zenon DEF KernelInv, SandboxOK
<1>s. shared[b] \in SharedStates
  BY Zenon DEF KernelInv, TypeOK, SandboxTypeOK
<1>a. shared[b].state \in {"open", "cancelled", "failed"}
  BY <1>0, <1>s, Zenon DEF SharedOK, SharedStates, States
<1>b. PhaseOf(b)' = "ended"
  BY Zenon DEF PhaseOf
<1>c. PhaseOf(b) = IF shared[b].state = "open" THEN "open" ELSE "ended"
  BY <1>a, Zenon DEF PhaseOf
<1>1. PhaseOf(b)' = "ended" /\ PhaseOf(b) = IF shared[b].state = "open" THEN "open" ELSE "ended"
  BY <1>b, <1>c, Zenon
<1>2. AcceptedBy(b)' = AcceptedBy(b) /\ AnsweredBy(b)' = AnsweredBy(b)
  BY Zenon DEF AcceptedBy, AnsweredBy
<1>3. OutcomeOf(b)' = OutcomeOf(b)
  BY Zenon DEF OutcomeOf
<1>4. CASE shared[b].state = "open"
  <2>1. Contract!Retire(b)
    BY <1>1, <1>2, <1>3, <1>4, MapStep, MapAt DEF Contract!Retire
  <2> QED BY <2>1, Zenon DEF Contract!Next
<1>5. CASE shared[b].state # "open"
  <2>1. Unseen(b)
    BY <1>1, <1>2, <1>3, <1>5, Zenon DEF Unseen
  <2> QED BY <2>1, Stutters, Zenon
<1> QED BY <1>4, <1>5, Zenon

(* recv. *)
LEMMA ReceiveMaps ==
  ASSUME KernelInv, NEW b \in Sandboxes, Receive(b), UNCHANGED nextEvaluation
  PROVE  Contract!Next \/ UNCHANGED Contract!contractVars
<1>0. TypeOK /\ SandboxOK(b)
  BY Zenon DEF KernelInv
<1>1. UNCHANGED <<asked, flag>> /\ \A c \in Sandboxes : c # b => Same(c)
  BY <1>0, WorkerKeeps, Zenon DEF Worker
<1>2. \A c \in Sandboxes : c # b => Unseen(c)
  BY <1>1, SameIsUnseen, Zenon DEF Same
<1>3. UNCHANGED <<shared, replies>> /\ worker[b].at = "recv" /\ commands[b] # <<>>
  BY Zenon DEF Receive
<1>4. Head(commands[b]) = Close => shared[b].active = None
  <2>1. Values(shared[b], worker[b], commands[b], replies[b], nextEvaluation[b])
    BY <1>0, BoxValues, Zenon
  <2>2. Coherent(shared[b], worker[b], commands[b], replies[b], nextEvaluation[b])
    BY <1>0, Zenon DEF SandboxOK, Coherent
  <2> QED BY <1>3, <2>1, <2>2, ReceiveCoherent, Zenon
<1>5. worker'[b].at = IF Head(commands[b]) = Close THEN "done" ELSE "run"
  BY <1>0, Zenon DEF Receive, Idle, TypeOK, SandboxTypeOK
<1>6. CASE Head(commands[b]) = Close
  BY <1>1, <1>2, <1>3, <1>4, <1>5, <1>6, LeavingRetires, Zenon
<1>7. CASE Head(commands[b]) # Close
  <2>1. worker'[b].at = "run"
    BY <1>5, <1>7, Zenon
  <2>2. PhaseOf(b)' = PhaseOf(b)
    BY <1>3, <2>1, Zenon DEF PhaseOf
  <2>3. OutcomeOf(b)' = OutcomeOf(b)
    BY <1>3, <2>1, Zenon DEF OutcomeOf
  <2>4. Unseen(b)
    BY <1>3, <2>2, <2>3, Zenon DEF Unseen, AcceptedBy, AnsweredBy
  <2> QED BY <1>1, <1>2, <2>4, Stutters, Zenon
<1> QED BY <1>6, <1>7, Zenon

(* recv fails. *)
LEMMA DisconnectedMaps ==
  ASSUME KernelInv, NEW b \in Sandboxes, Disconnected(b), UNCHANGED nextEvaluation
  PROVE  Contract!Next \/ UNCHANGED Contract!contractVars
<1>0. TypeOK /\ SandboxOK(b) /\ worker \in [Sandboxes -> WorkerStates]
  BY Zenon DEF KernelInv, TypeOK, SandboxTypeOK
<1>1. UNCHANGED <<asked, flag>> /\ \A c \in Sandboxes : c # b => Same(c)
  BY <1>0, WorkerKeeps, Zenon DEF Worker
<1>2. \A c \in Sandboxes : c # b => Unseen(c)
  BY <1>1, SameIsUnseen, Zenon DEF Same
<1>3. /\ UNCHANGED <<shared, replies>> /\ worker[b].at = "recv" /\ commands[b] = <<>>
      /\ worker' = [worker EXCEPT ![b].at = "done"]
  BY Zenon DEF Disconnected
<1>4. worker'[b].at = "done"
  BY <1>0, <1>3, Zenon DEF WorkerStates
<1>5. shared[b].active = None
  BY <1>0, <1>3 DEF SandboxOK, ThreadOK
<1> QED BY <1>1, <1>2, <1>3, <1>4, <1>5, LeavingRetires, Zenon

(* The guest runs, polls, and run_controlled ends: the contract sees none of it. *)
LEMMA RunMaps ==
  ASSUME KernelInv, NEW b \in Sandboxes, UNCHANGED nextEvaluation,
         NextForm(b) \/ Poll(b) \/ Interrupted(b) \/ RunControlled(b)
  PROVE  UNCHANGED Contract!contractVars
<1>0. TypeOK /\ SandboxOK(b) /\ worker \in [Sandboxes -> WorkerStates]
  BY DEF KernelInv, TypeOK, SandboxTypeOK
<1>1. UNCHANGED <<asked, flag>> /\ \A c \in Sandboxes : c # b => Same(c)
  BY <1>0, WorkerKeeps, Zenon DEF Worker
<1>2. \A c \in Sandboxes : c # b => Unseen(c)
  BY <1>1, SameIsUnseen DEF Same
<1>3. UNCHANGED <<shared, replies>> /\ worker[b].at \in {"run", "poll"}
  BY Zenon DEF NextForm, Poll, Interrupted, RunControlled
<1>4. worker'[b].at \in {"run", "poll", "finish"}
  <2>1. CASE NextForm(b) \/ Poll(b)
    <3>1. PICK a \in {"run", "poll"} : worker' = [worker EXCEPT ![b].at = a]
      BY <2>1, Zenon DEF NextForm, Poll
    <3> QED BY <1>0, <3>1, Zenon DEF WorkerStates
  <2>2. CASE Interrupted(b) \/ RunControlled(b)
    <3>1. PICK o \in Outcomes : worker' = [worker EXCEPT ![b].at = "finish", ![b].result = o]
      BY <2>2, Zenon DEF Interrupted, RunControlled
    <3> QED BY <1>0, <3>1, Zenon DEF WorkerStates
  <2> QED BY <2>1, <2>2, Zenon
<1>5. PhaseOf(b)' = PhaseOf(b)
  BY <1>3, <1>4, Zenon DEF PhaseOf
<1>6. OutcomeOf(b)' = OutcomeOf(b)
  BY <1>3, <1>4, Zenon DEF OutcomeOf
<1>7. Unseen(b)
  BY <1>3, <1>5, <1>6, Zenon DEF Unseen, AcceptedBy, AnsweredBy
<1> QED BY <1>1, <1>2, <1>7, Stutters, Zenon

(* The worker dies under its evaluation: Break. *)
LEMMA PanicBreaks ==
  ASSUME KernelInv, NEW b \in Sandboxes, WorkerPanics(b), UNCHANGED nextEvaluation
  PROVE  Contract!Next
<1>0. TypeOK /\ SandboxOK(b) /\ worker[b] \in WorkerStates /\ worker \in [Sandboxes -> WorkerStates]
  BY Zenon DEF KernelInv, TypeOK, SandboxTypeOK
<1>1. UNCHANGED <<asked, flag>> /\ \A c \in Sandboxes : c # b => Same(c)
  BY <1>0, WorkerKeeps, Zenon DEF Worker
<1>2. \A c \in Sandboxes : c # b => Unseen(c)
  BY <1>1, SameIsUnseen DEF Same
<1>3. PICK e \in Evaluations : e = worker[b].evaluation /\ shared[b].active = e
  BY <1>0, Zenon DEF SandboxOK, ThreadOK, WorkerPanics, WorkerStates
<1>4. /\ worker[b].at = "run" /\ shared' = shared
      /\ worker' = [worker EXCEPT ![b].at = "panicked"]
      /\ \A f \in Evaluations : replies'[b][f] = IF f = e THEN "dropped" ELSE replies[b][f]
  BY <1>0, <1>3, Zenon DEF WorkerPanics, TypeOK, SandboxTypeOK
<1>5. worker'[b].at = "panicked"
  BY <1>0, <1>4, Zenon DEF WorkerStates
<1>6. replies[b][e] = "pending"
  BY <1>0, <1>3, <1>4, Zenon DEF SandboxOK, RepliesOK
<1>7. PhaseOf(b) = "busy" /\ PhaseOf(b)' = "ended"
  <2>1. e # None
    BY SandboxConstants DEF Evaluations, None
  <2>2. shared[b].state \in {"running", "cancelling"}
    BY <1>0, <1>3, <2>1, Zenon DEF SandboxOK, SharedOK
  <2>3. PhaseOf(b) = "busy"
    BY <1>4, <2>2, Zenon DEF PhaseOf
  <2>4. PhaseOf(b)' = "ended"
    BY <1>5, Zenon DEF PhaseOf
  <2> QED BY <2>3, <2>4, Zenon
<1>8. AcceptedBy(b)' = AcceptedBy(b)
  BY <1>4, <1>6, Zenon DEF AcceptedBy
<1>9. AnsweredBy(b)' = AnsweredBy(b) \cup {e}
  BY <1>4, Zenon DEF AnsweredBy
<1>10. OutcomeOf(b)' = [OutcomeOf(b) EXCEPT ![e] = "dropped"]
  BY <1>4, <1>5, Zenon DEF OutcomeOf
<1>11. Contract!Break(b, e)
  BY <1>1, <1>2, <1>3, <1>4, <1>7, <1>8, <1>9, <1>10, MapStep, MapAt DEF Contract!Break
<1> QED BY <1>11, Zenon DEF Contract!Next, Contract!Finish

(* finish_evaluation: Complete. *)
LEMMA FinishCompletes ==
  ASSUME KernelInv, NEW b \in Sandboxes, FinishEvaluation(b), UNCHANGED nextEvaluation
  PROVE  Contract!Next
<1>0. /\ TypeOK /\ SandboxOK(b) /\ worker[b] \in WorkerStates /\ worker \in [Sandboxes -> WorkerStates]
      /\ shared[b] \in SharedStates /\ shared \in [Sandboxes -> SharedStates]
  BY Zenon DEF KernelInv, TypeOK, SandboxTypeOK
<1>1. UNCHANGED <<asked, flag>> /\ \A c \in Sandboxes : c # b => Same(c)
  BY <1>0, WorkerKeeps, Zenon DEF Worker
<1>2. \A c \in Sandboxes : c # b => Unseen(c)
  BY <1>1, SameIsUnseen DEF Same
<1>3. PICK e \in Evaluations : e = worker[b].evaluation /\ shared[b].active = e
  BY <1>0, Zenon DEF SandboxOK, ThreadOK, FinishEvaluation, WorkerStates
<1>4. PICK o \in Outcomes : o = worker[b].result
  BY <1>0, Zenon DEF SandboxOK, ThreadOK, FinishEvaluation
<1>5. /\ worker[b].at = "finish" /\ replies' = replies
      /\ worker' = [worker EXCEPT ![b].at = "reply"]
  BY Zenon DEF FinishEvaluation
<1>6. worker'[b].at = "reply" /\ worker'[b].evaluation = e /\ worker'[b].result = o
  BY <1>0, <1>3, <1>4, <1>5, Zenon DEF WorkerStates
<1>7. /\ shared'[b].active = None
      /\ shared'[b].state = CASE o = "ok" -> "open" [] o = "cancelled" -> "cancelled" [] OTHER -> "failed"
  BY <1>0, <1>3, <1>4, Zenon DEF FinishEvaluation
<1>8. replies[b][e] = "pending"
  BY <1>0, <1>3, <1>5, Zenon DEF SandboxOK, RepliesOK
<1>9. PhaseOf(b) = "busy"
  <2>1. e # None
    BY SandboxConstants DEF Evaluations, None
  <2>2. shared[b].state \in {"running", "cancelling"}
    BY <1>0, <1>3, <2>1, Zenon DEF SandboxOK, SharedOK
  <2> QED BY <1>5, <2>2, Zenon DEF PhaseOf
<1>10. PhaseOf(b)' = IF o = "ok" THEN "open" ELSE "ended"
  BY <1>6, <1>7, Zenon DEF PhaseOf, Outcomes
<1>11. AcceptedBy(b)' = AcceptedBy(b) /\ AnsweredBy(b)' = AnsweredBy(b)
  BY <1>5, Zenon DEF AcceptedBy, AnsweredBy
<1>12. OutcomeOf(b)' = [OutcomeOf(b) EXCEPT ![e] = o]
  <2>1. \A f \in Evaluations : OutcomeOf(b)'[f] = IF f = e THEN o ELSE OutcomeOf(b)[f]
    BY <1>5, <1>6, <1>8 DEF OutcomeOf
  <2>2. OutcomeOf(b)' = [f \in Evaluations |-> OutcomeOf(b)'[f]]
    BY Zenon DEF OutcomeOf
  <2>3. OutcomeOf(b) = [f \in Evaluations |-> OutcomeOf(b)[f]]
    BY Zenon DEF OutcomeOf
  <2> QED BY <2>1, <2>2, <2>3, Zenon
<1>13. Contract!Complete(b, e, o)
  BY <1>1, <1>2, <1>3, <1>7, <1>9, <1>10, <1>11, <1>12, MapStep, MapAt DEF Contract!Complete, None
<1>14. o \in Contract!Results
  BY Zenon DEF Contract!Results, Outcomes
<1> QED BY <1>13, <1>14, Zenon DEF Contract!Next, Contract!Finish

(* reply.send: Answer.  The evaluation begun in between is younger. *)
LEMMA ReplyAnswers ==
  ASSUME KernelInv, NEW b \in Sandboxes, Reply(b), UNCHANGED nextEvaluation
  PROVE  Contract!Next
<1>0. TypeOK /\ SandboxOK(b) /\ worker[b] \in WorkerStates /\ shared[b] \in SharedStates
  BY Zenon DEF KernelInv, TypeOK, SandboxTypeOK
<1>1. UNCHANGED <<asked, flag>> /\ \A c \in Sandboxes : c # b => Same(c)
  BY <1>0, WorkerKeeps, Zenon DEF Worker
<1>2. \A c \in Sandboxes : c # b => Unseen(c)
  BY <1>1, SameIsUnseen DEF Same
<1>3. PICK e \in Evaluations : e = worker[b].evaluation
  BY <1>0, Zenon DEF SandboxOK, ThreadOK, Reply, WorkerStates
<1>4. PICK o \in Outcomes : o = worker[b].result
  BY <1>0, Zenon DEF SandboxOK, ThreadOK, Reply
<1>5. /\ worker[b].at = "reply" /\ shared' = shared /\ worker'[b] = Idle
      /\ \A f \in Evaluations : replies'[b][f] = IF f = e THEN o ELSE replies[b][f]
  BY <1>0, <1>3, <1>4, Zenon DEF Reply, TypeOK, SandboxTypeOK
<1>6. worker'[b].at = "recv"
  BY <1>5 DEF Idle
<1>7. /\ \A f \in Evaluations : replies[b][f] = "pending" <=> f = shared[b].active \/ f = e
      /\ shared[b].active # None => e < shared[b].active
  BY <1>0, <1>3, <1>5, Zenon DEF SandboxOK, RepliesOK
<1>8. o \notin {"none", "pending"} /\ replies[b][e] = "pending"
  BY <1>7, Zenon DEF Outcomes
<1>9. PhaseOf(b)' = PhaseOf(b)
  BY <1>5, <1>6, Zenon DEF PhaseOf
<1>10. AcceptedBy(b)' = AcceptedBy(b)
  BY <1>5, <1>8, Zenon DEF AcceptedBy
<1>11. AnsweredBy(b)' = AnsweredBy(b) \cup {e}
  BY <1>5, <1>8, Zenon DEF AnsweredBy
<1>12. OutcomeOf(b)[e] = o
  BY <1>3, <1>4, <1>5, <1>8, Zenon DEF OutcomeOf
<1>13. OutcomeOf(b)' = OutcomeOf(b)
  BY <1>3, <1>4, <1>5, <1>6, <1>8, Zenon DEF OutcomeOf
<1>14. e \notin AnsweredBy(b)
  BY <1>8, Zenon DEF AnsweredBy
<1>15. \A f \in AcceptedBy(b) : f < e => f \in AnsweredBy(b)
  <2>1. \A f \in Evaluations : f < e => f # e /\ (f = shared[b].active => shared[b].active # None)
    BY SandboxConstants DEF Evaluations, None
  <2>2. \A f \in Evaluations : f < e => ~(e < f)
    BY SandboxConstants DEF Evaluations
  <2>3. \A f \in Evaluations : f < e => replies[b][f] # "pending"
    BY <1>7, <2>1, <2>2, Zenon
  <2> QED BY <2>3, Zenon DEF AcceptedBy, AnsweredBy
<1>16. Contract!Answer(b, e)
  BY <1>1, <1>2, <1>5, <1>8, <1>9, <1>10, <1>11, <1>12, <1>13, <1>14, <1>15, MapStep, MapAt
  DEF Contract!Answer
<1> QED BY <1>16, Zenon DEF Contract!Next, Contract!Send

(* A Kernel starts with every sandbox unused. *)
LEMMA InitMaps == Init => Contract!Init
<1> SUFFICES ASSUME Init PROVE Contract!Init
  BY Zenon
<1>1. \A b \in Sandboxes :
        /\ shared[b].state = "open" /\ shared[b].active = None /\ worker[b].at = "absent"
        /\ \A e \in Evaluations : replies[b][e] = "none"
  BY Zenon DEF Init, SandboxInit
<1>2. asked = [b \in Sandboxes |-> {}] /\ flag = [b \in Sandboxes |-> {}]
  BY Zenon DEF Init, SandboxInit
<1>3. Phase = [b \in Sandboxes |-> "open"]
  BY <1>1, Zenon DEF Phase, PhaseOf
<1>4. Current = [b \in Sandboxes |-> 0]
  BY <1>1, Zenon DEF Current, None
<1>5. Accepted = [b \in Sandboxes |-> {}] /\ Answered = [b \in Sandboxes |-> {}]
  <2>1. \A b \in Sandboxes : AcceptedBy(b) = {} /\ AnsweredBy(b) = {}
    BY <1>1, Zenon DEF AcceptedBy, AnsweredBy
  <2> QED BY <2>1, Zenon DEF Accepted, Answered
<1>6. Outcome = [b \in Sandboxes |-> [e \in Evaluations |-> "none"]]
  <2>1. \A b \in Sandboxes : OutcomeOf(b) = [e \in Evaluations |-> "none"]
    BY <1>1, Zenon DEF OutcomeOf
  <2> QED BY <2>1, Zenon DEF Outcome
<1> QED BY <1>2, <1>3, <1>4, <1>5, <1>6, Zenon DEF Contract!Init

(* Every step of the Kernel and of the workers is a step of the contract, or
   none that it sees. *)
LEMMA StepMaps == KernelInv /\ [Next]_vars => [Contract!Next]_Contract!contractVars
<1> SUFFICES ASSUME KernelInv, [Next]_vars
             PROVE  Contract!Next \/ UNCHANGED Contract!contractVars
  BY Zenon
<1>0. TypeOK /\ AllBoxes /\ RegistryOK /\ kernel \in KernelCalls /\ entries \subseteq Sandboxes
  BY Zenon DEF KernelInv, AllBoxes, TypeOK
<1>b. kernel.op \notin {"idle", "gone"} => kernel.sandbox \in Sandboxes
  BY <1>0, Zenon DEF KernelCalls, RegistryOK, Closing
<1>e. kernel.evaluation \in Evaluations \cup {None}
  BY <1>0, Zenon DEF KernelCalls
<1>1. ASSUME UNCHANGED <<shared, worker, replies, asked, flag>>
      PROVE  UNCHANGED Contract!contractVars
  BY <1>1, SameIsUnseen, Stutters, Zenon
<1>2. CASE MountNext
  <2>1. MountCall
    BY <1>2, Zenon DEF MountNext, CreateSession, DetachFilesystem, CloseSession, AttachFilesystem,
                CreateFilesystem, CloseFilesystem
  <2> QED BY <1>1, <2>1, Zenon DEF MountCall, sandboxVars
<1>3. CASE DropKernel
  BY <1>1, <1>3, Zenon DEF DropKernel
<1>4. CASE UNCHANGED vars
  BY <1>1, <1>4, Zenon DEF vars, sandboxVars
<1>5. ASSUME NEW b \in Sandboxes, NEW e \in Evaluations \cup {None}, Cancel(b, e), KernelCall
      PROVE  Contract!Next \/ UNCHANGED Contract!contractVars
  BY <1>5, CancelAsks, Zenon DEF KernelCall
<1>6. CASE KernelStep
  <2>1. CASE CancelRead
    <3>1. PICK b \in Sandboxes, e \in Evaluations \cup {None} : Cancel(b, e)
      BY <1>b, <1>e, <2>1, Zenon DEF CancelRead
    <3> QED BY <1>5, <2>1, <3>1, Zenon DEF CancelRead
  <2>2. CASE CloseCancel
    <3>1. PICK b \in Sandboxes, e \in Evaluations \cup {None} : Cancel(b, e)
      BY <1>b, <1>e, <2>2, Zenon DEF CloseCancel
    <3> QED BY <1>5, <2>2, <3>1, Zenon DEF CloseCancel
  <2>3. CASE StatusActive \/ StatusError \/ StatusReturn
    BY <1>1, <2>3, Zenon DEF StatusActive, StatusError, StatusReturn, sandboxVars
  <2>4. CASE CloseSend
    BY <1>1, <2>4, Zenon DEF CloseSend, SendClose
  <2>5. CASE CloseJoin
    BY <1>1, <2>5, Zenon DEF CloseJoin
  <2> QED BY <1>6, <2>1, <2>2, <2>3, <2>4, <2>5, Zenon DEF KernelStep
<1>7. CASE SandboxNext
  <2>1. ASSUME NEW m \in MountIds \cup {NoMount}, OpenSandbox(m)
        PROVE  UNCHANGED Contract!contractVars
    <3>1. PICK b \in Sandboxes : b = nextSandbox
      BY <2>1, Zenon DEF OpenSandbox
    <3>2. CASE UNCHANGED sandboxVars
      BY <1>1, <3>2, Zenon DEF sandboxVars
    <3>3. CASE Open(b)
      <4>1. UNCHANGED nextEvaluation /\ worker[b].at = "absent" /\ SandboxOK(b)
        BY <1>0, <2>1, <3>1 DEF OpenSandbox, RegistryOK, AllBoxes, TypeOK
      <4>2. UNCHANGED <<shared, flag, asked, replies>> /\ \A c \in Sandboxes : c # b => Same(c)
        BY <1>0, <3>3, <4>1, OpenKeeps, Zenon
      <4>3. worker'[b].at = "recv"
        <5>1. worker \in [Sandboxes -> WorkerStates] /\ worker' = [worker EXCEPT ![b].at = "recv"]
          BY <1>0, <3>3, Zenon DEF TypeOK, SandboxTypeOK, Open
        <5> QED BY <5>1, Zenon DEF WorkerStates
      <4>4. PhaseOf(b)' = PhaseOf(b)
        BY <4>1, <4>2, <4>3, Zenon DEF PhaseOf
      <4>5. OutcomeOf(b)' = OutcomeOf(b)
        BY <4>1, <4>2, <4>3, Zenon DEF OutcomeOf
      <4>6. Unseen(b)
        BY <4>2, <4>4, <4>5, Zenon DEF Unseen, AcceptedBy, AnsweredBy
      <4>7. \A c \in Sandboxes : c # b => Unseen(c)
        BY <4>2, SameIsUnseen, Zenon DEF Same
      <4> QED BY <4>2, <4>6, <4>7, Stutters, Zenon
    <3> QED BY <2>1, <3>1, <3>2, <3>3, Zenon DEF OpenSandbox
  <2>2. ASSUME NEW b \in Sandboxes, SandboxEval(b)
        PROVE  Contract!Next \/ UNCHANGED Contract!contractVars
    <3>1. FreshBox(b)
      BY <1>0, <2>2, Zenon DEF SandboxEval, RegistryOK, Unclosed
    <3>2. CASE UNCHANGED sandboxVars
      BY <1>1, <3>2, Zenon DEF sandboxVars
    <3>3. CASE CanBegin(b) /\ Begin(b, nextEvaluation[b])
      BY <2>2, <3>1, <3>3, BeginAccepts, Zenon DEF SandboxEval
    <3> QED BY <2>2, <3>2, <3>3, Zenon DEF SandboxEval
  <2>3. ASSUME NEW b \in Sandboxes, CancelSandbox(b) \/ SandboxStatus(b) \/ CloseSandbox(b)
        PROVE  UNCHANGED Contract!contractVars
    BY <1>1, <2>3, Zenon DEF CancelSandbox, SandboxStatus, CloseSandbox, sandboxVars
  <2>4. ASSUME NEW b \in Sandboxes, NEW e \in Evaluations, CancelSandboxEvaluation(b, e)
        PROVE  Contract!Next \/ UNCHANGED Contract!contractVars
    BY <1>5, <2>4, Zenon DEF CancelSandboxEvaluation
  <2> QED BY <1>7, <2>1, <2>2, <2>3, <2>4, Zenon DEF SandboxNext
<1>8. ASSUME NEW b \in Sandboxes, WorkerStep(b)
      PROVE  Contract!Next \/ UNCHANGED Contract!contractVars
  <2>1. Worker(b) /\ UNCHANGED nextEvaluation
    BY <1>8, Zenon DEF WorkerStep, kernelVars
  <2> QED BY <2>1, ReceiveMaps, DisconnectedMaps, RunMaps, PanicBreaks, FinishCompletes, ReplyAnswers, Zenon DEF Worker

<1> QED BY <1>2, <1>3, <1>4, <1>6, <1>7, <1>8, Zenon DEF Next

(* Every behaviour of the Kernel and the worker threads is, sandbox by
   sandbox, one that SandboxInstance and SandboxPending promise: one evaluation
   at a time, one outcome and one answer for each, answers in order, and a
   cancellation that reaches only the evaluation it names (sandbox.rs). *)
THEOREM KernelRefinesContract == Spec => Contract!Spec
<1>1. Init => Contract!Init
  BY InitMaps, Zenon
<1>2. KernelInv /\ [Next]_vars => [Contract!Next]_Contract!contractVars
  BY StepMaps, Zenon
<1> QED BY <1>1, <1>2, KernelInvariant, PTL DEF Spec, Contract!Spec
============================================================================
