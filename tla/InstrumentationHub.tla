------------------------- MODULE InstrumentationHub -------------------------
(***************************************************************************)
(* The instrumentation hub owned by one Runtime                            *)
(* (core/rust/src/instrumentation/hub.rs, hub/delivery.rs and model.rs).   *)
(*                                                                         *)
(* Instruments register, execution targets register, an instrument attaches*)
(* to targets, a controlling instrument may lease a target and leave one   *)
(* directive for its next safepoint, and producers emit events that are    *)
(* queued per instrument or handed back to the caller as callbacks.        *)
(* Everything a client keeps is a handle <<id, generation>>: after a       *)
(* detach, a removal or a clear the id may be registered again, and the    *)
(* old handle must stay dead.                                              *)
(*                                                                         *)
(* Data: ids and sessions are model values, a registration and a target    *)
(* descriptor are the records below.  The projection an instrument asks for*)
(* is kept as the inspection capabilities it needs; what it copies into an *)
(* event is left out.                                                      *)
(***************************************************************************)
EXTENDS Naturals, Sequences

CONSTANTS
  Instruments,        \* instrument ids
  Targets,            \* target ids
  Sessions,           \* session ids
  Backends,           \* runtime backends
  RegistrationInputs, \* registrations a client may submit, valid or not
  DescriptorInputs,   \* target descriptors a client may submit
  None,               \* an absent map entry
  MaxGeneration,      \* bound on the generations of one id
  MaxOrder,           \* bound on registration orders
  MaxSequence         \* bound on the event sequence of one target

-----------------------------------------------------------------------------
(* model.rs: the event and capability tables.                              *)

EventKinds ==
  {"SemanticBoundary", "InstructionExecute", "CallEnter", "CallReturn",
   "ExceptionRaise", "ExceptionUnwind", "VarSet", "FieldSet",
   "PromiseSuspend", "PromiseResume", "MachineSuspend", "MachineResume",
   "ExecutionTerminal", "ProtocolCall"}

ControlCapabilities ==
  {"ControlPause", "ControlSingleStep", "ControlResume", "ControlSettle",
   "ControlTerminate"}

TransformCapabilities ==
  {"TransformHalc", "TransformHbc", "RetransformHalc", "RetransformHbc"}

EventCapabilities ==
  {"EventSemanticBoundary", "EventInstruction", "EventCall",
   "EventException", "EventEffect", "EventSuspension", "EventLifecycle"}

InspectCapabilities ==
  {"InspectSourceLocation", "InspectCurrentFrame", "InspectFrames",
   "InspectLocals", "InspectStack", "InspectValuePreview", "InspectSnapshot"}

Capabilities ==
  EventCapabilities \cup InspectCapabilities \cup ControlCapabilities
  \cup TransformCapabilities

Modes == {"Passive", "Control", "Transform"}

TargetKinds == {"Interpreter", "Hbc", "WholeWasm"}

required_capability ==
  [e \in EventKinds |->
    CASE e \in {"SemanticBoundary", "ProtocolCall"} -> "EventSemanticBoundary"
      [] e = "InstructionExecute" -> "EventInstruction"
      [] e \in {"CallEnter", "CallReturn"} -> "EventCall"
      [] e \in {"ExceptionRaise", "ExceptionUnwind"} -> "EventException"
      [] e \in {"VarSet", "FieldSet"} -> "EventEffect"
      [] e \in {"PromiseSuspend", "PromiseResume",
                "MachineSuspend", "MachineResume"} -> "EventSuspension"
      [] OTHER -> "EventLifecycle"]

(* The events a target of each kind can produce. *)
supported_events ==
  [k \in TargetKinds |->
    CASE k = "Interpreter" ->
           {"SemanticBoundary", "CallEnter", "CallReturn", "ExceptionRaise",
            "VarSet", "FieldSet", "PromiseSuspend", "PromiseResume",
            "ExecutionTerminal"}
      [] k = "Hbc" ->
           {"InstructionExecute", "CallEnter", "CallReturn",
            "ExceptionUnwind", "MachineSuspend", "MachineResume",
            "ExecutionTerminal"}
      [] OTHER -> {"ProtocolCall", "ExecutionTerminal"}]

Directives == {"Suspend", "StepNext", "Terminate"}   \* Continue is absence

directive_capability ==
  [d \in Directives |->
    CASE d = "Suspend"  -> "ControlPause"
      [] d = "StepNext" -> "ControlSingleStep"
      [] OTHER          -> "ControlTerminate"]

(* An instrument registration.  An empty filter set matches everything;    *)
(* capacity None is callback delivery.                                     *)
Registration ==
  [session: Sessions, mode: Modes, capabilities: SUBSET Capabilities,
   events: SUBSET EventKinds, filter_session: Sessions \cup {None},
   filter_targets: SUBSET Targets, filter_kinds: SUBSET TargetKinds,
   filter_backends: SUBSET Backends, projection: SUBSET InspectCapabilities,
   capacity: Nat \cup {None}]

Descriptor ==
  [session: Sessions, kind: TargetKinds, backend: Backends,
   capabilities: SUBSET Capabilities]

InstrumentHandle == Instruments \X (0..MaxGeneration)
TargetHandle     == Targets \X (0..MaxGeneration)
Orders           == 0..MaxOrder

InstrumentRecord == [handle: InstrumentHandle, registration: Registration,
                     order: Orders]
TargetRecord     == [handle: TargetHandle, descriptor: Descriptor]
Attachment       == [instrument: InstrumentHandle, target: TargetHandle,
                     order: Orders]
Event            == [target: TargetHandle, sequence: Nat,
                     event: EventKinds, dropped_before: Nat]
Queue            == [events: Seq(Event), dropped: Nat]

ASSUME HubConstants ==
  /\ MaxGeneration \in Nat /\ MaxOrder \in Nat /\ MaxSequence \in Nat
  /\ RegistrationInputs \subseteq Registration
  /\ DescriptorInputs \subseteq Descriptor
  /\ None \notin Nat /\ None \notin InstrumentHandle
  /\ None \notin Directives /\ None \notin Sessions

VARIABLES
  registrations,          \* set of InstrumentRecord, keyed by order
  instrument_orders,      \* instrument id -> order of its live registration
  instrument_generations, \* instrument id -> generation of the next one
  targets,                \* set of TargetRecord, keyed by id
  target_generations,     \* target id -> generation of the next one
  attachments,            \* set of Attachment, keyed by both handles
  enabled_events,         \* the mask emit looks at first
  control_leases,         \* target handle -> controlling instrument handle
  next_registration_order,
  queues,                 \* instrument handle -> queued events
  sequences,              \* target handle -> sequence of its last event
  directives,             \* target handle -> directive for its safepoint
  history,                \* ghost: target handle -> kinds of its events
  issued_instruments,     \* ghost: every instrument handle ever returned
  issued_targets          \* ghost: every target handle ever returned

registry  == <<registrations, instrument_orders, instrument_generations,
               targets, target_generations, next_registration_order,
               issued_instruments, issued_targets>>
links     == <<attachments, enabled_events>>
control   == <<control_leases, directives>>
delivery  == <<queues, sequences, history>>
vars      == <<registry, links, control, delivery>>

EmptyQueue == [events |-> << >>, dropped |-> 0]

(* InstrumentRegistration::validate, on the fields the model keeps (an id  *)
(* is never blank, a projection always bounded).                           *)
validate(r) ==
  /\ r.capacity # 0
  /\ \A e \in r.events : required_capability[e] \in r.capabilities
  /\ r.projection \subseteq r.capabilities
  /\ r.mode = "Control"   \/ r.capabilities \cap ControlCapabilities = {}
  /\ r.mode = "Transform" \/ r.capabilities \cap TransformCapabilities = {}

(* InstrumentFilter::matches. *)
matches(r, t, d) ==
  /\ r.filter_session \in {None, d.session}
  /\ r.filter_targets = {} \/ t[1] \in r.filter_targets
  /\ r.filter_kinds = {}   \/ d.kind \in r.filter_kinds
  /\ r.filter_backends = {} \/ d.backend \in r.filter_backends

(* resolve_instrument: through the id index, then by the whole handle. *)
resolve_instrument(h) ==
  {rec \in registrations : rec.order = instrument_orders[h[1]]
                           /\ rec.handle = h}

resolve_target(t) == {rec \in targets : rec.handle = t}

(* Mutant: the mask only ever grows. *)
event_mask_grows(atts, regs) ==
  enabled_events \cup
  UNION {rec.registration.events :
           rec \in {r \in regs : \E a \in atts : a.instrument = r.handle}}

(* recompute_event_mask, over the attachments and registrations given. *)
event_mask(atts, regs) ==
  UNION {rec.registration.events :
           rec \in {r \in regs : \E a \in atts : a.instrument = r.handle}}

(* The events of the removed targets leave every queue, by the id of their *)
(* target (Vec::retain in DeliveryState::remove_target).                   *)
survives(e, dead) == ~ \E t \in dead : t[1] = e.target[1]

retain(s, dead) ==
  LET kept[n \in 0..Len(s)] ==
        IF n = 0 THEN << >>
        ELSE IF survives(s[n], dead) THEN Append(kept[n - 1], s[n])
        ELSE kept[n - 1]
  IN  kept[Len(s)]

purge(q, dead) == [q EXCEPT !.events = retain(q.events, dead)]

(* Mutant: a full queue refuses the newest event instead. *)
push_newest_lost(q, capacity, e) ==
  IF Len(q.events) = capacity
  THEN [q EXCEPT !.dropped = @ + 1]
  ELSE [q EXCEPT !.events = Append(@, [e EXCEPT !.dropped_before = q.dropped])]

(* InstrumentQueue::push: a full queue gives up its oldest event. *)
push(q, capacity, e) ==
  LET full    == Len(q.events) = capacity
      dropped == IF full THEN q.dropped + 1 ELSE q.dropped
      kept    == IF full THEN Tail(q.events) ELSE q.events
  IN  [events  |-> Append(kept, [e EXCEPT !.dropped_before = dropped]),
       dropped |-> dropped]

-----------------------------------------------------------------------------
Init ==
  /\ registrations = {} /\ targets = {} /\ attachments = {}
  /\ instrument_orders = [i \in Instruments |-> None]
  /\ instrument_generations = [i \in Instruments |-> 0]
  /\ target_generations = [t \in Targets |-> 0]
  /\ enabled_events = {}
  /\ control_leases = [t \in TargetHandle |-> None]
  /\ directives = [t \in TargetHandle |-> None]
  /\ next_registration_order = 0
  /\ queues = [h \in InstrumentHandle |-> EmptyQueue]
  /\ sequences = [t \in TargetHandle |-> 0]
  /\ history = [t \in TargetHandle |-> << >>]
  /\ issued_instruments = {} /\ issued_targets = {}

(* register: the id must be free; the handle carries the next generation. *)
register(i, r) ==
  /\ validate(r)
  /\ instrument_orders[i] = None
  /\ instrument_generations[i] <= MaxGeneration       \* bound
  /\ next_registration_order <= MaxOrder              \* bound
  /\ LET order == next_registration_order
     IN  /\ instrument_orders' = [instrument_orders EXCEPT ![i] = order]
         /\ registrations' = registrations \cup
              {[handle |-> <<i, instrument_generations[i]>>,
                registration |-> r, order |-> order]}
         /\ next_registration_order' = order + 1
  /\ instrument_generations' = [instrument_generations EXCEPT ![i] = @ + 1]
  /\ issued_instruments' =
       issued_instruments \cup {<<i, instrument_generations[i]>>}
  /\ UNCHANGED <<targets, target_generations, issued_targets, links, control,
                 delivery>>

register_target(t, d) ==
  /\ ~ \E rec \in targets : rec.handle[1] = t
  /\ target_generations[t] <= MaxGeneration           \* bound
  /\ targets' = targets \cup
       {[handle |-> <<t, target_generations[t]>>, descriptor |-> d]}
  /\ target_generations' = [target_generations EXCEPT ![t] = @ + 1]
  /\ issued_targets' = issued_targets \cup {<<t, target_generations[t]>>}
  /\ UNCHANGED <<registrations, instrument_orders, instrument_generations,
                 next_registration_order, issued_instruments, links, control,
                 delivery>>

(* Mutant: the session of the target is not compared. *)
attach_any_session(h, t) ==
  /\ \E i \in resolve_instrument(h), x \in resolve_target(t) :
       LET r == i.registration
           d == x.descriptor
       IN  /\ matches(r, t, d)
           /\ r.events \subseteq supported_events[d.kind]
           /\ r.capabilities \subseteq d.capabilities
           /\ ~ \E a \in attachments : a.instrument = h /\ a.target = t
           /\ attachments' = attachments \cup
                {[instrument |-> h, target |-> t, order |-> i.order]}
  /\ enabled_events' = event_mask(attachments', registrations)
  /\ UNCHANGED <<registry, control, delivery>>

attach(h, t) ==
  /\ \E i \in resolve_instrument(h), x \in resolve_target(t) :
       LET r == i.registration
           d == x.descriptor
       IN  /\ r.session = d.session
           /\ matches(r, t, d)
           /\ r.events \subseteq supported_events[d.kind]
           /\ r.capabilities \subseteq d.capabilities
           /\ ~ \E a \in attachments : a.instrument = h /\ a.target = t
           /\ attachments' = attachments \cup
                {[instrument |-> h, target |-> t, order |-> i.order]}
  /\ enabled_events' = event_mask(attachments', registrations)
  /\ UNCHANGED <<registry, control, delivery>>

acquire_control(h, t) ==
  /\ \E i \in resolve_instrument(h) : i.registration.mode = "Control"
  /\ resolve_target(t) # {}
  /\ \E a \in attachments : a.instrument = h /\ a.target = t
  /\ control_leases[t] \in {None, h}
  /\ control_leases' = [control_leases EXCEPT ![t] = h]
  /\ UNCHANGED <<registry, links, directives, delivery>>

(* authorize_lease, and the first half of authorize_control. *)
authorize_lease(h, t) ==
  /\ resolve_instrument(h) # {}
  /\ resolve_target(t) # {}
  /\ control_leases[t] = h

(* Mutant: the lease goes, its directive stays for the next safepoint. *)
release_control_keeps_directive(h, t) ==
  /\ authorize_lease(h, t)
  /\ control_leases' = [control_leases EXCEPT ![t] = None]
  /\ UNCHANGED <<registry, links, directives, delivery>>

release_control(h, t) ==
  /\ authorize_lease(h, t)
  /\ control_leases' = [control_leases EXCEPT ![t] = None]
  /\ directives' = [directives EXCEPT ![t] = None]
  /\ UNCHANGED <<registry, links, delivery>>

(* request_directive with Suspend, StepNext or Terminate. *)
request_directive(h, t, d) ==
  /\ authorize_lease(h, t)
  /\ \E i \in resolve_instrument(h) :
        directive_capability[d] \in i.registration.capabilities
  /\ directives' = [directives EXCEPT ![t] = d]
  /\ UNCHANGED <<registry, links, control_leases, delivery>>

(* request_directive with Continue: withdraws the pending directive. *)
request_continue(h, t) ==
  /\ authorize_lease(h, t)
  /\ directives' = [directives EXCEPT ![t] = None]
  /\ UNCHANGED <<registry, links, control_leases, delivery>>

(* take_directive: the target's safepoint consumes what is pending. *)
take_directive(t) ==
  /\ resolve_target(t) # {}
  /\ directives' = [directives EXCEPT ![t] = None]
  /\ UNCHANGED <<registry, links, control_leases, delivery>>

(* The live instruments attached to t that subscribe to event e. *)
subscriptions(t, e) ==
  {i \in UNION {resolve_instrument(a.instrument) :
                  a \in {b \in attachments : b.target = t}} :
     e \in i.registration.events}

(* emit, when something is delivered: below the mask, or without a         *)
(* subscriber, it changes nothing.  Callback deliveries go back to the     *)
(* caller and leave no state in the hub.                                   *)
emit(t, e) ==
  LET subs     == subscriptions(t, e)
      sequence == sequences[t] + 1
      envelope == [target |-> t, sequence |-> sequence, event |-> e,
                   dropped_before |-> 0]
  IN  /\ resolve_target(t) # {}
      /\ e \in enabled_events
      /\ subs # {}
      /\ sequence <= MaxSequence                      \* bound
      /\ sequences' = [sequences EXCEPT ![t] = sequence]
      /\ history' = [history EXCEPT ![t] = Append(@, e)]
      /\ queues' =
           [h \in InstrumentHandle |->
             IF \E i \in subs : i.handle = h /\ i.registration.capacity # None
             THEN LET i == CHOOSE x \in subs : x.handle = h
                  IN  push(queues[h], i.registration.capacity, envelope)
             ELSE queues[h]]
      /\ UNCHANGED <<registry, links, control>>

drain_events(h) ==
  /\ \E i \in resolve_instrument(h) : i.registration.capacity # None
  /\ queues' = [queues EXCEPT ![h] = EmptyQueue]
  /\ UNCHANGED <<registry, links, control, sequences, history>>

(* Mutant: the id index keeps the detached instrument. *)
remaining_orders_dangle(di) == instrument_orders

(* Mutant: only the instrument's side of an attachment is retained. *)
remaining_attachments_of_dead_target(di, dt) ==
  {a \in attachments : a.instrument \notin di}

(* What is left when the instruments `di` are detached and the targets     *)
(* `dt` removed.                                                           *)
remaining_orders(di) ==
  [i \in Instruments |->
     IF \E h \in di : h[1] = i THEN None ELSE instrument_orders[i]]

remaining_attachments(di, dt) ==
  {a \in attachments : a.instrument \notin di /\ a.target \notin dt}

remaining_leases(di, dt) ==
  [t \in TargetHandle |->
     IF t \in dt \/ control_leases[t] \in di THEN None ELSE control_leases[t]]

remaining_directives(di, dt) ==
  [t \in TargetHandle |->
     IF t \in dt \/ control_leases[t] \in di THEN None ELSE directives[t]]

remaining_queues(di, dt) ==
  [h \in InstrumentHandle |->
     IF h \in di THEN EmptyQueue ELSE purge(queues[h], dt)]

remove_handles(di, dt) ==
  /\ registrations' = {i \in registrations : i.handle \notin di}
  /\ instrument_orders' = remaining_orders(di)
  /\ targets' = {x \in targets : x.handle \notin dt}
  /\ attachments' = remaining_attachments(di, dt)
  /\ control_leases' = remaining_leases(di, dt)
  /\ directives' = remaining_directives(di, dt)
  /\ queues' = remaining_queues(di, dt)
  /\ sequences' = [t \in TargetHandle |-> IF t \in dt THEN 0 ELSE sequences[t]]
  /\ history' = [t \in TargetHandle |-> IF t \in dt THEN << >> ELSE history[t]]
  /\ enabled_events' = event_mask(attachments', registrations')
  /\ UNCHANGED <<instrument_generations, target_generations,
                 next_registration_order, issued_instruments, issued_targets>>

detach(h) ==
  /\ resolve_instrument(h) # {}
  /\ remove_handles({h}, {})

remove_target(t) ==
  /\ resolve_target(t) # {}
  /\ remove_handles({}, {t})

(* detach_session: detach every instrument, then remove every target, of   *)
(* the session; the handles are collected before the first removal.        *)
detach_session(s) ==
  remove_handles(
    {i.handle : i \in {x \in registrations : x.registration.session = s}},
    {x.handle : x \in {y \in targets : y.descriptor.session = s}})

(* Mutant: clear also forgets the generations it has handed out. *)
clear_generations ==
  /\ registrations' = {} /\ targets' = {} /\ attachments' = {}
  /\ instrument_orders' = [i \in Instruments |-> None]
  /\ enabled_events' = {}
  /\ control_leases' = [t \in TargetHandle |-> None]
  /\ directives' = [t \in TargetHandle |-> None]
  /\ queues' = [h \in InstrumentHandle |-> EmptyQueue]
  /\ sequences' = [t \in TargetHandle |-> 0]
  /\ history' = [t \in TargetHandle |-> << >>]
  /\ instrument_generations' = [i \in Instruments |-> 0]
  /\ target_generations' = [t \in Targets |-> 0]
  /\ UNCHANGED <<next_registration_order, issued_instruments, issued_targets>>

(* clear: the Runtime is reset.  Generations and the order counter stay. *)
clear ==
  /\ registrations' = {} /\ targets' = {} /\ attachments' = {}
  /\ instrument_orders' = [i \in Instruments |-> None]
  /\ enabled_events' = {}
  /\ control_leases' = [t \in TargetHandle |-> None]
  /\ directives' = [t \in TargetHandle |-> None]
  /\ queues' = [h \in InstrumentHandle |-> EmptyQueue]
  /\ sequences' = [t \in TargetHandle |-> 0]
  /\ history' = [t \in TargetHandle |-> << >>]
  /\ UNCHANGED <<instrument_generations, target_generations,
                 next_registration_order, issued_instruments, issued_targets>>

Next ==
  \/ \E i \in Instruments, r \in RegistrationInputs : register(i, r)
  \/ \E t \in Targets, d \in DescriptorInputs : register_target(t, d)
  \/ \E h \in InstrumentHandle, t \in TargetHandle : attach(h, t)
  \/ \E h \in InstrumentHandle, t \in TargetHandle : acquire_control(h, t)
  \/ \E h \in InstrumentHandle, t \in TargetHandle : release_control(h, t)
  \/ \E h \in InstrumentHandle, t \in TargetHandle, d \in Directives :
       request_directive(h, t, d)
  \/ \E h \in InstrumentHandle, t \in TargetHandle : request_continue(h, t)
  \/ \E t \in TargetHandle : take_directive(t)
  \/ \E t \in TargetHandle, e \in EventKinds : emit(t, e)
  \/ \E h \in InstrumentHandle : drain_events(h)
  \/ \E h \in InstrumentHandle : detach(h)
  \/ \E t \in TargetHandle : remove_target(t)
  \/ \E s \in Sessions : detach_session(s)
  \/ clear

Spec == Init /\ [][Next]_vars

-----------------------------------------------------------------------------
(* Types of the registry, the links and the control state: every handle    *)
(* the hub stores names an id and a generation it has issued, and Continue *)
(* is never stored as a directive (request_directive removes the entry).   *)
RegistryTypeOK ==
  /\ registrations \subseteq InstrumentRecord
  /\ instrument_orders \in [Instruments -> Orders \cup {None}]
  /\ instrument_generations \in [Instruments -> 0..(MaxGeneration + 1)]
  /\ targets \subseteq TargetRecord
  /\ target_generations \in [Targets -> 0..(MaxGeneration + 1)]
  /\ attachments \subseteq Attachment
  /\ enabled_events \subseteq EventKinds
  /\ control_leases \in [TargetHandle -> InstrumentHandle \cup {None}]
  /\ directives \in [TargetHandle -> Directives \cup {None}]
  /\ next_registration_order \in 0..(MaxOrder + 1)
  /\ issued_instruments \subseteq InstrumentHandle
  /\ issued_targets \subseteq TargetHandle

(* The type invariant of the hub (struct InstrumentationHub, hub.rs:218,   *)
(* with its DeliveryState).                                                *)
TypeOK ==
  /\ RegistryTypeOK
  /\ queues \in [InstrumentHandle -> Queue]
  /\ sequences \in [TargetHandle -> 0..MaxSequence]
  /\ history \in [TargetHandle -> Seq(EventKinds)]

live_instruments == {i.handle : i \in registrations}
live_targets     == {x.handle : x \in targets}

(* The id index and the registry agree: the `expect` in resolve_instrument *)
(* (hub.rs:561) can never fail, an order names one registration, one       *)
(* registration per id is live, and it carries the generation handed out   *)
(* last, which is why next_generation makes every handle fresh.            *)
RegistryConsistent ==
  /\ \A i \in Instruments : instrument_orders[i] # None =>
       \E rec \in registrations :
          rec.order = instrument_orders[i] /\ rec.handle[1] = i
  /\ \A rec \in registrations :
       /\ instrument_orders[rec.handle[1]] = rec.order
       /\ rec.order < next_registration_order
       /\ instrument_generations[rec.handle[1]] = rec.handle[2] + 1
  /\ \A r1, r2 \in registrations : r1.order = r2.order => r1 = r2
  /\ \A x \in targets : target_generations[x.handle[1]] = x.handle[2] + 1
  /\ \A x, y \in targets : x.handle[1] = y.handle[1] => x = y

(* An attachment joins a live instrument to a live target of its session   *)
(* that can produce its events and grants its capabilities, for as long as *)
(* the attachment exists: attach checks it once, and every way for either  *)
(* end to go away (detach, remove_target, detach_session, clear) must take *)
(* the attachment along.                                                   *)
AttachmentsSound ==
  \A a \in attachments :
    \E i \in registrations, x \in targets :
      /\ i.handle = a.instrument /\ i.order = a.order /\ x.handle = a.target
      /\ i.registration.session = x.descriptor.session
      /\ i.registration.events \subseteq supported_events[x.descriptor.kind]
      /\ i.registration.capabilities \subseteq x.descriptor.capabilities

(* The cached event mask is exactly the union of the events that attached  *)
(* instruments subscribe to.  emit and enabled_for_target return early on  *)
(* it, so a stale mask would silently drop or needlessly build events.     *)
MaskExact ==
  enabled_events =
    UNION {i.registration.events :
             i \in {j \in registrations :
                      \E a \in attachments : a.instrument = j.handle}}

(* A lease is held only by a live Control instrument that is attached to   *)
(* the live target, and a directive waits only on a leased target whose    *)
(* holder has the capability for it: no safepoint ever obeys an instrument *)
(* that released, detached or never had the right.                         *)
ControlSound ==
  \A t \in TargetHandle :
    /\ control_leases[t] # None =>
         /\ \E i \in registrations : /\ i.handle = control_leases[t]
                                     /\ i.registration.mode = "Control"
         /\ \E a \in attachments : /\ a.instrument = control_leases[t]
                                   /\ a.target = t
    /\ directives[t] # None =>
         \E i \in registrations :
            /\ i.handle = control_leases[t]
            /\ directive_capability[directives[t]] \in
                 i.registration.capabilities

(* A queue belongs to a live queued-delivery instrument, stays within its  *)
(* capacity, and holds only events of live targets it is attached to, in   *)
(* the order they were emitted, none of a removed target's generation.     *)
(* Overflow loses the oldest only: after a queued event of a target every  *)
(* later one the instrument subscribes to is there too.                    *)
QueuesSound ==
  \A h \in InstrumentHandle :
    queues[h] # EmptyQueue =>
      \E i \in registrations :
        /\ i.handle = h
        /\ i.registration.capacity # None
        /\ Len(queues[h].events) <= i.registration.capacity
        /\ \A n \in DOMAIN queues[h].events :
             LET e     == queues[h].events[n]
                 later == {k \in DOMAIN history[e.target] :
                             /\ k > e.sequence
                             /\ history[e.target][k] \in i.registration.events}
             IN  /\ \E a \in attachments :
                       a.instrument = h /\ a.target = e.target
                 /\ e.sequence \in DOMAIN history[e.target]
                 /\ history[e.target][e.sequence] = e.event
                 /\ e.event \in i.registration.events
                 /\ e.dropped_before <= queues[h].dropped
                 /\ \A k \in later : \E m \in DOMAIN queues[h].events :
                      /\ queues[h].events[m].target = e.target
                      /\ queues[h].events[m].sequence = k
        /\ \A m, n \in DOMAIN queues[h].events :
             LET d == queues[h].events[m]
                 e == queues[h].events[n]
             IN  m < n => /\ d.dropped_before <= e.dropped_before
                          /\ d.target = e.target => d.sequence < e.sequence

(* A handle that died stays dead: whatever is registered, removed or       *)
(* cleared later, no handle the hub once returned and has since forgotten  *)
(* ever resolves again (next_generation, hub.rs:608, and clear, which keeps*)
(* the generations).                                                       *)
StaleHandlesStayStale ==
  [][/\ \A h \in issued_instruments :
          h \notin live_instruments => h \notin live_instruments'
     /\ \A t \in issued_targets :
          t \notin live_targets => t \notin live_targets']_vars

(* Detaching one session disturbs nothing of another: its attachments,     *)
(* its leases and directives and its queued events all survive.            *)
SessionIsolation ==
  [][\A s \in Sessions : detach_session(s) =>
       \A i \in registrations : i.registration.session # s =>
         /\ i \in registrations'
         /\ {a \in attachments : a.instrument = i.handle} \subseteq attachments'
         /\ queues'[i.handle] = queues[i.handle]
         /\ \A t \in TargetHandle : control_leases[t] = i.handle =>
              /\ control_leases'[t] = i.handle
              /\ directives'[t] = directives[t]]_vars
=============================================================================
