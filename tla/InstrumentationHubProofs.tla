----------------------- MODULE InstrumentationHubProofs -----------------------
(***************************************************************************)
(* Proofs about the instrumentation hub, for any number of instruments,    *)
(* targets and sessions and any registrations.  The invariants rest on one *)
(* another, so the inductive invariant is their conjunction: attachments   *)
(* need the registry (a detached handle is not the one just registered),   *)
(* the mask needs attachments, control needs both.  The queues need that   *)
(* and more: a target's sequence counts its history, and no queue has      *)
(* capacity 0.                                                             *)
(***************************************************************************)
EXTENDS InstrumentationHub, WellFoundedInduction, TLAPS

(* A handle that was returned has a generation below the next one of its   *)
(* id.                                                                     *)
IssuedBelow ==
  /\ \A h \in InstrumentHandle :
       h \in issued_instruments => h[2] < instrument_generations[h[1]]
  /\ \A t \in TargetHandle :
       t \in issued_targets => t[2] < target_generations[t[1]]

HubInv ==
  /\ RegistryTypeOK
  /\ RegistryConsistent
  /\ AttachmentsSound
  /\ MaskExact
  /\ ControlSound

(* The part of the state HubInv speaks of. *)
hubvars == <<registry, links, control>>

(* A new hub. *)
LEMMA InitHubInv == Init => HubInv
<1> SUFFICES ASSUME Init PROVE HubInv
  BY Zenon
<1> USE HubConstants DEF Init
<1>1. RegistryTypeOK
  BY DEF RegistryTypeOK, Orders
<1>2. RegistryConsistent
  BY Zenon DEF RegistryConsistent
<1>3. AttachmentsSound
  BY Zenon DEF AttachmentsSound
<1>4. MaskExact
  BY Zenon DEF MaskExact
<1>5. ControlSound
  BY Zenon DEF ControlSound
<1> QED
  BY <1>1, <1>2, <1>3, <1>4, <1>5, Zenon DEF HubInv

(* Steps that only move events (emit, drain_events). *)
LEMMA UnchangedHubInv == HubInv /\ UNCHANGED hubvars => HubInv'
<1> SUFFICES ASSUME HubInv, UNCHANGED hubvars PROVE HubInv'
  BY Zenon
<1> USE DEF HubInv, hubvars, registry, links, control
<1>1. RegistryTypeOK'
  BY Zenon DEF RegistryTypeOK
<1>2. RegistryConsistent'
  BY Zenon DEF RegistryConsistent
<1>3. AttachmentsSound'
  BY Zenon DEF AttachmentsSound
<1>4. MaskExact'
  BY Zenon DEF MaskExact
<1>5. ControlSound'
  BY Zenon DEF ControlSound
<1> QED
  BY <1>1, <1>2, <1>3, <1>4, <1>5, Zenon

(* register: the handle is fresh because its generation was never issued. *)
LEMMA RegisterHubInv ==
  ASSUME NEW i \in Instruments, NEW r \in RegistrationInputs,
         HubInv, register(i, r)
  PROVE  HubInv'
<1> USE HubConstants DEF HubInv, register, links, control
<1> DEFINE rec == [handle |-> <<i, instrument_generations[i]>>,
                   registration |-> r, order |-> next_registration_order]
<1>1. /\ rec \in InstrumentRecord
      /\ registrations' = registrations \cup {rec}
  BY DEF RegistryTypeOK, InstrumentRecord, InstrumentHandle, Orders
<1>2. RegistryTypeOK'
  <2>1. issued_instruments' \subseteq InstrumentHandle
    BY DEF RegistryTypeOK, InstrumentHandle
  <2> QED
    BY <1>1, <2>1 DEF RegistryTypeOK, Orders
<1>3. \A x \in registrations : x.handle[1] # i
  BY DEF RegistryConsistent, RegistryTypeOK, InstrumentRecord, Orders
<1>4. RegistryConsistent'
  <2> USE DEF RegistryConsistent, RegistryTypeOK, InstrumentRecord,
              InstrumentHandle, Orders
  <2>1. \A j \in Instruments : instrument_orders'[j] # None =>
          \E x \in registrations' :
             x.order = instrument_orders'[j] /\ x.handle[1] = j
    <3> SUFFICES ASSUME NEW j \in Instruments, instrument_orders'[j] # None
                 PROVE  \E x \in registrations' :
                          x.order = instrument_orders'[j] /\ x.handle[1] = j
      BY Zenon
    <3>1. CASE j = i
      <4>1. /\ rec \in registrations'
            /\ rec.order = instrument_orders'[i] /\ rec.handle[1] = i
        BY <1>1, Zenon
      <4> QED
        BY <3>1, <4>1, Zenon
    <3>2. CASE j # i
      <4>1. instrument_orders'[j] = instrument_orders[j]
        BY <3>2
      <4>2. PICK x \in registrations :
              x.order = instrument_orders[j] /\ x.handle[1] = j
        BY <4>1, Zenon
      <4> QED
        BY <1>1, <4>1, <4>2, Zenon
    <3> QED
      BY <3>1, <3>2, Zenon
  <2>2. \A x \in registrations' :
          /\ instrument_orders'[x.handle[1]] = x.order
          /\ x.order < next_registration_order'
          /\ instrument_generations'[x.handle[1]] = x.handle[2] + 1
    BY <1>1, <1>3
  <2>3. \A x, y \in registrations' : x.order = y.order => x = y
    BY <1>1, <1>3
  <2> QED
    BY <2>1, <2>2, <2>3
<1>5. AttachmentsSound'
  BY <1>1, Zenon DEF AttachmentsSound
<1>6. MaskExact'
  BY <1>1, <1>3 DEF MaskExact, AttachmentsSound
<1>7. ControlSound'
  BY <1>1, Zenon DEF ControlSound
<1> QED
  BY <1>2, <1>4, <1>5, <1>6, <1>7, Zenon

(* register_target. *)
LEMMA RegisterTargetHubInv ==
  ASSUME NEW t \in Targets, NEW d \in DescriptorInputs,
         HubInv, register_target(t, d)
  PROVE  HubInv'
<1> USE HubConstants DEF HubInv, register_target, links, control
<1> DEFINE rec == [handle |-> <<t, target_generations[t]>>, descriptor |-> d]
<1>1. /\ rec \in TargetRecord
      /\ targets' = targets \cup {rec}
  BY DEF RegistryTypeOK, TargetRecord, TargetHandle
<1>2. RegistryTypeOK'
  <2>1. issued_targets' \subseteq TargetHandle
    BY DEF RegistryTypeOK, TargetHandle
  <2> QED
    BY <1>1, <2>1 DEF RegistryTypeOK
<1>3. RegistryConsistent'
  BY <1>1 DEF RegistryConsistent, RegistryTypeOK, TargetRecord, TargetHandle
<1>4. AttachmentsSound'
  BY <1>1, Zenon DEF AttachmentsSound
<1>5. MaskExact'
  BY Zenon DEF MaskExact
<1>6. ControlSound'
  BY DEF ControlSound
<1> QED
  BY <1>2, <1>3, <1>4, <1>5, <1>6, Zenon

(* attach: what it checked once is what AttachmentsSound says. *)
LEMMA AttachHubInv ==
  ASSUME NEW h \in InstrumentHandle, NEW t \in TargetHandle,
         HubInv, attach(h, t)
  PROVE  HubInv'
<1> USE HubConstants DEF HubInv, registry, control
<1>1. PICK i \in resolve_instrument(h), x \in resolve_target(t) :
        /\ i.registration.session = x.descriptor.session
        /\ i.registration.events \subseteq supported_events[x.descriptor.kind]
        /\ i.registration.capabilities \subseteq x.descriptor.capabilities
        /\ attachments' = attachments \cup
             {[instrument |-> h, target |-> t, order |-> i.order]}
  BY Zenon DEF attach
<1>2. /\ i \in registrations /\ i.handle = h
      /\ x \in targets /\ x.handle = t
  BY Zenon DEF resolve_instrument, resolve_target
<1>3. UNCHANGED <<registry, control>>
  BY Zenon DEF attach
<1>4. MaskExact'
  BY <1>3, Zenon DEF attach, MaskExact, event_mask
<1>5. RegistryTypeOK'
  <2>1. attachments' \subseteq Attachment
    BY <1>1, <1>2 DEF RegistryTypeOK, InstrumentRecord, Attachment
  <2>2. enabled_events' \subseteq EventKinds
    BY <1>3, <1>4 DEF MaskExact, RegistryTypeOK, InstrumentRecord, Registration
  <2> QED
    BY <1>3, <2>1, <2>2, Zenon DEF RegistryTypeOK
<1>6. RegistryConsistent'
  BY <1>3, Zenon DEF RegistryConsistent
<1>7. AttachmentsSound'
  <2> SUFFICES ASSUME NEW a \in attachments'
               PROVE  AttachmentsSound!(a)'
    BY Zenon DEF AttachmentsSound
  <2>1. CASE a \in attachments
    BY <1>3, <2>1, Zenon DEF AttachmentsSound
  <2>2. CASE a = [instrument |-> h, target |-> t, order |-> i.order]
    <3>1. a.instrument = h /\ a.target = t /\ a.order = i.order
      BY <2>2, Zenon
    <3> QED
      BY <1>1, <1>2, <1>3, <3>1, Zenon
  <2> QED
    BY <1>1, <2>1, <2>2, Zenon
<1>8. ControlSound'
  BY <1>1, <1>3 DEF ControlSound
<1> QED
  BY <1>4, <1>5, <1>6, <1>7, <1>8, Zenon

(* The actions that only move a lease or a directive. *)
LEMMA ControlHubInv ==
  ASSUME NEW h \in InstrumentHandle, NEW t \in TargetHandle,
         NEW d \in Directives, HubInv,
         \/ acquire_control(h, t)
         \/ release_control(h, t)
         \/ request_directive(h, t, d)
         \/ request_continue(h, t)
  PROVE  HubInv'
<1> USE HubConstants DEF HubInv, registry, links
<1>1. UNCHANGED <<registry, links>>
  BY Zenon DEF acquire_control, release_control, request_directive,
         request_continue
<1>2. RegistryConsistent' /\ AttachmentsSound' /\ MaskExact'
  <2>1. RegistryConsistent'
    BY <1>1, Zenon DEF RegistryConsistent
  <2>2. AttachmentsSound'
    BY <1>1, Zenon DEF AttachmentsSound
  <2>3. MaskExact'
    BY <1>1, Zenon DEF MaskExact
  <2> QED
    BY <2>1, <2>2, <2>3, Zenon
<1>3. RegistryTypeOK'
  BY <1>1 DEF RegistryTypeOK, acquire_control, release_control,
     request_directive, request_continue
<1>4. ControlSound'
  <2>1. CASE acquire_control(h, t)
    BY <1>1, <2>1 DEF ControlSound, acquire_control, RegistryTypeOK,
       resolve_instrument, InstrumentRecord
  <2>2. CASE release_control(h, t)
    BY <1>1, <2>2 DEF ControlSound, release_control, RegistryTypeOK
  <2>3. CASE request_directive(h, t, d)
    BY <1>1, <2>3 DEF ControlSound, request_directive, RegistryTypeOK,
       authorize_lease, resolve_instrument
  <2>4. CASE request_continue(h, t)
    <3>1. control_leases' = control_leases /\ directives' = [directives EXCEPT ![t] = None]
      BY <2>4, Zenon DEF request_continue
    <3>2. \A u \in TargetHandle : directives'[u] = None \/ directives'[u] = directives[u]
      BY <3>1, Zenon DEF RegistryTypeOK
    <3> QED
      BY <1>1, <3>1, <3>2 DEF ControlSound
  <2> QED
    BY <2>1, <2>2, <2>3, <2>4, Zenon
<1> QED
  BY <1>2, <1>3, <1>4, Zenon

(* take_directive: the safepoint consumes what its lease holder left. *)
LEMMA TakeDirectiveHubInv ==
  ASSUME NEW t \in TargetHandle, HubInv, take_directive(t)
  PROVE  HubInv'
<1> USE HubConstants DEF HubInv, registry, links, take_directive
<1>1. RegistryTypeOK'
  BY Zenon DEF RegistryTypeOK
<1>2. RegistryConsistent'
  BY Zenon DEF RegistryConsistent
<1>3. AttachmentsSound'
  BY Zenon DEF AttachmentsSound
<1>4. MaskExact'
  BY Zenon DEF MaskExact
<1>5. ControlSound'
  BY DEF ControlSound, RegistryTypeOK
<1> QED
  BY <1>1, <1>2, <1>3, <1>4, <1>5, Zenon

(* Removing instruments and targets keeps the id index and the registry in *)
(* step: the ids whose index entry goes are exactly those of the removed   *)
(* registrations, because an id has one live registration.                 *)
LEMMA RemoveRegistryConsistent ==
  ASSUME NEW di \in SUBSET InstrumentHandle, NEW dt \in SUBSET TargetHandle,
         di \subseteq live_instruments,
         RegistryTypeOK, RegistryConsistent, remove_handles(di, dt)
  PROVE  RegistryConsistent'
<1>1. /\ registrations' = {i \in registrations : i.handle \notin di}
      /\ targets' = {x \in targets : x.handle \notin dt}
      /\ instrument_generations' = instrument_generations
      /\ target_generations' = target_generations
      /\ next_registration_order' = next_registration_order
  BY Zenon DEF remove_handles
<1>2. \A i \in Instruments : instrument_orders'[i] =
        IF \E h \in di : h[1] = i THEN None ELSE instrument_orders[i]
  BY Zenon DEF remove_handles, remaining_orders
<1>3. \A x \in registrations : x.handle \in InstrumentHandle
                               /\ x.handle[1] \in Instruments
  BY Zenon DEF RegistryTypeOK, InstrumentRecord, InstrumentHandle
<1>4. ASSUME NEW x \in registrations, NEW h \in di, x.handle[1] = h[1]
      PROVE  x.handle = h
  <2>1. PICK y \in registrations : y.handle = h
    BY Zenon DEF live_instruments
  <2>2. x.order = y.order
    BY <1>4, <2>1 DEF RegistryConsistent
  <2> QED
    BY <2>1, <2>2, Zenon DEF RegistryConsistent
<1>5. ASSUME NEW i \in Instruments, instrument_orders'[i] # None
      PROVE  \E rec \in registrations' :
               rec.order = instrument_orders'[i] /\ rec.handle[1] = i
  <2>1. /\ instrument_orders'[i] = instrument_orders[i]
        /\ ~ \E h \in di : h[1] = i
    BY <1>2, <1>5, Zenon
  <2>2. PICK rec \in registrations :
               rec.order = instrument_orders[i] /\ rec.handle[1] = i
    BY <1>5, <2>1, Zenon DEF RegistryConsistent
  <2> QED
    BY <1>1, <2>1, <2>2, Zenon
<1>6. ASSUME NEW rec \in registrations'
      PROVE  /\ instrument_orders'[rec.handle[1]] = rec.order
             /\ rec.order < next_registration_order'
             /\ instrument_generations'[rec.handle[1]] = rec.handle[2] + 1
  <2>1. rec \in registrations /\ rec.handle \notin di
    BY <1>1, Zenon
  <2>2. ~ \E h \in di : h[1] = rec.handle[1]
    BY <1>4, <2>1, Zenon
  <2>3. instrument_orders'[rec.handle[1]] = instrument_orders[rec.handle[1]]
    BY <1>2, <1>3, <2>1, <2>2, Zenon
  <2> QED
    BY <1>1, <2>1, <2>3, Zenon DEF RegistryConsistent
<1>7. /\ \A r1, r2 \in registrations' : r1.order = r2.order => r1 = r2
      /\ \A x \in targets' : target_generations'[x.handle[1]] = x.handle[2] + 1
      /\ \A x, y \in targets' : x.handle[1] = y.handle[1] => x = y
  BY <1>1 DEF RegistryConsistent
<1> QED
  BY <1>5, <1>6, <1>7, Zenon DEF RegistryConsistent

(* Whatever set of instruments and targets goes, everything that names     *)
(* them goes in the same step.                                             *)
LEMMA RemoveHubInv ==
  ASSUME NEW di \in SUBSET InstrumentHandle, NEW dt \in SUBSET TargetHandle,
         di \subseteq live_instruments,
         HubInv, remove_handles(di, dt)
  PROVE  HubInv'
<1>0. /\ RegistryTypeOK /\ RegistryConsistent /\ AttachmentsSound
      /\ MaskExact /\ ControlSound
  BY Zenon DEF HubInv
<1>1. /\ registrations' = {i \in registrations : i.handle \notin di}
      /\ targets' = {x \in targets : x.handle \notin dt}
      /\ attachments' = {a \in attachments : a.instrument \notin di
                                             /\ a.target \notin dt}
      /\ instrument_generations' = instrument_generations
      /\ target_generations' = target_generations
      /\ next_registration_order' = next_registration_order
      /\ issued_instruments' = issued_instruments
      /\ issued_targets' = issued_targets
  BY Zenon DEF remove_handles, remaining_attachments
<1>2. /\ control_leases' = remaining_leases(di, dt)
      /\ directives' = remaining_directives(di, dt)
      /\ instrument_orders' = remaining_orders(di)
  BY Zenon DEF remove_handles
<1>3. \A t \in TargetHandle :
        IF t \in dt \/ control_leases[t] \in di
        THEN control_leases'[t] = None /\ directives'[t] = None
        ELSE /\ control_leases'[t] = control_leases[t]
             /\ directives'[t] = directives[t]
  BY <1>2, Zenon DEF remaining_leases, remaining_directives
<1>4. MaskExact'
  BY Zenon DEF MaskExact, event_mask, remove_handles
<1>5. RegistryTypeOK'
  <2>1. instrument_orders' \in [Instruments -> Orders \cup {None}]
    BY <1>0, <1>2, Zenon DEF remaining_orders, RegistryTypeOK
  <2>2. control_leases' \in [TargetHandle -> InstrumentHandle \cup {None}]
    BY <1>0, <1>2, Zenon DEF remaining_leases, RegistryTypeOK
  <2>3. directives' \in [TargetHandle -> Directives \cup {None}]
    BY <1>0, <1>2, Zenon DEF remaining_directives, RegistryTypeOK
  <2>4. \A i \in registrations' : i.registration.events \subseteq EventKinds
    BY <1>0, <1>1, Zenon DEF RegistryTypeOK, InstrumentRecord, Registration
  <2>5. enabled_events' \subseteq EventKinds
    BY <1>4, <2>4, Zenon DEF MaskExact
  <2> QED
    BY <1>0, <1>1, <2>1, <2>2, <2>3, <2>5, Zenon DEF RegistryTypeOK
<1>6. RegistryConsistent'
  BY <1>0, RemoveRegistryConsistent, Zenon
<1>7. AttachmentsSound'
  <2> SUFFICES ASSUME NEW a \in attachments' PROVE AttachmentsSound!(a)'
    BY Zenon DEF AttachmentsSound
  <2>1. PICK i \in registrations, x \in targets : AttachmentsSound!(a)!(i, x)
    BY <1>0, <1>1, Zenon DEF AttachmentsSound
  <2>2. i \in registrations' /\ x \in targets'
    BY <1>1, <2>1, Zenon
  <2> QED
    BY <2>1, <2>2, Zenon
<1>8. ControlSound'
  <2> SUFFICES ASSUME NEW t \in TargetHandle
               PROVE  ControlSound!(t)'
    BY Zenon DEF ControlSound
  <2>1. CASE t \in dt \/ control_leases[t] \in di
    BY <1>3, <2>1, Zenon
  <2>2. CASE ~(t \in dt \/ control_leases[t] \in di)
    <3>1. control_leases'[t] = control_leases[t] /\ directives'[t] = directives[t]
      BY <1>3, <2>2, Zenon
    <3> QED
      BY <1>0, <1>1, <3>1, <2>2 DEF ControlSound
  <2> QED
    BY <2>1, <2>2, Zenon
<1> QED
  BY <1>4, <1>5, <1>6, <1>7, <1>8, Zenon DEF HubInv

(* clear. *)
LEMMA ClearHubInv == ASSUME HubInv, clear PROVE HubInv'
<1> USE HubConstants DEF HubInv, clear
<1>1. RegistryTypeOK'
  BY Zenon DEF RegistryTypeOK
<1>2. RegistryConsistent'
  BY Zenon DEF RegistryConsistent
<1>3. AttachmentsSound'
  BY Zenon DEF AttachmentsSound
<1>4. MaskExact'
  BY Zenon DEF MaskExact
<1>5. ControlSound'
  BY Zenon DEF ControlSound
<1> QED
  BY <1>1, <1>2, <1>3, <1>4, <1>5, Zenon

(* Every operation of the hub keeps the invariant. *)
LEMMA NextHubInv == HubInv /\ [Next]_vars => HubInv'
<1> SUFFICES ASSUME HubInv, [Next]_vars PROVE HubInv'
  BY Zenon
<1>1. ASSUME NEW h \in InstrumentHandle, detach(h) PROVE HubInv'
  <2>1. {h} \subseteq live_instruments
    BY <1>1, Zenon DEF detach, resolve_instrument, live_instruments
  <2> QED
    BY <1>1, <2>1, RemoveHubInv, Zenon DEF detach
<1>2. ASSUME NEW t \in TargetHandle, remove_target(t) PROVE HubInv'
  BY <1>2, RemoveHubInv DEF remove_target
<1>3. ASSUME NEW s \in Sessions, detach_session(s) PROVE HubInv'
  <2> DEFINE di == {i.handle : i \in {x \in registrations :
                                        x.registration.session = s}}
             dt == {x.handle : x \in {y \in targets :
                                        y.descriptor.session = s}}
  <2>1. /\ di \in SUBSET InstrumentHandle /\ dt \in SUBSET TargetHandle
        /\ di \subseteq live_instruments
    BY DEF HubInv, RegistryTypeOK, InstrumentRecord, TargetRecord,
           live_instruments
  <2>2. remove_handles(di, dt)
    BY <1>3, Zenon DEF detach_session
  <2> QED
    BY <2>1, <2>2, RemoveHubInv, Zenon
<1>4. CASE \/ \E t \in TargetHandle, e \in EventKinds : emit(t, e)
           \/ \E h \in InstrumentHandle : drain_events(h)
           \/ UNCHANGED vars
  <2>1. UNCHANGED hubvars
    BY <1>4, Zenon DEF emit, drain_events, vars, hubvars
  <2> QED
    BY <2>1, UnchangedHubInv, Zenon
<1>5. ASSUME NEW h \in InstrumentHandle, NEW t \in TargetHandle,
             acquire_control(h, t) \/ release_control(h, t)
               \/ request_continue(h, t)
      PROVE  HubInv'
  BY <1>5, ControlHubInv, Zenon DEF Directives
<1>6. ASSUME NEW t \in TargetHandle, take_directive(t) PROVE HubInv'
  BY <1>6, TakeDirectiveHubInv, Zenon
<1>7. ASSUME NEW h \in InstrumentHandle, NEW t \in TargetHandle,
             NEW d \in Directives, request_directive(h, t, d)
      PROVE  HubInv'
  BY <1>7, ControlHubInv, Zenon
<1>8. ASSUME NEW i \in Instruments, NEW r \in RegistrationInputs,
             register(i, r)
      PROVE  HubInv'
  BY <1>8, RegisterHubInv, Zenon
<1>9. ASSUME NEW t \in Targets, NEW d \in DescriptorInputs,
             register_target(t, d)
      PROVE  HubInv'
  BY <1>9, RegisterTargetHubInv
<1>10. ASSUME NEW h \in InstrumentHandle, NEW t \in TargetHandle,
              attach(h, t)
       PROVE  HubInv'
  BY <1>10, AttachHubInv, Zenon
<1> QED
  BY <1>1, <1>2, <1>3, <1>4, <1>5, <1>6, <1>7, <1>8, <1>9, <1>10,
     ClearHubInv, Zenon DEF Next

(* The inductive invariant holds of every behaviour of the hub. *)
THEOREM HubInvariant == Spec => []HubInv
BY InitHubInv, NextHubInv, PTL DEF Spec

(* An id index that never dangles and handles that are never issued twice. *)
THEOREM RegistryIsConsistent == Spec => []RegistryConsistent
BY HubInvariant, PTL DEF HubInv

(* Attachments never outlive either end. *)
THEOREM AttachmentsAreSound == Spec => []AttachmentsSound
BY HubInvariant, PTL DEF HubInv

(* emit never returns early past a subscriber. *)
THEOREM MaskIsExact == Spec => []MaskExact
BY HubInvariant, PTL DEF HubInv

(* Only the live, attached, authorised holder of a lease has a directive   *)
(* waiting at a safepoint.                                                 *)
THEOREM ControlIsSound == Spec => []ControlSound
BY HubInvariant, PTL DEF HubInv

(* next_generation only grows, so a handle once returned is never issued   *)
(* again.                                                                  *)
LEMMA NextIssuedBelow == HubInv /\ IssuedBelow /\ [Next]_vars => IssuedBelow'
<1> SUFFICES ASSUME HubInv, IssuedBelow, [Next]_vars PROVE IssuedBelow'
  BY Zenon
<1>0. RegistryTypeOK
  BY Zenon DEF HubInv
<1>1. ASSUME NEW i \in Instruments, NEW r \in RegistrationInputs,
             register(i, r)
      PROVE  IssuedBelow'
  <2>1. /\ issued_instruments' =
             issued_instruments \cup {<<i, instrument_generations[i]>>}
        /\ instrument_generations' =
             [instrument_generations EXCEPT ![i] = @ + 1]
        /\ UNCHANGED <<issued_targets, target_generations>>
    BY <1>1, Zenon DEF register
  <2>2. instrument_generations \in [Instruments -> Nat]
    BY <1>0, HubConstants DEF RegistryTypeOK
  <2>3. ASSUME NEW h \in InstrumentHandle, h \in issued_instruments'
        PROVE  h[2] < instrument_generations'[h[1]]
    BY <2>1, <2>2, <2>3 DEF IssuedBelow, InstrumentHandle
  <2> QED
    BY <2>1, <2>3, Zenon DEF IssuedBelow
<1>2. ASSUME NEW t \in Targets, NEW d \in DescriptorInputs,
             register_target(t, d)
      PROVE  IssuedBelow'
  <2>1. /\ issued_targets' = issued_targets \cup {<<t, target_generations[t]>>}
        /\ target_generations' = [target_generations EXCEPT ![t] = @ + 1]
        /\ UNCHANGED <<issued_instruments, instrument_generations>>
    BY <1>2, Zenon DEF register_target
  <2>2. target_generations \in [Targets -> Nat]
    BY <1>0, HubConstants DEF RegistryTypeOK
  <2>3. ASSUME NEW h \in TargetHandle, h \in issued_targets'
        PROVE  h[2] < target_generations'[h[1]]
    BY <2>1, <2>2, <2>3 DEF IssuedBelow, TargetHandle
  <2> QED
    BY <2>1, <2>3, Zenon DEF IssuedBelow
<1>3. \/ UNCHANGED <<issued_instruments, instrument_generations,
                    issued_targets, target_generations>>
      \/ \E i \in Instruments, r \in RegistrationInputs : register(i, r)
      \/ \E t \in Targets, d \in DescriptorInputs : register_target(t, d)
  BY Zenon DEF Next, attach, acquire_control, release_control, request_directive,
     request_continue, take_directive, emit, drain_events, detach,
     remove_target, detach_session, remove_handles, clear, registry, vars
<1> QED
  BY <1>1, <1>2, <1>3, Zenon DEF IssuedBelow

(* No handle that died is ever accepted again. *)
THEOREM StaleHandles == Spec => StaleHandlesStayStale
<1>1. HubInv /\ IssuedBelow /\ [Next]_vars =>
        [/\ \A h \in issued_instruments :
              h \notin live_instruments => h \notin live_instruments'
         /\ \A t \in issued_targets :
              t \notin live_targets => t \notin live_targets']_vars
  <2> SUFFICES ASSUME HubInv, IssuedBelow, Next
               PROVE  /\ \A h \in issued_instruments :
                           h \notin live_instruments => h \notin live_instruments'
                      /\ \A t \in issued_targets :
                           t \notin live_targets => t \notin live_targets'
    BY Zenon
  <2>0. /\ issued_instruments \subseteq InstrumentHandle
        /\ issued_targets \subseteq TargetHandle
        /\ instrument_generations \in [Instruments -> Nat]
        /\ target_generations \in [Targets -> Nat]
    BY HubConstants DEF HubInv, RegistryTypeOK
  <2>1. ASSUME NEW i \in Instruments, NEW r \in RegistrationInputs,
               register(i, r)
        PROVE  /\ \A x \in registrations' \ registrations :
                    /\ x.handle = <<i, instrument_generations[i]>>
                    /\ x.handle \notin issued_instruments
               /\ targets' = targets
    <3>1. <<i, instrument_generations[i]>> \notin issued_instruments
      BY <2>0 DEF IssuedBelow, InstrumentHandle
    <3> QED
      BY <2>1, <3>1 DEF register
  <2>2. ASSUME NEW t \in Targets, NEW d \in DescriptorInputs,
               register_target(t, d)
        PROVE  /\ \A x \in targets' \ targets :
                    /\ x.handle = <<t, target_generations[t]>>
                    /\ x.handle \notin issued_targets
               /\ registrations' = registrations
    <3>1. <<t, target_generations[t]>> \notin issued_targets
      BY <2>0 DEF IssuedBelow, TargetHandle
    <3> QED
      BY <2>2, <3>1 DEF register_target
  <2>3. \/ /\ registrations' \subseteq registrations
           /\ targets' \subseteq targets
        \/ \E i \in Instruments, r \in RegistrationInputs : register(i, r)
        \/ \E t \in Targets, d \in DescriptorInputs : register_target(t, d)
    BY Zenon DEF Next, attach, acquire_control, release_control, request_directive,
       request_continue, take_directive, emit, drain_events, detach,
       remove_target, detach_session, remove_handles, clear, registry
  <2> QED
    BY <2>1, <2>2, <2>3, Zenon DEF live_instruments, live_targets
<1>2. Init => IssuedBelow
  BY Zenon DEF Init, IssuedBelow
<1> QED
  BY <1>1, <1>2, NextIssuedBelow, HubInvariant, PTL
     DEF Spec, StaleHandlesStayStale

-----------------------------------------------------------------------------
(* The queues.                                                             *)

(* Queued event d comes before queued event e. *)
Before(d, e) ==
  /\ d.dropped_before <= e.dropped_before
  /\ d.target = e.target => d.sequence < e.sequence

(* The queue of handle h, with registration r, holds event e by right.     *)
EventOK(q, h, r, atts, hist, e) ==
  /\ \E a \in atts : a.instrument = h /\ a.target = e.target
  /\ e.sequence \in DOMAIN hist[e.target]
  /\ hist[e.target][e.sequence] = e.event
  /\ e.event \in r.events
  /\ e.dropped_before <= q.dropped
  /\ \A k \in DOMAIN hist[e.target] :
       k > e.sequence /\ hist[e.target][k] \in r.events =>
         \E m \in DOMAIN q.events : q.events[m].target = e.target
                                    /\ q.events[m].sequence = k

QueueOK(q, h, r, atts, hist) ==
  /\ r.capacity # None
  /\ Len(q.events) <= r.capacity
  /\ \A n \in DOMAIN q.events : EventOK(q, h, r, atts, hist, q.events[n])
  /\ \A m, n \in DOMAIN q.events : m < n => Before(q.events[m], q.events[n])

QueuesOK ==
  \A h \in InstrumentHandle : queues[h] # EmptyQueue =>
    \E i \in registrations :
      i.handle = h /\ QueueOK(queues[h], h, i.registration, attachments, history)

(* A target's sequence counts its events, and validate let no registration *)
(* through whose queue has no room.                                        *)
DeliveryInv ==
  /\ TypeOK
  /\ \A t \in TargetHandle : Len(history[t]) = sequences[t]
  /\ \A i \in registrations : i.registration.capacity # 0
  /\ QueuesOK

(* QueuesOK is QueuesSound, in terms of one queue. *)
LEMMA QueuesOKIsSound == QueuesOK => QueuesSound
<1> SUFFICES ASSUME QueuesOK, NEW h \in InstrumentHandle, queues[h] # EmptyQueue
             PROVE  QueuesSound!(h)!2
  BY Zenon DEF QueuesSound
<1>1. PICK i \in registrations :
        i.handle = h /\ QueueOK(queues[h], h, i.registration, attachments, history)
  BY Zenon DEF QueuesOK
<1> QED BY <1>1, Zenon DEF QueueOK, EventOK, Before

(* Induction over the naturals, for a set. *)
LEMMA SetInduction ==
  ASSUME NEW S, 0 \in S, \A n \in Nat : n \in S => n + 1 \in S
  PROVE  Nat \subseteq S
<1> DEFINE R == OpToRel(<, Nat)
           T == Nat \ S
<1> SUFFICES ASSUME T # {} PROVE FALSE
  BY Zenon
<1>1. IsWellFoundedOn(R, Nat)
  BY NatLessThanWellFounded, Zenon
<1>2. \A x, y \in Nat : x < y => <<x, y>> \in R
  BY Zenon DEF OpToRel
<1>3. T \subseteq Nat
  BY Zenon
<1> HIDE DEF R, T
<1>4. PICK x \in T : \A y \in T : ~(<<y, x>> \in R)
  BY <1>1, <1>3, WFMin, Zenon
<1>5. x \in Nat /\ x \notin S /\ x # 0
  BY <1>4, Zenon DEF T
<1>6. x - 1 \in Nat /\ x - 1 < x /\ (x - 1) + 1 = x
  BY <1>5
<1>7. x - 1 \in S
  BY <1>2, <1>4, <1>5, <1>6, Zenon DEF T
<1> QED BY <1>5, <1>6, <1>7, Zenon

(* r is what retain leaves of the first n events of s. *)
Retained(r, s, n, dead) ==
  /\ Len(r) <= n
  /\ \A j \in 1..n : survives(s[j], dead) => \E m \in 1..Len(r) : r[m] = s[j]
  /\ \A m \in 1..Len(r) : \E j \in 1..n : survives(s[j], dead) /\ r[m] = s[j]
  /\ \A m, k \in 1..Len(r) : m < k =>
       \E i, j \in 1..n : i < j /\ r[m] = s[i] /\ r[k] = s[j]
  /\ (\A j \in 1..n : survives(s[j], dead)) => Len(r) = n /\ \A j \in 1..n : r[j] = s[j]

(* One more event is looked at, and kept or not. *)
LEMMA RetainOne ==
  ASSUME NEW S, NEW s \in Seq(S), NEW dead, NEW n \in Nat, n + 1 <= Len(s),
         NEW r \in Seq(S), Retained(r, s, n, dead),
         NEW r1, r1 = IF survives(s[n + 1], dead) THEN Append(r, s[n + 1]) ELSE r
  PROVE  r1 \in Seq(S) /\ Retained(r1, s, n + 1, dead)
<1>0. s[n + 1] \in S /\ n + 1 \in 1..(n + 1) /\ 1..n \subseteq 1..(n + 1)
      /\ \A j \in 1..(n + 1) : j \in 1..n \/ j = n + 1
  OBVIOUS
<1>1. CASE ~ survives(s[n + 1], dead)
  <2>1. r1 = r
    BY <1>1, Zenon
  <2>2. ~ \A j \in 1..(n + 1) : survives(s[j], dead)
    BY <1>1, <1>0, Zenon
  <2> HIDE DEF survives
  <2> QED BY <1>0, <1>1, <2>1, <2>2 DEF Retained
<1>2. CASE survives(s[n + 1], dead)
  <2>1. r1 = Append(r, s[n + 1])
    BY <1>2, Zenon
  <2>2. /\ r1 \in Seq(S) /\ Len(r1) = Len(r) + 1 /\ Len(r) \in Nat
        /\ \A m \in 1..Len(r) : m \in 1..Len(r1) /\ r1[m] = r[m]
        /\ r1[Len(r1)] = s[n + 1] /\ Len(r1) \in 1..Len(r1)
        /\ \A m \in 1..Len(r1) : m \in 1..Len(r) \/ m = Len(r1)
    BY <1>0, <2>1
  <2> HIDE DEF survives
  <2>3. Len(r1) <= n + 1
    BY <2>2 DEF Retained
  <2>7. ASSUME NEW j \in 1..(n + 1), survives(s[j], dead)
        PROVE  \E m \in 1..Len(r1) : r1[m] = s[j]
    <3>1. CASE j = n + 1
      BY <2>2, <3>1, Zenon
    <3>2. CASE j \in 1..n
      <4>1. PICK m \in 1..Len(r) : r[m] = s[j]
        BY <2>7, <3>2, Zenon DEF Retained
      <4> QED BY <2>2, <4>1, Zenon
    <3> QED BY <1>0, <3>1, <3>2, Zenon
  <2>4. \A m \in 1..Len(r1) : \E j \in 1..(n + 1) : survives(s[j], dead) /\ r1[m] = s[j]
    BY <1>0, <1>2, <2>2 DEF Retained
  <2>5. ASSUME NEW m \in 1..Len(r1), NEW k \in 1..Len(r1), m < k
        PROVE  \E i, j \in 1..(n + 1) : i < j /\ r1[m] = s[i] /\ r1[k] = s[j]
    <3>1. m \in 1..Len(r)
      BY <2>2, <2>5
    <3>2. CASE k \in 1..Len(r)
      BY <1>0, <2>2, <2>5, <3>1, <3>2 DEF Retained
    <3>3. CASE k = Len(r1)
      <4>1. PICK i \in 1..n : r[m] = s[i]
        BY <3>1, Zenon DEF Retained
      <4>2. i < n + 1 /\ r1[m] = s[i] /\ r1[k] = s[n + 1]
        BY <2>2, <3>1, <3>3, <4>1
      <4> QED BY <1>0, <4>2, Zenon
    <3> QED BY <2>2, <3>2, <3>3, Zenon
  <2>6. ASSUME \A j \in 1..(n + 1) : survives(s[j], dead)
        PROVE  Len(r1) = n + 1 /\ \A j \in 1..(n + 1) : r1[j] = s[j]
    <3>1. Len(r) = n /\ \A j \in 1..n : r[j] = s[j]
      BY <1>0, <2>6, Zenon DEF Retained
    <3> QED BY <1>0, <2>2, <3>1, Zenon
  <2> QED BY <2>2, <2>3, <2>4, <2>5, <2>6, <2>7, Zenon DEF Retained
<1> QED BY <1>1, <1>2, Zenon

(* retain keeps exactly the events that survive, in their order, and       *)
(* touches nothing when all do.                                            *)
LEMMA RetainKeeps ==
  ASSUME NEW S, NEW s \in Seq(S), NEW dead
  PROVE  retain(s, dead) \in Seq(S) /\ Retained(retain(s, dead), s, Len(s), dead)
<1> DEFINE Step(g, n) == IF n = 0 THEN << >>
                         ELSE IF survives(s[n], dead) THEN Append(g[n - 1], s[n])
                         ELSE g[n - 1]
           Steps(g, m) == g = [n \in 0..m |-> Step(g, n)]
           Defined == {m \in Nat : \E g : Steps(g, m)}
           kept[n \in 0..Len(s)] ==
             IF n = 0 THEN << >>
             ELSE IF survives(s[n], dead) THEN Append(kept[n - 1], s[n])
             ELSE kept[n - 1]
           Good == {n \in Nat : n <= Len(s) =>
                                  kept[n] \in Seq(S) /\ Retained(kept[n], s, n, dead)}
<1>0. Len(s) \in Nat
  OBVIOUS
<1>1. retain(s, dead) = kept[Len(s)]
  BY Zenon DEF retain
<1>2. kept = CHOOSE g : Steps(g, Len(s))
  BY Zenon
<1> HIDE DEF kept
<1>3. 0 \in Defined
  <2>1. PICK g : g = [n \in 0..0 |-> << >>]
    BY Zenon
  <2>2. g = [n \in 0..0 |-> Step(g, n)]
    BY <2>1
  <2> QED BY <2>2, Zenon
<1>4. ASSUME NEW m \in Nat, m \in Defined PROVE m + 1 \in Defined
  <2>1. PICK g : Steps(g, m)
    BY <1>4, Zenon
  <2>2. PICK h : h = [n \in 0..(m + 1) |-> Step(g, n)]
    BY Zenon
  <2>3. ASSUME NEW n \in 0..m PROVE h[n] = g[n]
    <3>1. g = [i \in 0..m |-> Step(g, i)]
      BY <2>1, Zenon
    <3> HIDE DEF Step
    <3>2. g[n] = Step(g, n)
      BY <3>1, Zenon
    <3>3. n \in 0..(m + 1)
      OBVIOUS
    <3>4. h[n] = Step(g, n)
      BY <2>2, <3>3, Zenon
    <3> QED BY <3>2, <3>4, Zenon
  <2>4. ASSUME NEW n \in 0..(m + 1) PROVE Step(g, n) = Step(h, n)
    <3>1. CASE n = 0
      BY <3>1, Zenon
    <3>2. CASE n # 0
      <4>1. n - 1 \in 0..m
        BY <3>2
      <4>2. g[n - 1] = h[n - 1]
        BY <4>1, <2>3, Zenon
      <4> QED BY <4>2, Zenon
    <3> QED BY <3>1, <3>2, Zenon
  <2>5. Steps(h, m + 1)
    <3> HIDE DEF Step
    <3> QED BY <2>2, <2>4, Zenon
  <2> HIDE DEF Steps
  <2> QED BY <2>5
<1>5. Len(s) \in Defined
  <2> HIDE DEF Defined
  <2> QED BY <1>0, <1>3, <1>4, SetInduction, Zenon
<1>6. kept = [n \in 0..Len(s) |-> Step(kept, n)]
  <2> HIDE DEF Step
  <2> QED BY <1>2, <1>5, Zenon
<1>7. 0 \in Good
  <2>1. kept[0] = Step(kept, 0)
    BY <1>0, <1>6
  <2>2. kept[0] = << >>
    BY <2>1, Zenon
  <2>3. << >> \in Seq(S) /\ Len(<< >>) = 0 /\ 1..0 = {}
    OBVIOUS
  <2>4. Retained(kept[0], s, 0, dead)
    <3> HIDE DEF survives
    <3> QED BY <2>2, <2>3 DEF Retained
  <2> QED BY <2>2, <2>3, <2>4, Zenon
<1>8. ASSUME NEW n \in Nat, n \in Good PROVE n + 1 \in Good
  <2> SUFFICES ASSUME n + 1 <= Len(s)
               PROVE  kept[n + 1] \in Seq(S) /\ Retained(kept[n + 1], s, n + 1, dead)
    OBVIOUS
  <2>1. kept[n] \in Seq(S) /\ Retained(kept[n], s, n, dead)
    BY <1>0, <1>8
  <2>2. kept[n + 1] = Step(kept, n + 1)
    <3> HIDE DEF Step
    <3> QED BY <1>0, <1>6
  <2>3. n + 1 # 0 /\ (n + 1) - 1 = n
    OBVIOUS
  <2>4. kept[n + 1] = IF survives(s[n + 1], dead) THEN Append(kept[n], s[n + 1]) ELSE kept[n]
    BY <2>2, <2>3, Zenon
  <2> QED BY <2>1, <2>4, RetainOne, Zenon
<1>9. Len(s) \in Good
  <2> HIDE DEF Good
  <2> QED BY <1>0, <1>7, <1>8, SetInduction
<1> QED BY <1>0, <1>1, <1>9

Histories == [TargetHandle -> Seq(EventKinds)]

(* The fields of what a queue holds. *)
LEMMA QueueFields ==
  ASSUME NEW q \in Queue
  PROVE  /\ q.events \in Seq(Event) /\ q.dropped \in Nat /\ Len(q.events) \in Nat
         /\ DOMAIN q.events = 1..Len(q.events)
         /\ \A n \in 1..Len(q.events) :
              /\ q.events[n] \in Event
              /\ q.events[n].target \in TargetHandle /\ q.events[n].sequence \in Nat
              /\ q.events[n].event \in EventKinds /\ q.events[n].dropped_before \in Nat
<1>1. q.events \in Seq(Event) /\ q.dropped \in Nat
  BY Zenon DEF Queue
<1>2. Len(q.events) \in Nat /\ DOMAIN q.events = 1..Len(q.events)
      /\ \A n \in 1..Len(q.events) : q.events[n] \in Event
  BY <1>1
<1>3. \A e \in Event : /\ e.target \in TargetHandle /\ e.sequence \in Nat
                       /\ e.event \in EventKinds /\ e.dropped_before \in Nat
  BY Zenon DEF Event
<1> QED BY <1>1, <1>2, <1>3, Zenon

(* A drained queue of a queued-delivery instrument. *)
LEMMA EmptyQueueOK ==
  ASSUME NEW h, NEW r, r.capacity \in Nat, NEW atts, NEW hist
  PROVE  EmptyQueue \in Queue /\ QueueOK(EmptyQueue, h, r, atts, hist)
<1>1. EmptyQueue.events = << >> /\ EmptyQueue.dropped = 0 /\ EmptyQueue \in Queue
  BY DEF EmptyQueue, Queue
<1> HIDE DEF EmptyQueue
<1> QED BY <1>1, HubConstants DEF QueueOK

(* The history of one target grows by event e. *)
LEMMA HistoryGrows ==
  ASSUME NEW hist \in Histories, NEW t \in TargetHandle, NEW e \in EventKinds,
         NEW hist2, hist2 = [hist EXCEPT ![t] = Append(@, e)]
  PROVE  /\ hist2 \in Histories
         /\ Len(hist2[t]) = Len(hist[t]) + 1 /\ Len(hist[t]) \in Nat
         /\ \A u \in TargetHandle : \A k \in DOMAIN hist[u] :
              k \in Nat /\ k \in DOMAIN hist2[u] /\ hist2[u][k] = hist[u][k]
         /\ \A k \in DOMAIN hist[t] : k <= Len(hist[t])
         /\ Len(hist[t]) + 1 \in DOMAIN hist2[t] /\ hist2[t][Len(hist[t]) + 1] = e
         /\ \A u \in TargetHandle : \A k \in DOMAIN hist2[u] :
              k \in DOMAIN hist[u] \/ (u = t /\ k = Len(hist[t]) + 1)
<1>1. \A u \in TargetHandle : hist[u] \in Seq(EventKinds) /\ (u # t => hist2[u] = hist[u])
  BY Zenon DEF Histories
<1>2. hist2[t] = Append(hist[t], e) /\ hist2 \in Histories
  BY DEF Histories
<1>3. /\ Len(hist2[t]) = Len(hist[t]) + 1 /\ Len(hist[t]) \in Nat
      /\ DOMAIN hist[t] = 1..Len(hist[t]) /\ DOMAIN hist2[t] = 1..(Len(hist[t]) + 1)
      /\ \A k \in 1..Len(hist[t]) : hist2[t][k] = hist[t][k]
      /\ hist2[t][Len(hist[t]) + 1] = e
  BY <1>1, <1>2
<1>4. ASSUME NEW u \in TargetHandle, NEW k \in DOMAIN hist[u]
      PROVE  k \in Nat /\ k \in DOMAIN hist2[u] /\ hist2[u][k] = hist[u][k]
  <2>1. CASE u = t
    BY <1>3, <2>1
  <2>2. CASE u # t
    BY <1>1, <2>2
  <2> QED BY <2>1, <2>2, Zenon
<1>5. ASSUME NEW u \in TargetHandle, NEW k \in DOMAIN hist2[u]
      PROVE  k \in DOMAIN hist[u] \/ (u = t /\ k = Len(hist[t]) + 1)
  <2>1. CASE u = t
    BY <1>3, <2>1
  <2>2. CASE u # t
    BY <1>1, <2>2, Zenon
  <2> QED BY <2>1, <2>2, Zenon
<1> QED BY <1>2, <1>3, <1>4, <1>5

(* emit leaves alone the queue of an instrument that is not attached to    *)
(* the target or does not subscribe to the event.                          *)
LEMMA UnheardOK ==
  ASSUME NEW q \in Queue, NEW h, NEW r, NEW atts, NEW hist \in Histories,
         QueueOK(q, h, r, atts, hist), NEW t \in TargetHandle, NEW e \in EventKinds,
         (\E a \in atts : a.instrument = h /\ a.target = t) => e \notin r.events,
         NEW hist2, hist2 = [hist EXCEPT ![t] = Append(@, e)]
  PROVE  QueueOK(q, h, r, atts, hist2)
<1> SUFFICES ASSUME NEW n \in DOMAIN q.events
             PROVE  EventOK(q, h, r, atts, hist2, q.events[n])
  BY Zenon DEF QueueOK
<1> DEFINE x == q.events[n]
<1>1. x.target \in TargetHandle /\ EventOK(q, h, r, atts, hist, x)
  BY QueueFields, Zenon DEF QueueOK
<1> HIDE DEF x
<1>2. /\ \A k \in DOMAIN hist[x.target] : k \in DOMAIN hist2[x.target]
                                          /\ hist2[x.target][k] = hist[x.target][k]
      /\ \A k \in DOMAIN hist2[x.target] :
           k \in DOMAIN hist[x.target] \/ hist2[x.target][k] \notin r.events
  <2>1. x.target = t => e \notin r.events
    BY <1>1, Zenon DEF EventOK
  <2> QED BY <1>1, <2>1, HistoryGrows
<1>3. EventOK(q, h, r, atts, hist2, x)
  BY <1>1, <1>2, Zenon DEF EventOK
<1> QED BY <1>3, Zenon DEF x

(* Queue p is queue q of capacity c with event x at its end, and at most   *)
(* the oldest event of q gone.                                             *)
Pushed(p, q, c, x) ==
  /\ p \in Queue /\ p.dropped >= q.dropped /\ Len(p.events) <= c
  /\ Len(p.events) \in Nat \ {0}
  /\ p.events[Len(p.events)].target = x.target
  /\ p.events[Len(p.events)].sequence = x.sequence
  /\ p.events[Len(p.events)].event = x.event
  /\ p.events[Len(p.events)].dropped_before = p.dropped
  /\ \E z \in {0, 1} :
       /\ Len(p.events) = Len(q.events) + 1 - z
       /\ \A n \in 1..(Len(p.events) - 1) :
            n + z \in 1..Len(q.events) /\ p.events[n] = q.events[n + z]

(* push: a full queue gives up its oldest event and takes the new one.     *)
LEMMA PushShape ==
  ASSUME NEW q \in Queue, NEW c \in Nat \ {0}, Len(q.events) <= c, NEW x \in Event,
         NEW p, p = push(q, c, x)
  PROVE  Pushed(p, q, c, x)
<1> DEFINE full == Len(q.events) = c
           d == IF full THEN q.dropped + 1 ELSE q.dropped
           kept == IF full THEN Tail(q.events) ELSE q.events
           y == [x EXCEPT !.dropped_before = d]
           z == IF full THEN 1 ELSE 0
<1>0. q.events \in Seq(Event) /\ q.dropped \in Nat /\ Len(q.events) \in Nat
  BY QueueFields, Zenon
<1>1. p = [events |-> Append(kept, y), dropped |-> d]
  BY Zenon DEF push
<1>2. d \in Nat /\ d >= q.dropped
  BY <1>0
<1>3. y \in Event /\ y.target = x.target /\ y.sequence = x.sequence
      /\ y.event = x.event /\ y.dropped_before = d
  <2> HIDE DEF d
  <2> QED BY <1>2, Zenon DEF Event
<1>4. /\ kept \in Seq(Event) /\ Len(kept) = Len(q.events) - z /\ Len(kept) \in Nat
      /\ Len(kept) + 1 <= c /\ z \in {0, 1}
      /\ \A n \in 1..Len(kept) : n + z \in 1..Len(q.events) /\ kept[n] = q.events[n + z]
  <2>1. CASE full
    <3>1. q.events # << >>
      BY <1>0, <2>1, Zenon
    <3>2. kept = Tail(q.events) /\ z = 1
      BY <2>1, Zenon
    <3>3. /\ Tail(q.events) \in Seq(Event) /\ Len(Tail(q.events)) = Len(q.events) - 1
          /\ \A n \in 1..(Len(q.events) - 1) : Tail(q.events)[n] = q.events[n + 1]
      BY <1>0, <3>1
    <3> HIDE DEF kept, z
    <3> QED BY <1>0, <2>1, <3>2, <3>3
  <2>2. CASE ~full
    <3>1. kept = q.events /\ z = 0
      BY <2>2, Zenon
    <3> HIDE DEF kept, z
    <3> QED BY <1>0, <2>2, <3>1
  <2> QED BY <2>1, <2>2, Zenon
<1> HIDE DEF d, kept, y, z
<1>5. p.events = Append(kept, y) /\ p.dropped = d
  BY <1>1
<1>6. /\ p.events \in Seq(Event) /\ Len(p.events) = Len(kept) + 1
      /\ p.events[Len(p.events)] = y
      /\ \A n \in 1..Len(kept) : p.events[n] = kept[n]
  BY <1>3, <1>4, <1>5
<1>7. p \in Queue
  BY <1>1, <1>2, <1>5, <1>6, Zenon DEF Queue
<1>8. /\ z \in {0, 1} /\ Len(p.events) = Len(q.events) + 1 - z
      /\ \A n \in 1..(Len(p.events) - 1) :
           n + z \in 1..Len(q.events) /\ p.events[n] = q.events[n + z]
  <2>1. Len(p.events) - 1 = Len(kept) /\ Len(p.events) = Len(q.events) + 1 - z
    BY <1>0, <1>4, <1>6
  <2> QED BY <1>4, <1>6, <2>1, Zenon
<1>9. Len(p.events) <= c /\ Len(p.events) \in Nat \ {0} /\ p.dropped >= q.dropped
  BY <1>2, <1>4, <1>5, <1>6
<1> QED BY <1>3, <1>5, <1>6, <1>7, <1>8, <1>9, Zenon DEF Pushed

(* Delivering event e of target t to an attached subscriber: the queue     *)
(* keeps its order and loses at most its oldest event.                     *)
LEMMA PushOK ==
  ASSUME NEW q \in Queue, NEW h, NEW r, r.capacity \in Nat \ {0}, NEW atts,
         NEW hist \in Histories, QueueOK(q, h, r, atts, hist),
         NEW t \in TargetHandle, NEW e \in EventKinds, e \in r.events,
         \E a \in atts : a.instrument = h /\ a.target = t,
         NEW x \in Event, x.target = t, x.sequence = Len(hist[t]) + 1, x.event = e,
         NEW hist2, hist2 = [hist EXCEPT ![t] = Append(@, e)],
         NEW p, p = push(q, r.capacity, x)
  PROVE  p \in Queue /\ QueueOK(p, h, r, atts, hist2)
<1> DEFINE L == Len(p.events)
           N == Len(q.events)
           y == p.events[L]
<1>0. Len(q.events) <= r.capacity
  BY Zenon DEF QueueOK
<1>1. /\ p \in Queue /\ p.dropped >= q.dropped /\ L <= r.capacity /\ L \in Nat \ {0}
      /\ y.target = t /\ y.sequence = Len(hist[t]) + 1
      /\ y.event = e /\ y.dropped_before = p.dropped
      /\ \E z \in {0, 1} :
           /\ L = N + 1 - z
           /\ \A n \in 1..(L - 1) : n + z \in 1..N /\ p.events[n] = q.events[n + z]
  <2>1. PICK c \in Nat \ {0} : c = r.capacity
    BY Zenon
  <2>2. Len(q.events) <= c /\ p = push(q, c, x)
    BY <1>0, <2>1, Zenon
  <2>3. Pushed(p, q, c, x)
    BY <2>2, PushShape, Zenon
  <2> QED BY <2>1, <2>3, Zenon DEF Pushed
<1>2. PICK z \in {0, 1} :
        /\ L = N + 1 - z
        /\ \A n \in 1..(L - 1) : n + z \in 1..N /\ p.events[n] = q.events[n + z]
  BY <1>1, Zenon
<1>q. /\ N \in Nat /\ DOMAIN q.events = 1..N /\ q.dropped \in Nat
      /\ \A n \in 1..N : /\ q.events[n].target \in TargetHandle /\ q.events[n].sequence \in Nat
                         /\ q.events[n].dropped_before \in Nat
  BY QueueFields, Zenon
<1>p. DOMAIN p.events = 1..L /\ p.dropped \in Nat
  BY <1>1, QueueFields, Zenon
<1>old. \A n \in 1..N : EventOK(q, h, r, atts, hist, q.events[n])
  BY <1>q, Zenon DEF QueueOK
<1>ord. \A m, n \in 1..N : m < n => Before(q.events[m], q.events[n])
  BY <1>q, Zenon DEF QueueOK
<1> HIDE DEF L, N, y
<1>h. /\ Len(hist[t]) \in Nat
      /\ \A u \in TargetHandle : \A k \in DOMAIN hist[u] :
           k \in Nat /\ k \in DOMAIN hist2[u] /\ hist2[u][k] = hist[u][k]
      /\ \A k \in DOMAIN hist[t] : k <= Len(hist[t])
      /\ Len(hist[t]) + 1 \in DOMAIN hist2[t] /\ hist2[t][Len(hist[t]) + 1] = e
      /\ \A u \in TargetHandle : \A k \in DOMAIN hist2[u] :
           k \in DOMAIN hist[u] \/ (u = t /\ k = Len(hist[t]) + 1)
  BY HistoryGrows
<1>3. EventOK(p, h, r, atts, hist2, y)
  <2>1. \A k \in DOMAIN hist2[t] : ~(k > Len(hist[t]) + 1)
    BY <1>h
  <2> QED BY <1>1, <1>h, <1>p, <2>1 DEF EventOK
<1>l. L \in 1..L /\ p.events[L] = y /\ \A n \in 1..L : n \in 1..(L - 1) \/ n = L
  BY <1>1 DEF y
<1>4. ASSUME NEW n \in 1..(L - 1) PROVE EventOK(p, h, r, atts, hist2, p.events[n])
  <2> DEFINE g == p.events[n]
  <2>1. n + z \in 1..N /\ g = q.events[n + z]
    BY <1>2, Zenon
  <2>2. /\ g.target \in TargetHandle /\ g.sequence \in Nat /\ g.dropped_before \in Nat
        /\ EventOK(q, h, r, atts, hist, g)
    BY <1>q, <1>old, <2>1, Zenon
  <2> HIDE DEF g
  <2>3. ASSUME NEW k \in DOMAIN hist2[g.target], k > g.sequence, hist2[g.target][k] \in r.events
        PROVE  \E m \in 1..L : p.events[m].target = g.target /\ p.events[m].sequence = k
    <3>1. CASE g.target = t /\ k = Len(hist[t]) + 1
      BY <1>1, <1>l, <3>1, Zenon
    <3>2. CASE k \in DOMAIN hist[g.target]
      <4>1. PICK m \in 1..N : q.events[m].target = g.target /\ q.events[m].sequence = k
        <5>1. hist[g.target][k] \in r.events
          BY <1>h, <2>2, <2>3, <3>2
        <5>2. \E m \in DOMAIN q.events : q.events[m].target = g.target /\ q.events[m].sequence = k
          BY <2>2, <2>3, <3>2, <5>1, Zenon DEF EventOK
        <5> QED BY <1>q, <5>2, Zenon
      <4>2. ~(m < n + z)
        BY <1>ord, <1>q, <2>1, <2>3, <4>1 DEF Before
      <4>3. m - z \in 1..(L - 1) /\ (m - z) + z = m
        BY <1>1, <1>2, <1>q, <4>2
      <4>4. p.events[m - z] = q.events[m]
        BY <1>2, <4>3, Zenon
      <4>5. m - z \in 1..L
        BY <1>1, <4>3
      <4> QED BY <4>1, <4>4, <4>5, Zenon
    <3> QED BY <1>h, <2>2, <3>1, <3>2, Zenon
  <2>4. g.dropped_before <= p.dropped
    BY <1>1, <1>p, <1>q, <2>2 DEF EventOK
  <2>5. EventOK(p, h, r, atts, hist2, g)
    <3>1. /\ \E a \in atts : a.instrument = h /\ a.target = g.target
          /\ g.sequence \in DOMAIN hist[g.target] /\ hist[g.target][g.sequence] = g.event
          /\ g.event \in r.events
      BY <2>2, Zenon DEF EventOK
    <3>2. g.sequence \in DOMAIN hist2[g.target] /\ hist2[g.target][g.sequence] = g.event
      BY <1>h, <2>2, <3>1, Zenon
    <3> QED BY <1>p, <2>3, <2>4, <3>1, <3>2, Zenon DEF EventOK
  <2> QED BY <2>5, Zenon DEF g
<1>5. ASSUME NEW m \in 1..L, NEW n \in 1..L, m < n PROVE Before(p.events[m], p.events[n])
  <2>1. m \in 1..(L - 1)
    BY <1>1, <1>5
  <2>2. m + z \in 1..N /\ p.events[m] = q.events[m + z]
    BY <1>2, <2>1, Zenon
  <2>3. CASE n \in 1..(L - 1)
    <3>1. n + z \in 1..N /\ p.events[n] = q.events[n + z] /\ m + z < n + z
      <4>1. n + z \in 1..N /\ p.events[n] = q.events[n + z]
        BY <1>2, <2>3, Zenon
      <4>2. m + z < n + z
        BY <1>5
      <4> QED BY <4>1, <4>2
    <3> QED BY <1>ord, <2>2, <3>1, Zenon
  <2>4. CASE n = L
    <3> DEFINE g == q.events[m + z]
    <3>1. EventOK(q, h, r, atts, hist, g) /\ g.sequence \in Nat /\ g.dropped_before \in Nat
      BY <1>old, <1>q, <2>2, Zenon
    <3> HIDE DEF g
    <3>2. g.dropped_before <= p.dropped
      BY <1>1, <1>p, <1>q, <3>1 DEF EventOK
    <3>3. g.target = t => g.sequence < Len(hist[t]) + 1
      BY <1>h, <3>1 DEF EventOK
    <3>4. Before(g, y)
      BY <1>1, <3>2, <3>3, Zenon DEF Before
    <3> QED BY <1>l, <2>2, <2>4, <3>4, Zenon DEF g
  <2> QED BY <1>l, <2>3, <2>4, Zenon
<1>6. r.capacity # None
  BY HubConstants, Zenon
<1> QED BY <1>1, <1>3, <1>4, <1>5, <1>6, <1>p, <1>l, Zenon DEF QueueOK, L

(* What purge does to the fields of a queue. *)
LEMMA PurgeFields ==
  ASSUME NEW q \in Queue, NEW dead, NEW p, p = purge(q, dead)
  PROVE  /\ p \in Queue /\ p.dropped = q.dropped
         /\ Retained(p.events, q.events, Len(q.events), dead)
         /\ (\A n \in 1..Len(q.events) : survives(q.events[n], dead)) => p = q
<1>1. q.events \in Seq(Event)
  BY QueueFields, Zenon
<1>2. p = [events |-> retain(q.events, dead), dropped |-> q.dropped]
  BY Zenon DEF purge, Queue
<1>3. p.events = retain(q.events, dead) /\ p.dropped = q.dropped
  BY <1>2
<1>4. p.events \in Seq(Event) /\ Retained(p.events, q.events, Len(q.events), dead)
  BY <1>1, <1>3, RetainKeeps, Zenon
<1>5. p \in Queue
  BY <1>2, <1>3, <1>4, QueueFields, Zenon DEF Queue
<1>6. ASSUME \A n \in 1..Len(q.events) : survives(q.events[n], dead) PROVE p = q
  <2>1. Len(p.events) = Len(q.events) /\ \A n \in 1..Len(q.events) : p.events[n] = q.events[n]
    BY <1>4, <1>6, Zenon DEF Retained
  <2>2. p.events = q.events
    BY <1>1, <1>4, <2>1
  <2> QED BY <1>3, <1>5, <2>2 DEF Queue
<1> QED BY <1>3, <1>4, <1>5, <1>6, Zenon

(* What is left of a queue when targets go: the events of the others, with *)
(* everything that made them sound.                                        *)
LEMMA PurgeOK ==
  ASSUME NEW q \in Queue, NEW h, NEW r, r.capacity \in Nat, NEW atts, NEW hist \in Histories,
         QueueOK(q, h, r, atts, hist), NEW dead,
         \A n \in 1..Len(q.events) :
           survives(q.events[n], dead) <=> q.events[n].target \notin dead,
         NEW atts2, \A a \in atts : a.instrument = h /\ a.target \notin dead => a \in atts2,
         NEW hist2, \A t \in TargetHandle : t \notin dead => hist2[t] = hist[t],
         NEW p, p = purge(q, dead)
  PROVE  QueueOK(p, h, r, atts2, hist2)
<1> DEFINE N == Len(q.events)
           L == Len(p.events)
<1>1. p \in Queue /\ p.dropped = q.dropped /\ Retained(p.events, q.events, N, dead)
  BY PurgeFields, Zenon
<1>q. /\ N \in Nat /\ DOMAIN q.events = 1..N /\ q.dropped \in Nat
      /\ \A n \in 1..N : q.events[n].target \in TargetHandle
  BY QueueFields, Zenon
<1>p. DOMAIN p.events = 1..L /\ L \in Nat
  BY <1>1, QueueFields, Zenon
<1>2. /\ \A n \in 1..N : EventOK(q, h, r, atts, hist, q.events[n])
      /\ \A m, n \in 1..N : m < n => Before(q.events[m], q.events[n])
      /\ N <= r.capacity /\ r.capacity # None
  BY <1>q, Zenon DEF QueueOK
<1>3. /\ L <= N
      /\ \A j \in 1..N : q.events[j].target \notin dead => \E m \in 1..L : p.events[m] = q.events[j]
      /\ \A m \in 1..L : \E j \in 1..N : q.events[j].target \notin dead /\ p.events[m] = q.events[j]
      /\ \A m, k \in 1..L : m < k =>
           \E i, j \in 1..N : i < j /\ p.events[m] = q.events[i] /\ p.events[k] = q.events[j]
  <2> HIDE DEF survives
  <2> QED BY <1>1, Zenon DEF Retained
<1> HIDE DEF N, L
<1>4. ASSUME NEW m \in 1..L PROVE EventOK(p, h, r, atts2, hist2, p.events[m])
  <2>1. PICK j \in 1..N : q.events[j].target \notin dead /\ p.events[m] = q.events[j]
    BY <1>3, Zenon
  <2> DEFINE g == q.events[j]
  <2>2. EventOK(q, h, r, atts, hist, g) /\ g.target \in TargetHandle /\ g.target \notin dead
    BY <1>2, <1>q, <2>1, Zenon
  <2> HIDE DEF g
  <2>3. hist2[g.target] = hist[g.target]
    BY <2>2, Zenon
  <2>4. \E a \in atts2 : a.instrument = h /\ a.target = g.target
    BY <2>2, Zenon DEF EventOK
  <2>5. ASSUME NEW k \in DOMAIN hist[g.target], k > g.sequence, hist[g.target][k] \in r.events
        PROVE  \E n \in 1..L : p.events[n].target = g.target /\ p.events[n].sequence = k
    <3>1. PICK n \in 1..N : q.events[n].target = g.target /\ q.events[n].sequence = k
      BY <1>q, <2>2, <2>5, Zenon DEF EventOK
    <3>2. PICK l \in 1..L : p.events[l] = q.events[n]
      BY <1>3, <2>2, <3>1, Zenon
    <3> QED BY <3>1, <3>2, Zenon
  <2>6. EventOK(p, h, r, atts2, hist2, g)
    BY <1>1, <1>p, <2>2, <2>3, <2>4, <2>5, Zenon DEF EventOK
  <2> QED BY <2>1, <2>6, Zenon DEF g
<1>5. ASSUME NEW m \in 1..L, NEW k \in 1..L, m < k PROVE Before(p.events[m], p.events[k])
  <2>1. PICK i \in 1..N, j \in 1..N : i < j /\ p.events[m] = q.events[i] /\ p.events[k] = q.events[j]
    BY <1>3, <1>5, Zenon
  <2>2. Before(q.events[i], q.events[j])
    BY <1>2, <2>1, Zenon
  <2> QED BY <2>1, <2>2, Zenon
<1>6. Len(p.events) <= r.capacity
  BY <1>2, <1>3, <1>p, <1>q DEF L
<1> QED BY <1>2, <1>4, <1>5, <1>6, <1>p, Zenon DEF QueueOK

(* A registration is known by its handle. *)
LEMMA OneRegistration ==
  ASSUME HubInv, NEW i \in registrations, NEW j \in registrations, i.handle = j.handle
  PROVE  i = j
BY DEF HubInv, RegistryConsistent

(* A registration resolves through its handle. *)
LEMMA Resolves ==
  ASSUME HubInv, NEW i \in registrations
  PROVE  i \in resolve_instrument(i.handle)
BY Zenon DEF HubInv, RegistryConsistent, resolve_instrument

(* What a live registration is. *)
LEMMA RegistrationFields ==
  ASSUME HubInv, DeliveryInv, NEW i \in registrations
  PROVE  /\ i.handle \in InstrumentHandle /\ i.registration.events \subseteq EventKinds
         /\ i.registration.capacity \in Nat \cup {None} /\ i.registration.capacity # 0
<1>1. i \in InstrumentRecord /\ i.registration.capacity # 0
  BY Zenon DEF HubInv, RegistryTypeOK, DeliveryInv
<1>2. i.handle \in InstrumentHandle /\ i.registration \in Registration
  BY <1>1, Zenon DEF InstrumentRecord
<1>3. i.registration.events \subseteq EventKinds /\ i.registration.capacity \in Nat \cup {None}
  BY <1>2, Zenon DEF Registration
<1> QED BY <1>1, <1>2, <1>3, Zenon

(* What DeliveryInv says of the state it speaks of. *)
LEMMA DeliveryParts ==
  ASSUME DeliveryInv
  PROVE  /\ queues \in [InstrumentHandle -> Queue] /\ history \in Histories
         /\ sequences \in [TargetHandle -> 0..MaxSequence]
         /\ \A t \in TargetHandle : Len(history[t]) = sequences[t]
         /\ \A h \in InstrumentHandle : queues[h] \in Queue
BY Zenon DEF DeliveryInv, TypeOK, Histories

(* An empty hub. *)
LEMMA InitDelivery == Init => DeliveryInv
<1> SUFFICES ASSUME Init PROVE DeliveryInv
  OBVIOUS
<1>1. RegistryTypeOK
  BY InitHubInv, Zenon DEF HubInv
<1>2. queues \in [InstrumentHandle -> Queue]
  <2>1. EmptyQueue \in Queue
    BY DEF EmptyQueue, Queue
  <2> QED BY <2>1, Zenon DEF Init
<1>3. /\ sequences \in [TargetHandle -> 0..MaxSequence]
      /\ history \in [TargetHandle -> Seq(EventKinds)]
      /\ \A t \in TargetHandle : Len(history[t]) = sequences[t]
      /\ registrations = {}
  BY HubConstants DEF Init
<1>4. QueuesOK
  BY Zenon DEF Init, QueuesOK
<1> QED BY <1>1, <1>2, <1>3, <1>4, Zenon DEF DeliveryInv, TypeOK

(* Steps that leave the queues and histories alone and detach nothing.     *)
LEMMA QuietDelivery ==
  ASSUME HubInv', DeliveryInv, UNCHANGED delivery, registrations \subseteq registrations',
         attachments \subseteq attachments',
         \A i \in registrations' : i \in registrations \/ i.registration.capacity # 0
  PROVE  DeliveryInv'
<1>1. queues' = queues /\ history' = history /\ sequences' = sequences
  BY Zenon DEF delivery
<1>2. TypeOK'
  <2>1. RegistryTypeOK'
    BY Zenon DEF HubInv
  <2> QED BY <1>1, <2>1, Zenon DEF DeliveryInv, TypeOK
<1>3. QueuesOK'
  <2> SUFFICES ASSUME NEW h \in InstrumentHandle, queues[h] # EmptyQueue
               PROVE  \E i \in registrations' :
                        i.handle = h /\ QueueOK(queues[h], h, i.registration, attachments', history)
    BY <1>1, Zenon DEF QueuesOK
  <2>1. PICK i \in registrations :
          i.handle = h /\ QueueOK(queues[h], h, i.registration, attachments, history)
    BY Zenon DEF DeliveryInv, QueuesOK
  <2>2. ASSUME NEW e, EventOK(queues[h], h, i.registration, attachments, history, e)
        PROVE  EventOK(queues[h], h, i.registration, attachments', history, e)
    BY <2>2, Zenon DEF EventOK
  <2>3. QueueOK(queues[h], h, i.registration, attachments', history)
    BY <2>1, <2>2, Zenon DEF QueueOK
  <2> QED BY <2>1, <2>3, Zenon
<1>4. /\ \A i \in registrations' : i.registration.capacity # 0
      /\ \A t \in TargetHandle : Len(history'[t]) = sequences'[t]
  BY <1>1, Zenon DEF DeliveryInv
<1> QED BY <1>2, <1>3, <1>4, Zenon DEF DeliveryInv

(* emit to the subscribers of a target. *)
LEMMA EmitDelivery ==
  ASSUME NEW t \in TargetHandle, NEW e \in EventKinds, HubInv, HubInv', DeliveryInv, emit(t, e)
  PROVE  DeliveryInv'
<1> DEFINE subs == subscriptions(t, e)
           x == [target |-> t, sequence |-> sequences[t] + 1, event |-> e, dropped_before |-> 0]
           Hears(h) == \E i \in subs : i.handle = h /\ i.registration.capacity # None
<1>0. /\ queues \in [InstrumentHandle -> Queue] /\ history \in Histories
      /\ sequences \in [TargetHandle -> 0..MaxSequence]
      /\ \A u \in TargetHandle : Len(history[u]) = sequences[u]
      /\ \A h \in InstrumentHandle : queues[h] \in Queue
  BY DeliveryParts, Zenon
<1>1. /\ sequences[t] + 1 <= MaxSequence
      /\ sequences' = [sequences EXCEPT ![t] = sequences[t] + 1]
      /\ history' = [history EXCEPT ![t] = Append(@, e)]
      /\ queues' = [h \in InstrumentHandle |->
                      IF Hears(h)
                      THEN push(queues[h], (CHOOSE y \in subs : y.handle = h).registration.capacity, x)
                      ELSE queues[h]]
      /\ UNCHANGED <<registrations, attachments>>
  BY Zenon DEF emit, registry, links
<1>2. /\ x \in Event /\ x.target = t /\ x.sequence = Len(history[t]) + 1 /\ x.event = e
      /\ sequences' \in [TargetHandle -> 0..MaxSequence] /\ history' \in Histories
      /\ \A u \in TargetHandle : Len(history'[u]) = sequences'[u]
  <2>1. sequences[t] \in Nat /\ sequences[t] = Len(history[t]) /\ sequences[t] + 1 \in 0..MaxSequence
    BY <1>0, <1>1, HubConstants
  <2>2. x \in Event /\ x.target = t /\ x.sequence = Len(history[t]) + 1 /\ x.event = e
    BY <2>1 DEF Event
  <2>3. sequences' \in [TargetHandle -> 0..MaxSequence] /\ history' \in Histories
    <3>1. history' \in Histories
      <4>1. history \in Histories /\ history' = [history EXCEPT ![t] = Append(@, e)]
        BY <1>0, <1>1, Zenon
      <4> QED BY <4>1 DEF Histories
    <3> QED BY <1>0, <1>1, <2>1, <3>1, Zenon
  <2>4. ASSUME NEW u \in TargetHandle PROVE Len(history'[u]) = sequences'[u]
    <3>1. CASE u = t
      BY <1>0, <1>1, <2>1, <3>1, HistoryGrows
    <3>2. CASE u # t
      BY <1>0, <1>1, <3>2, Zenon DEF Histories
    <3> QED BY <3>1, <3>2, Zenon
  <2> QED BY <2>2, <2>3, <2>4, Zenon
<1> HIDE DEF x
<1>3. ASSUME NEW i \in subs
      PROVE  /\ i \in registrations /\ e \in i.registration.events
             /\ \E a \in attachments : a.instrument = i.handle /\ a.target = t
  BY Zenon DEF subscriptions, resolve_instrument
<1>4. ASSUME NEW i \in registrations, e \in i.registration.events,
             \E a \in attachments : a.instrument = i.handle /\ a.target = t
      PROVE  i \in subs
  BY <1>4, Resolves, Zenon DEF subscriptions
<1> HIDE DEF subs
<1>5. ASSUME NEW h \in InstrumentHandle
      PROVE  /\ queues'[h] \in Queue
             /\ queues'[h] # EmptyQueue => \E i \in registrations :
                  i.handle = h /\ QueueOK(queues'[h], h, i.registration, attachments, history')
  <2>0. queues[h] # EmptyQueue => \E i \in registrations :
          i.handle = h /\ QueueOK(queues[h], h, i.registration, attachments, history)
    BY Zenon DEF DeliveryInv, QueuesOK
  <2>1. CASE Hears(h)
    <3>1. PICK i \in subs : i.handle = h /\ i.registration.capacity # None
      BY <2>1, Zenon
    <3>2. i \in registrations /\ i.registration.capacity \in Nat \ {0} /\ e \in i.registration.events
          /\ \E a \in attachments : a.instrument = h /\ a.target = t
      BY <1>3, <3>1, RegistrationFields, Zenon
    <3>3. (CHOOSE y \in subs : y.handle = h) = i
      <4>1. \A y \in subs : y.handle = h => y = i
        BY <1>3, <3>1, <3>2, OneRegistration, Zenon
      <4> QED BY <3>1, <4>1, Zenon
    <3>4. queues'[h] = push(queues[h], i.registration.capacity, x)
      BY <1>1, <2>1, <3>3, Zenon
    <3>5. QueueOK(queues[h], h, i.registration, attachments, history)
      <4>1. CASE queues[h] = EmptyQueue
        BY <3>2, <4>1, EmptyQueueOK, Zenon
      <4>2. CASE queues[h] # EmptyQueue
        BY <2>0, <3>1, <3>2, <4>2, OneRegistration, Zenon
      <4> QED BY <4>1, <4>2, Zenon
    <3>6. queues'[h] \in Queue /\ QueueOK(queues'[h], h, i.registration, attachments, history')
      <4>1. PICK q, r, hist2 : q \in Queue /\ q = queues[h] /\ r = i.registration /\ hist2 = history'
        BY <1>0, Zenon
      <4>2. hist2 = [history EXCEPT ![t] = Append(@, e)] /\ QueueOK(q, h, r, attachments, history)
            /\ r.capacity \in Nat \ {0} /\ e \in r.events
        BY <1>1, <3>2, <3>5, <4>1, Zenon
      <4>3. queues'[h] = push(q, r.capacity, x)
        BY <3>4, <4>1, Zenon
      <4>4. queues'[h] \in Queue /\ QueueOK(queues'[h], h, r, attachments, hist2)
        <5>1. history \in Histories /\ \E a \in attachments : a.instrument = h /\ a.target = t
          BY <1>0, <3>2, Zenon
        <5>2. x \in Event /\ x.target = t /\ x.sequence = Len(history[t]) + 1 /\ x.event = e
          BY <1>2, Zenon
        <5>3. q \in Queue
          BY <4>1, Zenon
        <5> QED BY <4>2, <4>3, <5>1, <5>2, <5>3, PushOK, Zenon
      <4> QED BY <4>1, <4>4, Zenon
    <3> QED BY <3>1, <3>2, <3>6, Zenon
  <2>2. CASE ~Hears(h)
    <3>1. queues'[h] = queues[h]
      BY <1>1, <2>2, Zenon
    <3>2. ASSUME queues[h] # EmptyQueue
          PROVE  \E i \in registrations :
                  i.handle = h /\ QueueOK(queues[h], h, i.registration, attachments, history')
      <4>1. PICK i \in registrations :
              i.handle = h /\ QueueOK(queues[h], h, i.registration, attachments, history)
        BY <2>0, <3>2, Zenon
      <4>2. (\E a \in attachments : a.instrument = h /\ a.target = t) => e \notin i.registration.events
        BY <1>4, <2>2, <4>1, Zenon DEF QueueOK
      <4>3. QueueOK(queues[h], h, i.registration, attachments, history')
        BY <1>0, <1>1, <4>1, <4>2, UnheardOK, Zenon
      <4> QED BY <4>1, <4>3, Zenon
    <3> QED BY <1>0, <3>1, <3>2, Zenon
  <2> QED BY <2>1, <2>2, Zenon
<1>6. QueuesOK' /\ queues' \in [InstrumentHandle -> Queue]
  <2>1. QueuesOK'
    BY <1>1, <1>5, Zenon DEF QueuesOK
  <2> HIDE DEF Hears
  <2> QED BY <1>1, <1>5, <2>1, Zenon
<1>7. RegistryTypeOK' /\ \A i \in registrations' : i.registration.capacity # 0
  BY <1>1, Zenon DEF HubInv, DeliveryInv
<1> QED BY <1>2, <1>6, <1>7, Zenon DEF DeliveryInv, TypeOK, Histories

(* The queue of a live instrument holds events of live targets only, so    *)
(* retain, which compares ids, drops exactly those of the removed ones.    *)
LEMMA SurvivorsAreLive ==
  ASSUME HubInv, DeliveryInv, NEW dt \in SUBSET live_targets, NEW h \in InstrumentHandle,
         NEW n \in 1..Len(queues[h].events)
  PROVE  /\ survives(queues[h].events[n], dt) <=> queues[h].events[n].target \notin dt
         /\ \E a \in attachments : a.instrument = h /\ a.target = queues[h].events[n].target
<1> DEFINE e == queues[h].events[n]
<1>1. queues[h] \in Queue
  BY DeliveryParts, Zenon
<1>2. n \in DOMAIN queues[h].events
  BY <1>1, QueueFields, Zenon
<1>3. queues[h] # EmptyQueue
  BY <1>2 DEF EmptyQueue
<1>4. PICK i \in registrations :
        i.handle = h /\ QueueOK(queues[h], h, i.registration, attachments, history)
  BY <1>3, Zenon DEF DeliveryInv, QueuesOK
<1>5. PICK a \in attachments : a.instrument = h /\ a.target = e.target
  BY <1>2, <1>4, Zenon DEF QueueOK, EventOK
<1> HIDE DEF e
<1>6. PICK x \in targets : x.handle = e.target
  BY <1>5, Zenon DEF HubInv, AttachmentsSound
<1>7. ASSUME NEW t \in dt, t[1] = e.target[1] PROVE e.target = t
  <2>1. PICK y \in targets : y.handle = t
    BY Zenon DEF live_targets
  <2> QED BY <1>6, <1>7, <2>1 DEF HubInv, RegistryConsistent
<1>8. survives(e, dt) <=> e.target \notin dt
  BY <1>7, Zenon DEF survives
<1> QED BY <1>5, <1>8, Zenon DEF e

(* detach, remove_target, detach_session. *)
LEMMA RemoveDelivery ==
  ASSUME NEW di \in SUBSET InstrumentHandle, NEW dt \in SUBSET TargetHandle,
         dt \subseteq live_targets, HubInv, HubInv', DeliveryInv, remove_handles(di, dt)
  PROVE  DeliveryInv'
<1>0. /\ queues \in [InstrumentHandle -> Queue] /\ history \in Histories
      /\ sequences \in [TargetHandle -> 0..MaxSequence]
      /\ \A u \in TargetHandle : Len(history[u]) = sequences[u]
      /\ \A h \in InstrumentHandle : queues[h] \in Queue
  BY DeliveryParts, Zenon
<1>1. /\ registrations' = {i \in registrations : i.handle \notin di}
      /\ attachments' = {a \in attachments : a.instrument \notin di /\ a.target \notin dt}
      /\ queues' = [h \in InstrumentHandle |->
                      IF h \in di THEN EmptyQueue ELSE purge(queues[h], dt)]
      /\ sequences' = [t \in TargetHandle |-> IF t \in dt THEN 0 ELSE sequences[t]]
      /\ history' = [t \in TargetHandle |-> IF t \in dt THEN << >> ELSE history[t]]
  BY Zenon DEF remove_handles, remaining_attachments, remaining_queues
<1>2. /\ sequences' \in [TargetHandle -> 0..MaxSequence] /\ history' \in Histories
      /\ \A u \in TargetHandle : Len(history'[u]) = sequences'[u]
      /\ \A u \in TargetHandle : u \notin dt => history'[u] = history[u]
  BY <1>0, <1>1, HubConstants DEF Histories
<1>3. ASSUME NEW h \in InstrumentHandle
      PROVE  /\ queues'[h] \in Queue
             /\ queues'[h] # EmptyQueue => \E i \in registrations' :
                  i.handle = h /\ QueueOK(queues'[h], h, i.registration, attachments', history')
  <2>0. EmptyQueue \in Queue /\ Len(EmptyQueue.events) = 0
    BY DEF EmptyQueue, Queue
  <2>1. CASE h \in di
    BY <1>1, <2>0, <2>1, Zenon
  <2>2. CASE h \notin di
    <3>1. queues'[h] = purge(queues[h], dt)
      BY <1>1, <2>2, Zenon
    <3>2. queues'[h] \in Queue
      BY <1>0, <3>1, PurgeFields, Zenon
    <3>3. CASE queues[h] = EmptyQueue
      <4>1. \A n \in 1..Len(EmptyQueue.events) : survives(EmptyQueue.events[n], dt)
        BY <2>0
      <4>2. queues'[h] = EmptyQueue
        BY <2>0, <3>1, <3>3, <4>1, PurgeFields, Zenon
      <4> QED BY <2>0, <4>2, Zenon
    <3>4. CASE queues[h] # EmptyQueue
      <4>1. PICK i \in registrations :
              i.handle = h /\ QueueOK(queues[h], h, i.registration, attachments, history)
        BY <3>4, Zenon DEF DeliveryInv, QueuesOK
      <4>2. i \in registrations' /\ i.registration.capacity \in Nat
        BY <1>1, <2>2, <4>1, RegistrationFields, Zenon DEF QueueOK
      <4>3. \A n \in 1..Len(queues[h].events) :
              survives(queues[h].events[n], dt) <=> queues[h].events[n].target \notin dt
        BY SurvivorsAreLive, Zenon
      <4>4. \A a \in attachments : a.instrument = h /\ a.target \notin dt => a \in attachments'
        BY <1>1, <2>2, Zenon
      <4>5. QueueOK(queues'[h], h, i.registration, attachments', history')
        <5>1. PICK q, r, atts2, hist2 :
                q \in Queue /\ q = queues[h] /\ r = i.registration /\ atts2 = attachments' /\ hist2 = history'
          BY <1>0, Zenon
        <5>2. /\ r.capacity \in Nat /\ QueueOK(q, h, r, attachments, history)
              /\ \A n \in 1..Len(q.events) :
                   survives(q.events[n], dt) <=> q.events[n].target \notin dt
              /\ queues'[h] = purge(q, dt)
          BY <3>1, <4>1, <4>2, <4>3, <5>1, Zenon
        <5>3. /\ \A a \in attachments : a.instrument = h /\ a.target \notin dt => a \in atts2
              /\ \A t \in TargetHandle : t \notin dt => hist2[t] = history[t]
              /\ history \in Histories
          BY <1>0, <1>2, <4>4, <5>1, Zenon
        <5>4. QueueOK(queues'[h], h, r, atts2, hist2)
          <6>1. q \in Queue
            BY <5>1, Zenon
          <6> QED BY <5>2, <5>3, <6>1, PurgeOK, Zenon
        <5> QED BY <5>1, <5>4, Zenon
      <4> QED BY <3>2, <4>1, <4>2, <4>5, Zenon
    <3> QED BY <3>3, <3>4, Zenon
  <2> QED BY <2>1, <2>2, Zenon
<1>4. QueuesOK' /\ queues' \in [InstrumentHandle -> Queue]
  <2>1. QueuesOK'
    BY <1>3, Zenon DEF QueuesOK
  <2> QED BY <1>1, <1>3, <2>1, Zenon
<1>5. RegistryTypeOK' /\ \A i \in registrations' : i.registration.capacity # 0
  BY <1>1, Zenon DEF HubInv, DeliveryInv
<1> QED BY <1>2, <1>4, <1>5, Zenon DEF DeliveryInv, TypeOK, Histories

(* drain_events takes all there is. *)
LEMMA DrainDelivery ==
  ASSUME NEW h \in InstrumentHandle, HubInv', DeliveryInv, drain_events(h)
  PROVE  DeliveryInv'
<1>1. /\ queues' = [queues EXCEPT ![h] = EmptyQueue]
      /\ UNCHANGED <<registrations, attachments, sequences, history>>
  BY Zenon DEF drain_events, registry, links
<1>2. EmptyQueue \in Queue
  BY DEF EmptyQueue, Queue
<1>3. queues' \in [InstrumentHandle -> Queue]
  BY <1>1, <1>2, DeliveryParts, Zenon
<1>4. QueuesOK'
  <2>1. \A g \in InstrumentHandle : queues'[g] = EmptyQueue \/ queues'[g] = queues[g]
    BY <1>1, DeliveryParts, Zenon
  <2> QED BY <1>1, <2>1, Zenon DEF DeliveryInv, QueuesOK
<1> QED BY <1>1, <1>3, <1>4, Zenon DEF DeliveryInv, TypeOK, HubInv

(* clear empties every queue and forgets the registrations. *)
LEMMA ClearDelivery == ASSUME HubInv', clear PROVE DeliveryInv'
<1>1. EmptyQueue \in Queue
  BY DEF EmptyQueue, Queue
<1>2. queues' \in [InstrumentHandle -> Queue] /\ QueuesOK'
  BY <1>1, Zenon DEF clear, QueuesOK
<1>3. /\ sequences' \in [TargetHandle -> 0..MaxSequence]
      /\ history' \in [TargetHandle -> Seq(EventKinds)]
      /\ \A t \in TargetHandle : Len(history'[t]) = sequences'[t]
      /\ registrations' = {}
  BY HubConstants DEF clear
<1> QED BY <1>2, <1>3, Zenon DEF DeliveryInv, TypeOK, HubInv

(* Every operation of the hub keeps its queues sound. *)
LEMMA NextDelivery == HubInv /\ HubInv' /\ DeliveryInv /\ [Next]_vars => DeliveryInv'
<1> SUFFICES ASSUME HubInv, HubInv', DeliveryInv, [Next]_vars PROVE DeliveryInv'
  BY Zenon
<1>1. ASSUME NEW h \in InstrumentHandle, detach(h) PROVE DeliveryInv'
  BY <1>1, RemoveDelivery DEF detach
<1>2. ASSUME NEW t \in TargetHandle, remove_target(t) PROVE DeliveryInv'
  <2>1. {t} \subseteq live_targets
    BY <1>2, Zenon DEF remove_target, resolve_target, live_targets
  <2> QED BY <1>2, <2>1, RemoveDelivery, Zenon DEF remove_target
<1>3. ASSUME NEW s \in Sessions, detach_session(s) PROVE DeliveryInv'
  <2> DEFINE di == {i.handle : i \in {x \in registrations : x.registration.session = s}}
             dt == {x.handle : x \in {y \in targets : y.descriptor.session = s}}
  <2>1. /\ di \in SUBSET InstrumentHandle /\ dt \in SUBSET TargetHandle
        /\ dt \subseteq live_targets
    BY DEF HubInv, RegistryTypeOK, InstrumentRecord, TargetRecord, live_targets
  <2>2. remove_handles(di, dt)
    BY <1>3, Zenon DEF detach_session
  <2> QED BY <2>1, <2>2, RemoveDelivery, Zenon
<1>4. ASSUME NEW i \in Instruments, NEW r \in RegistrationInputs, register(i, r)
      PROVE  DeliveryInv'
  <2> DEFINE rec == [handle |-> <<i, instrument_generations[i]>>,
                     registration |-> r, order |-> next_registration_order]
  <2>1. /\ registrations' = registrations \cup {rec} /\ UNCHANGED delivery
        /\ attachments' = attachments /\ r.capacity # 0
    BY <1>4, Zenon DEF register, links, validate
  <2>2. rec.registration.capacity # 0
    BY <2>1, Zenon
  <2> HIDE DEF rec
  <2> QED BY <2>1, <2>2, QuietDelivery, Zenon
<1>5. ASSUME NEW h \in InstrumentHandle, NEW t \in TargetHandle, attach(h, t)
      PROVE  DeliveryInv'
  <2>1. UNCHANGED <<registry, delivery>> /\ attachments \subseteq attachments'
    BY <1>5, Zenon DEF attach
  <2> QED BY <2>1, QuietDelivery, Zenon DEF registry
<1>6. CASE \/ \E t \in Targets, d \in DescriptorInputs : register_target(t, d)
           \/ \E h \in InstrumentHandle, t \in TargetHandle :
                acquire_control(h, t) \/ release_control(h, t) \/ request_continue(h, t)
           \/ \E h \in InstrumentHandle, t \in TargetHandle, d \in Directives :
                request_directive(h, t, d)
           \/ \E t \in TargetHandle : take_directive(t)
           \/ UNCHANGED vars
  <2>1. UNCHANGED delivery /\ registrations' = registrations /\ attachments' = attachments
    BY <1>6, Zenon DEF register_target, acquire_control, release_control, request_continue,
       request_directive, take_directive, vars, registry, links
  <2> QED BY <2>1, QuietDelivery, Zenon
<1>7. ASSUME NEW t \in TargetHandle, NEW e \in EventKinds, emit(t, e) PROVE DeliveryInv'
  BY <1>7, EmitDelivery, Zenon
<1>8. ASSUME NEW h \in InstrumentHandle, drain_events(h) PROVE DeliveryInv'
  BY <1>8, DrainDelivery, Zenon
<1> QED BY <1>1, <1>2, <1>3, <1>4, <1>5, <1>6, <1>7, <1>8, ClearDelivery, Zenon DEF Next

(* The delivery state keeps its invariant. *)
THEOREM DeliveryInvariant == Spec => [](HubInv /\ DeliveryInv)
<1>1. Init => HubInv /\ DeliveryInv
  BY InitHubInv, InitDelivery, Zenon
<1>2. (HubInv /\ DeliveryInv) /\ [Next]_vars => (HubInv /\ DeliveryInv)'
  BY NextHubInv, NextDelivery, Zenon
<1> QED BY <1>1, <1>2, PTL DEF Spec

(* The hub's fields keep their types, those of DeliveryState included. *)
THEOREM HubTypes == Spec => []TypeOK
<1>1. HubInv /\ DeliveryInv => TypeOK
  BY Zenon DEF DeliveryInv
<1> QED BY <1>1, DeliveryInvariant, PTL

(* A queue never exceeds its capacity, loses only its oldest events and    *)
(* never holds one of a target that is gone (push, retain).                *)
THEOREM QueuesAreSound == Spec => []QueuesSound
<1>1. HubInv /\ DeliveryInv => QueuesSound
  BY QueuesOKIsSound, Zenon DEF DeliveryInv
<1> QED BY <1>1, DeliveryInvariant, PTL

(* What detach_session leaves of an instrument of another session. *)
LEMMA OthersSurvive ==
  ASSUME HubInv, DeliveryInv, NEW s \in Sessions, detach_session(s),
         NEW i \in registrations, i.registration.session # s
  PROVE  /\ i \in registrations'
         /\ {a \in attachments : a.instrument = i.handle} \subseteq attachments'
         /\ queues'[i.handle] = queues[i.handle]
         /\ \A t \in TargetHandle : control_leases[t] = i.handle =>
              control_leases'[t] = i.handle /\ directives'[t] = directives[t]
<1> DEFINE di == {j.handle : j \in {x \in registrations : x.registration.session = s}}
           dt == {x.handle : x \in {y \in targets : y.descriptor.session = s}}
           h == i.handle
<1>1. remove_handles(di, dt)
  BY Zenon DEF detach_session
<1>2. /\ registrations' = {j \in registrations : j.handle \notin di}
      /\ attachments' = {a \in attachments : a.instrument \notin di /\ a.target \notin dt}
      /\ queues' = [g \in InstrumentHandle |->
                      IF g \in di THEN EmptyQueue ELSE purge(queues[g], dt)]
      /\ control_leases' = remaining_leases(di, dt)
      /\ directives' = remaining_directives(di, dt)
  BY <1>1, Zenon DEF remove_handles, remaining_attachments, remaining_queues
<1>3. h \notin di /\ h \in InstrumentHandle
  BY OneRegistration, RegistrationFields, Zenon
<1>4. ASSUME NEW a \in attachments, a.instrument = h PROVE a.target \notin dt
  <2>1. PICK j \in registrations, x \in targets :
          /\ j.handle = a.instrument /\ x.handle = a.target
          /\ j.registration.session = x.descriptor.session
    BY Zenon DEF HubInv, AttachmentsSound
  <2>2. j = i
    BY <1>4, <2>1, OneRegistration, Zenon
  <2>3. ASSUME NEW y \in targets, y.handle = x.handle PROVE y = x
    BY <2>3, Zenon DEF HubInv, RegistryConsistent
  <2> QED BY <2>1, <2>2, <2>3, Zenon
<1>5. dt \in SUBSET live_targets
  BY Zenon DEF live_targets
<1> HIDE DEF di, dt
<1>6. queues'[h] = queues[h]
  <2>1. \A n \in 1..Len(queues[h].events) : survives(queues[h].events[n], dt)
    BY <1>3, <1>4, <1>5, SurvivorsAreLive, Zenon
  <2>2. queues[h] \in Queue
    BY <1>3, DeliveryParts, Zenon
  <2>3. queues'[h] = purge(queues[h], dt)
    BY <1>2, <1>3, Zenon
  <2> QED BY <2>1, <2>2, <2>3, PurgeFields, Zenon
<1>7. ASSUME NEW t \in TargetHandle, control_leases[t] = h
      PROVE  control_leases'[t] = h /\ directives'[t] = directives[t]
  <2>1. h # None
    BY <1>3, HubConstants, Zenon
  <2>2. PICK a \in attachments : a.instrument = h /\ a.target = t
    BY <1>7, <2>1, Zenon DEF HubInv, ControlSound
  <2>3. t \notin dt /\ control_leases[t] \notin di
    BY <1>3, <1>4, <1>7, <2>2, Zenon
  <2> QED BY <1>2, <1>7, <2>3, Zenon DEF remaining_leases, remaining_directives
<1>8. i \in registrations' /\ {a \in attachments : a.instrument = h} \subseteq attachments'
  BY <1>2, <1>3, <1>4, Zenon
<1> QED BY <1>6, <1>7, <1>8, Zenon

(* Detaching a session takes nothing from another one: attachments,        *)
(* leases, directives and queued events survive (detach_session).          *)
THEOREM SessionsAreIsolated == Spec => SessionIsolation
<1>1. HubInv /\ DeliveryInv /\ [Next]_vars =>
        [\A s \in Sessions : detach_session(s) =>
           \A i \in registrations : i.registration.session # s =>
             /\ i \in registrations'
             /\ {a \in attachments : a.instrument = i.handle} \subseteq attachments'
             /\ queues'[i.handle] = queues[i.handle]
             /\ \A t \in TargetHandle : control_leases[t] = i.handle =>
                  /\ control_leases'[t] = i.handle
                  /\ directives'[t] = directives[t]]_vars
  BY OthersSurvive, Zenon
<1> QED BY <1>1, DeliveryInvariant, PTL DEF Spec, SessionIsolation
=============================================================================
