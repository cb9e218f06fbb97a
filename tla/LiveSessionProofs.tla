-------------------------- MODULE LiveSessionProofs --------------------------
(***************************************************************************)
(* For any identities, sources and bounds: a controller and the hub agree  *)
(* on what it owns, a status tells the state of the execution, a fence     *)
(* names one execution, the terminal event is exact, cancellation is final *)
(* and a failed replacement stands in the way of no later one              *)
(* (runtime/session_live.rs, live_session/*.rs).                           *)
(***************************************************************************)
EXTENDS LiveSession, WellFoundedInduction, TLAPS

-----------------------------------------------------------------------------
(* The inductive invariant, one part of the state at a time.                *)

(* A controller's target: it holds a promise exactly while suspended, and has
   emitted one terminal event if it has ended and its queue is empty, and none
   before. *)
TargetOK(t) ==
    /\ t.promise # "None" <=> t.state = "Suspended"
    /\ t.terminal = IF ended(t) /\ t.queued = 0 THEN 1 ELSE 0

GoodTargets == {t \in Targets : TargetOK(t)}

(* What a status says of the target, for the two controllers. *)
StatusSays(l) ==
    /\ l.status = "Disposed" => l.target = NoTarget
    /\ l.status = "Cancelled" => l.target # NoTarget /\ l.target.state \in Finished
    /\ l.status = "Ready" => l.target = NewTarget
    /\ l.status \notin {"Disposed", "Cancelled", "Ready"} =>
         IF l.target = NoTarget THEN l.status = "Failed"
         ELSE l.status = status_of(l.target)

(* A whole-Wasm module after n runs: one terminal event for each. *)
Ran(n) == [NewTarget EXCEPT !.sequence = n, !.terminal = n]

SessionOK(l) ==
    /\ l \in Sessions
    /\ l.kind # "wasm" => /\ l.target # NoTarget => TargetOK(l.target)
                          /\ StatusSays(l)
    /\ l.kind = "wasm" => IF l.status = "Disposed" THEN l.target = NoTarget
                          ELSE /\ l.target # NoTarget
                               /\ l.target = Ran(l.target.sequence)

(* What a session of backend k owns of its slot. *)
Owns(k, slot, l) ==
    /\ l.target # NoTarget => slot.target
    /\ slot.lease <=> l.target # NoTarget /\ k # "wasm"
    /\ slot.instrument => k # "wasm"
    /\ k # "wasm" /\ l.status # "Disposed" => slot.instrument
    /\ slot.target /\ l.target = NoTarget => k = "hbc"
    /\ slot.directive # "Continue" =>
         k = "hbc" /\ l.target # NoTarget /\ finished(k, l.target)

(* What is left in a slot that no session uses: at most the target of an HBC
   program that did not compile. *)
Unowned(k, slot) ==
    /\ ~slot.lease /\ ~slot.instrument /\ slot.directive = "Continue"
    /\ slot.target => k = "hbc" /\ owner = "Active"

HubOK ==
    \A k \in Kinds, s \in Ids :
        IF s \in DOMAIN live /\ live[s].kind = k THEN Owns(k, hub[k, s], live[s])
        ELSE Unowned(k, hub[k, s])

(* A fence is never ahead of its session, and a generation is one execution;
   sessions only go with their owner. *)
FencesOK ==
    \A f \in seen :
        IF f.session \in DOMAIN live
        THEN /\ f.generation <= live[f.session].generation
             /\ f.generation = live[f.session].generation =>
                  f.execution = live[f.session].execution
        ELSE owner = "Closed"

LiveInv ==
    /\ owner \in {"Active", "Closed"}
    /\ DOMAIN live \subseteq Ids
    /\ owner = "Closed" => DOMAIN live = {}
    /\ live = [s \in DOMAIN live |-> live[s]]
    /\ \A s \in DOMAIN live : SessionOK(live[s])
    /\ hub \in [Kinds \X Ids -> Slots]
    /\ HubOK
    /\ seen \subseteq Fences
    /\ FencesOK

-----------------------------------------------------------------------------
(* The execution behind a controller.                                       *)

(* What holds of a target between a boundary and emit_terminal: the event has
   not been emitted too early. *)
Unannounced(t) ==
    /\ t \in Targets
    /\ t.promise # "None" <=> t.state = "Suspended"
    /\ t.terminal # 0 => t.terminal = 1 /\ ended(t) /\ t.queued = 0

(* A target just installed. *)
LEMMA NewTargetGood ==
    /\ NewTarget \in GoodTargets /\ NewTarget # NoTarget
    /\ NewTarget.state = "Running" /\ ~NewTarget.paused
<1>1. NewTarget \in Targets
  BY LiveSessionAssumption DEF Targets, NewTarget
<1>2. TargetOK(NewTarget)
  BY Zenon DEF TargetOK, NewTarget, ended, Finished
<1> QED BY <1>1, <1>2, NoTargetAssumption, Zenon DEF GoodTargets, NewTarget

(* A module just loaded has not run. *)
LEMMA NewTargetRan == NewTarget = Ran(NewTarget.sequence)
<1>1. PICK t \in Targets : t = NewTarget
  BY NewTargetGood, Zenon DEF GoodTargets
<1>2. t.terminal = t.sequence
  BY <1>1, Zenon DEF NewTarget
<1>3. [t EXCEPT !.sequence = t.sequence, !.terminal = t.terminal] = t
  BY Zenon DEF Targets
<1> QED BY <1>1, <1>2, <1>3, Zenon DEF Ran

(* The paused flag does not matter to the promise or the terminal event. *)
LEMMA PausedIsApart ==
    ASSUME NEW t, Unannounced(t), NEW p \in BOOLEAN
    PROVE  Unannounced([t EXCEPT !.paused = p])
BY Zenon DEF Unannounced, Targets, ended

(* A good target has not announced too early. *)
LEMMA GoodIsUnannounced ==
    ASSUME NEW t \in GoodTargets
    PROVE  Unannounced(t)
BY Zenon DEF Unannounced, GoodTargets, TargetOK

(* emit_terminal: exact once the boundary is over. *)
LEMMA EmitGood ==
    ASSUME NEW t, Unannounced(t)
    PROVE  /\ emit_terminal(t) \in GoodTargets
           /\ emit_terminal(t).state = t.state /\ emit_terminal(t).queued = t.queued
           /\ emit_terminal(t).paused = t.paused
<1>1. 1 \in Nat
  OBVIOUS
<1> QED BY <1>1, Zenon DEF emit_terminal, Unannounced, GoodTargets, TargetOK, Targets, ended

(* accept_observed of a target that is not over. *)
LEMMA AcceptUnannounced ==
    ASSUME NEW t \in GoodTargets, t.state \in {"Running", "Suspended"},
           NEW u \in accept_observed(t)
    PROVE  Unannounced(u)
<1>1. t \in Targets /\ t.terminal = 0
  BY Zenon DEF GoodTargets, TargetOK, ended, Finished
<1>2. PICK st \in {"Running", "Suspended", "Returned", "Failed"},
           q \in {n \in 0..MaxQueued : n >= t.queued - 1} :
        u = advanced(t, st, q)
  BY DEF accept_observed
<1>3. q \in 0..MaxQueued
  BY Zenon
<1> QED BY <1>1, <1>2, <1>3, Zenon DEF advanced, Unannounced, Targets, ended, Finished

(* A boundary of the HBC machine. *)
LEMMA HbcUnannounced ==
    ASSUME NEW t \in GoodTargets, t.state \in {"Running", "Suspended"},
           NEW u \in hbc_boundary(t)
    PROVE  Unannounced(u)
<1>1. t \in Targets /\ t.terminal = 0
  BY DEF GoodTargets, TargetOK, ended, Finished
<1>2. CASE t.promise = "Pending"
  BY <1>2, GoodIsUnannounced, Zenon DEF hbc_boundary
<1>3. CASE t.promise # "Pending"
  <2>1. PICK st \in {"Running", "Suspended", "Yielded", "Returned", "Failed"} :
          u = [t EXCEPT !.state = st,
                        !.promise = IF st = "Suspended" THEN "Pending" ELSE "None"]
    <3> DEFINE v(st) == [t EXCEPT !.state = st,
                           !.promise = IF st = "Suspended" THEN "Pending" ELSE "None"]
    <3>1. u \in {v(st) : st \in IF t.promise = "Settled" THEN {"Running", "Failed"}
                         ELSE {"Running", "Suspended", "Yielded", "Returned", "Failed"}}
      BY <1>3, Zenon DEF hbc_boundary
    <3> HIDE DEF v
    <3>2. \E st \in {"Running", "Suspended", "Yielded", "Returned", "Failed"} : u = v(st)
      BY <3>1, Zenon
    <3> QED BY <3>2, Zenon DEF v
  <2> QED BY <1>1, <2>1, Zenon DEF Unannounced, Targets, ended, Finished
<1> QED BY <1>2, <1>3, Zenon

(* A target that takes directives is still running, suspended or (interpreter)
   publishing its boundaries. *)
LEMMA BoundaryUnannounced ==
    ASSUME NEW k \in Kinds, NEW t \in GoodTargets, takes_directive(k, t),
           NEW u \in boundary(k, t)
    PROVE  Unannounced(u)
<1>1. t \in Targets /\ Unannounced(t)
  BY GoodIsUnannounced, Zenon DEF GoodTargets
<1>2. CASE k = "interpreter"
  <2>1. u \in step_observed(t)
    BY <1>2, Zenon DEF boundary
  <2>2. CASE t.queued > 0
    <3>1. u = [t EXCEPT !.queued = @ - 1]
      BY <2>1, <2>2, Zenon DEF step_observed
    <3>2. t.queued - 1 \in 0..MaxQueued /\ t.terminal = 0
      BY <1>1, <2>2, LiveSessionAssumption DEF Targets, Unannounced
    <3> QED BY <1>1, <3>1, <3>2, Zenon DEF Unannounced, Targets
  <2>3. CASE ~(t.queued > 0) /\ t.state = "Running"
    BY <2>1, <2>3, AcceptUnannounced, Zenon DEF step_observed
  <2>4. CASE ~(t.queued > 0) /\ t.state # "Running"
    BY <1>1, <2>1, <2>4, Zenon DEF step_observed
  <2> QED BY <2>2, <2>3, <2>4, Zenon
<1>3. CASE k # "interpreter"
  <2>1. t.state \in {"Running", "Suspended"}
    BY <1>1, <1>3, Zenon DEF takes_directive, finished, Targets
  <2> QED BY <1>3, <2>1, HbcUnannounced, Zenon DEF boundary
<1> QED BY <1>2, <1>3, Zenon

(* obey leaves a good target, and after Terminate a finished one. *)
LEMMA ObeyGood ==
    ASSUME NEW k \in Kinds, NEW t \in GoodTargets, NEW d \in Directives,
           takes_directive(k, t), NEW u \in obey(k, t, d)
    PROVE  u \in GoodTargets /\ (d = "Terminate" => u.state \in Finished)
<1>1. t \in Targets /\ Unannounced(t)
  BY GoodIsUnannounced, Zenon DEF GoodTargets
<1>2. CASE d = "Continue" /\ t.paused
  BY <1>2, Zenon DEF obey
<1>3. CASE d = "Suspend"
  <2>1. u = [t EXCEPT !.paused = TRUE]
    BY <1>3, Zenon DEF obey
  <2> QED BY <1>1, <1>3, <2>1, Zenon DEF GoodTargets, TargetOK, Targets, ended
<1>4. CASE d = "Terminate"
  <2> DEFINE v == [t EXCEPT !.paused = TRUE, !.promise = "None",
                            !.state = IF @ \in Finished THEN @ ELSE "Cancelled"]
  <2>1. u = emit_terminal(v)
    BY <1>4, Zenon DEF obey
  <2>2. Unannounced(v) /\ v.state \in Finished
    BY <1>1, Zenon DEF Unannounced, Targets, ended, Finished
  <2> HIDE DEF v
  <2> QED BY <2>1, <2>2, EmitGood, Zenon
<1>5. CASE ~(d = "Continue" /\ t.paused) /\ d \notin {"Suspend", "Terminate"}
  <2>1. PICK w \in boundary(k, t) : u = emit_terminal([w EXCEPT !.paused = (d = "StepNext")])
    BY <1>5, Zenon DEF obey
  <2>2. Unannounced([w EXCEPT !.paused = (d = "StepNext")])
    BY BoundaryUnannounced, PausedIsApart, Zenon
  <2> QED BY <1>5, <2>1, <2>2, EmitGood, Zenon
<1> QED BY <1>2, <1>3, <1>4, <1>5, Zenon

(* The whole of step; an HBC target that has finished does not move. *)
LEMMA StepGood ==
    ASSUME NEW k \in Kinds, NEW t \in GoodTargets, NEW d \in Directives,
           NEW u \in step(k, t, d)
    PROVE  /\ u \in GoodTargets
           /\ d = "Terminate" => u.state \in Finished
           /\ ~takes_directive(k, t) => u = t
<1>1. CASE takes_directive(k, t)
  BY <1>1, ObeyGood, Zenon DEF step
<1>2. CASE ~takes_directive(k, t)
  BY <1>2, Zenon DEF step, takes_directive, finished
<1> QED BY <1>1, <1>2, Zenon

-----------------------------------------------------------------------------
(* run and settle.                                                          *)

(* Induction over the naturals, for a set. *)
LEMMA SetInduction ==
    ASSUME NEW S, 0 \in S, \A n \in Nat : n \in S => n + 1 \in S
    PROVE  Nat \subseteq S
<1> DEFINE R == OpToRel(<, Nat)
           T == Nat \ S
<1> SUFFICES ASSUME T # {} PROVE FALSE
  BY Zenon
<1>1. IsWellFoundedOn(R, Nat)
  BY NatLessThanWellFounded, Zenon
<1>2. \A x, y \in Nat : x < y => <<x, y>> \in R
  BY Zenon DEF OpToRel
<1>3. T \subseteq Nat
  BY Zenon
<1> HIDE DEF R, T
<1>4. PICK x \in T : \A y \in T : ~(<<y, x>> \in R)
  BY <1>1, <1>3, WFMin, Zenon
<1>5. x \in Nat /\ x \notin S /\ x # 0
  BY <1>4, Zenon DEF T
<1>6. x - 1 \in Nat /\ x - 1 < x /\ (x - 1) + 1 = x
  BY <1>5
<1>7. x - 1 \in S
  BY <1>2, <1>4, <1>5, <1>6, Zenon DEF T
<1> QED BY <1>5, <1>6, <1>7, Zenon

(* A run is a number of rounds, whatever its limit: what every round keeps, it
   keeps (InterpreterTarget::run, HbcTarget::run). *)
LEMMA RunKeeps ==
    ASSUME NEW k, NEW t, NEW G, t \in G, NEW limit \in Nat,
           \A u \in G, f \in BOOLEAN : round(k, u, f) \subseteq G
    PROVE  run(k, t, limit) \subseteq G
<1> DEFINE Round(g, n) == IF n = 0 THEN {t} ELSE UNION {round(k, u, n = 1) : u \in g[n - 1]}
           Rounds(g, m) == g = [n \in 0 .. m |-> Round(g, n)]
           Defined == {m \in Nat : \E g : Rounds(g, m)}
           after[n \in 0 .. limit] ==
               IF n = 0 THEN {t} ELSE UNION {round(k, u, n = 1) : u \in after[n - 1]}
           Bounded == {n \in Nat : n <= limit => after[n] \subseteq G}
<1>1. run(k, t, limit) = after[limit]
  BY Zenon DEF run
<1>2. after = CHOOSE g : Rounds(g, limit)
  BY Zenon
<1> HIDE DEF after
<1>3. 0 \in Defined
  <2>1. PICK g : g = [n \in 0 .. 0 |-> {t}]
    BY Zenon
  <2>2. g = [n \in 0 .. 0 |-> Round(g, n)]
    BY <2>1
  <2> QED BY <2>2, Zenon
<1>4. ASSUME NEW m \in Nat, m \in Defined PROVE m + 1 \in Defined
  <2>1. PICK g : Rounds(g, m)
    BY <1>4, Zenon
  <2>2. PICK h : h = [n \in 0 .. m + 1 |-> Round(g, n)]
    BY Zenon
  <2>3. ASSUME NEW n \in 0 .. m PROVE h[n] = g[n]
    <3>1. g = [i \in 0 .. m |-> Round(g, i)]
      BY <2>1, Zenon
    <3> HIDE DEF Round
    <3>2. g[n] = Round(g, n)
      BY <3>1, Zenon
    <3>3. n \in 0 .. m + 1
      OBVIOUS
    <3>4. h[n] = Round(g, n)
      BY <2>2, <3>3, Zenon
    <3> QED BY <3>2, <3>4, Zenon
  <2>4. ASSUME NEW n \in 0 .. m + 1 PROVE Round(g, n) = Round(h, n)
    <3>1. CASE n = 0
      BY <3>1, Zenon
    <3>2. CASE n # 0
      <4>1. n - 1 \in 0 .. m
        BY <3>2
      <4>2. g[n - 1] = h[n - 1]
        BY <4>1, <2>3, Zenon
      <4> QED BY <4>2, Zenon
    <3> QED BY <3>1, <3>2, Zenon
  <2>5. Rounds(h, m + 1)
    <3> HIDE DEF Round
    <3> QED BY <2>2, <2>4, Zenon
  <2> HIDE DEF Rounds
  <2> QED BY <2>5
<1>5. limit \in Defined
  <2> HIDE DEF Defined
  <2> QED BY <1>3, <1>4, SetInduction, Zenon
<1>6. after = [n \in 0 .. limit |-> Round(after, n)]
  <2> HIDE DEF Round
  <2> QED BY <1>2, <1>5, Zenon
<1>7. 0 \in Bounded
  <2>1. after[0] = Round(after, 0)
    BY <1>6
  <2> QED BY <2>1, Zenon
<1>8. ASSUME NEW n \in Nat, n \in Bounded PROVE n + 1 \in Bounded
  <2> SUFFICES ASSUME n + 1 <= limit PROVE after[n + 1] \subseteq G
    OBVIOUS
  <2>1. after[n] \subseteq G
    BY <1>8
  <2>2. after[n + 1] = Round(after, n + 1)
    <3> HIDE DEF Round
    <3> QED BY <1>6
  <2>3. PICK b \in BOOLEAN : b = (n + 1 = 1)
    BY Zenon
  <2>4. n + 1 # 0 /\ (n + 1) - 1 = n
    OBVIOUS
  <2>5. after[n + 1] = UNION {round(k, u, b) : u \in after[n]}
    BY <2>2, <2>3, <2>4, Zenon
  <2> QED BY <2>1, <2>5, Zenon
<1>9. limit \in Bounded
  <2> HIDE DEF Bounded
  <2> QED BY <1>7, <1>8, SetInduction
<1> QED BY <1>1, <1>9

(* The good targets that, if t takes no directive, take none either. *)
Kept(k, t) == {u \in GoodTargets : ~takes_directive(k, t) => ~takes_directive(k, u)}

(* A run of a good target ends in a good one; a finished one stays finished. *)
LEMMA RunGood ==
    ASSUME NEW k \in Kinds, NEW t \in GoodTargets, NEW limit \in Nat,
           NEW u \in run(k, t, limit)
    PROVE  u \in GoodTargets /\ (~takes_directive(k, t) => ~takes_directive(k, u))
<1>1. t \in Kept(k, t)
  BY Zenon DEF Kept
<1>2. ASSUME NEW v \in Kept(k, t), NEW f \in BOOLEAN, NEW w \in round(k, v, f)
      PROVE  w \in Kept(k, t)
  <2>1. v \in GoodTargets
    BY Zenon DEF Kept
  <2>2. "Continue" \in Directives
    BY Zenon DEF Directives
  <2>3. CASE halts(k, v, f)
    BY <2>3, <1>2, Zenon DEF round
  <2>4. CASE ~halts(k, v, f)
    <3>1. w \in step(k, v, "Continue")
      BY <2>4, Zenon DEF round
    <3>2. w \in GoodTargets /\ (~takes_directive(k, v) => w = v)
      BY <2>1, <2>2, <3>1, StepGood, Zenon
    <3> QED BY <3>2, Zenon DEF Kept
  <2> QED BY <2>3, <2>4, Zenon
<1>3. \A v \in Kept(k, t), f \in BOOLEAN : round(k, v, f) \subseteq Kept(k, t)
  BY <1>2, Zenon
<1>4. run(k, t, limit) \subseteq Kept(k, t)
  BY <1>1, <1>3, RunKeeps, Zenon
<1> QED BY <1>4, Zenon DEF Kept

(* The settlement of a suspended target's promise. *)
LEMMA SettleGood ==
    ASSUME NEW k \in Kinds, NEW t \in GoodTargets, t.state = "Suspended",
           NEW u \in settle(k, t)
    PROVE  u \in GoodTargets
<1> DEFINE v == [t EXCEPT !.promise = "Settled"]
<1>1. v \in GoodTargets /\ v.state = "Suspended"
  BY Zenon DEF GoodTargets, TargetOK, Targets, ended
<1>2. PICK w \in IF k = "interpreter" THEN accept_observed(t) ELSE hbc_boundary(v) :
        u = emit_terminal([w EXCEPT !.paused = FALSE])
  BY Zenon DEF settle
<1> HIDE DEF v
<1>3. Unannounced(w)
  <2>1. CASE k = "interpreter"
    BY <2>1, <1>2, AcceptUnannounced, Zenon
  <2>2. CASE k # "interpreter"
    BY <2>2, <1>1, <1>2, HbcUnannounced, Zenon
  <2> QED BY <2>1, <2>2, Zenon
<1>4. Unannounced([w EXCEPT !.paused = FALSE])
  BY <1>3, PausedIsApart, Zenon
<1> QED BY <1>2, <1>4, EmitGood, Zenon

-----------------------------------------------------------------------------
(* One session: the values an operation leaves in it and in its slot.       *)

(* A controller's target is none or a good one. *)
LEMMA TargetOf ==
    ASSUME NEW l, SessionOK(l)
    PROVE  /\ l \in Sessions /\ l.kind \in Kinds
           /\ l.target # NoTarget /\ l.kind # "wasm" => l.target \in GoodTargets
BY Zenon DEF SessionOK, Sessions, GoodTargets

(* status_of a target is a status, and tells a suspended one. *)
LEMMA StatusOf ==
    ASSUME NEW t \in Targets
    PROVE  /\ status_of(t) \in Statuses \ {"Ready", "Disposed"}
           /\ status_of(t) = "Cancelled" => t.state \in Finished
           /\ status_of(t) = "Suspended" <=> t.state = "Suspended"
BY Zenon DEF status_of, Targets, Statuses, ended, Finished

(* A session whose target is replaced by another of the same kind. *)
Retargeted(l, t) == [l EXCEPT !.target = t]

(* Its fields. *)
LEMMA RetargetFields ==
    ASSUME NEW l \in Sessions, NEW t \in GoodTargets
    PROVE  /\ Retargeted(l, t) \in Sessions
           /\ Retargeted(l, t).target = t /\ Retargeted(l, t).kind = l.kind
           /\ Retargeted(l, t).status = l.status
           /\ Retargeted(l, t).generation = l.generation
           /\ Retargeted(l, t).execution = l.execution
BY Zenon DEF Retargeted, Sessions, GoodTargets

(* What a sync_status keeps. *)
Synced(l, m) ==
    /\ m.kind = l.kind /\ m.target = l.target
    /\ m.generation = l.generation /\ m.execution = l.execution

(* sync_status tells the state of any good target (both controllers). *)
LEMMA SyncOK ==
    ASSUME NEW l \in Sessions, l.target # NoTarget, l.target \in GoodTargets,
           l.status \notin {"Cancelled", "Disposed"}, l.kind # "wasm"
    PROVE  /\ SessionOK(sync_status(l)) /\ Synced(l, sync_status(l))
           /\ sync_status(l).status # "Disposed"
<1> DEFINE m == [l EXCEPT !.status = status_of(l.target)]
<1>1. l.target \in Targets /\ TargetOK(l.target)
  BY Zenon DEF GoodTargets
<1>2. /\ status_of(l.target) \in Statuses \ {"Ready", "Disposed"}
      /\ status_of(l.target) = "Cancelled" => l.target.state \in Finished
  BY <1>1, StatusOf, Zenon
<1>3. sync_status(l) = m
  BY Zenon DEF sync_status
<1>4. /\ m \in Sessions /\ m.target = l.target /\ m.kind = l.kind
      /\ m.status = status_of(l.target)
      /\ m.generation = l.generation /\ m.execution = l.execution
  BY <1>2, Zenon DEF Sessions
<1> HIDE DEF m
<1>5. StatusSays(m)
  BY <1>1, <1>2, <1>4, Zenon DEF StatusSays
<1> QED BY <1>1, <1>2, <1>3, <1>4, <1>5, Zenon DEF SessionOK, Synced

(* A snapshot of a session that still answers. *)
LEMMA SnapshotOK ==
    ASSUME NEW l, SessionOK(l), l.status \notin {"Cancelled", "Disposed"}, l.kind # "wasm"
    PROVE  /\ SessionOK(snapshot_payload(l)) /\ Synced(l, snapshot_payload(l))
           /\ snapshot_payload(l).status = "Disposed" => l.target = NoTarget
<1>1. l \in Sessions /\ (l.target # NoTarget => l.target \in GoodTargets)
  BY TargetOf, Zenon
<1>2. CASE l.kind = "hbc" /\ l.status = "Ready"
  BY <1>2, Zenon DEF snapshot_payload, Synced
<1>3. CASE ~(l.kind = "hbc" /\ l.status = "Ready") /\ l.target # NoTarget
  BY <1>1, <1>3, SyncOK, Zenon DEF snapshot_payload
<1>4. CASE ~(l.kind = "hbc" /\ l.status = "Ready") /\ l.target = NoTarget
  <2> DEFINE m == [l EXCEPT !.status = "Disposed"]
  <2>1. snapshot_payload(l) = m
    BY <1>4, Zenon DEF snapshot_payload, sync_status
  <2>2. /\ m \in Sessions /\ m.target = NoTarget /\ m.kind = l.kind /\ m.status = "Disposed"
        /\ m.generation = l.generation /\ m.execution = l.execution
    BY <1>1, <1>4, Zenon DEF Sessions, Statuses
  <2> HIDE DEF m
  <2> QED BY <1>4, <2>1, <2>2, Zenon DEF SessionOK, StatusSays, Synced
<1> QED BY <1>2, <1>3, <1>4, Zenon

(* An operation that leaves the slot alone, on a session that held a target:
   the slot is owned by the session it leaves. *)
LEMMA OwnsStill ==
    ASSUME NEW k \in Kinds, NEW slot, NEW l, NEW m, Owns(k, slot, l),
           l.target = NoTarget <=> m.target = NoTarget,
           m.status = "Disposed" \/ l.status # "Disposed",
           k = "hbc" /\ l.target # NoTarget /\ finished(k, l.target) => finished(k, m.target)
    PROVE  Owns(k, slot, m)
BY Zenon DEF Owns

-----------------------------------------------------------------------------
(* Operations on one session.                                               *)

(* What every operation makes of its session l: a session m and a slot that are
   in order; the generation moves on by one or stays with its execution; a
   cancelled or disposed session is over; a replacement that loads runs; and a
   session that had a target leaves nothing behind when it is disposed of. *)
Over(l) == l.status \in {"Cancelled", "Disposed"}

Follows(l, m, slot) ==
    /\ SessionOK(m) /\ m.kind = l.kind /\ slot \in Slots /\ Owns(l.kind, slot, m)
    /\ \/ m.generation = l.generation /\ m.execution = l.execution
       \/ m.generation = l.generation + 1
    /\ Over(l) => /\ m.generation = l.generation
                  /\ m.status \in {l.status, "Disposed"}
                  /\ m.target \in {l.target, NoTarget}
    /\ m.generation # l.generation /\ m.source \in Valid /\ l.kind # "hbc" =>
         m.target = NewTarget
    /\ m.status = "Disposed" /\ l.target # NoTarget => slot = EmptySlot

(* A command that leaves a session in order with the execution it had. *)
LEMMA SameExecution ==
    ASSUME NEW l \in Sessions, NEW m, NEW slot, ~Over(l), SessionOK(m), m.kind = l.kind,
           m.generation = l.generation, m.execution = l.execution,
           slot \in Slots, Owns(l.kind, slot, m),
           m.status # "Disposed" \/ l.target = NoTarget
    PROVE  Follows(l, m, slot)
BY Zenon DEF Follows

(* Snapshot. *)
LEMMA SnapshotFollows ==
    ASSUME NEW l, NEW slot \in Slots, SessionOK(l), Owns(l.kind, slot, l),
           ~Over(l), l.kind # "wasm"
    PROVE  Follows(l, snapshot_payload(l), slot)
<1> DEFINE m == snapshot_payload(l)
<1>1. /\ SessionOK(m) /\ Synced(l, m)
      /\ m.status # "Disposed" \/ l.target = NoTarget
  BY SnapshotOK, Zenon DEF Over
<1>2. l \in Sessions /\ l.kind \in Kinds
  BY TargetOf, Zenon
<1> HIDE DEF m
<1>3. Owns(l.kind, slot, m)
  BY <1>1, <1>2, OwnsStill, Zenon DEF Over, Synced
<1> QED BY <1>1, <1>2, <1>3, SameExecution, Zenon DEF Synced, m

(* Every command that gives a session another good target and synchronises its
   status; a finished HBC target has to stay finished. *)
LEMMA RetargetFollows ==
    ASSUME NEW l, NEW slot \in Slots, SessionOK(l), Owns(l.kind, slot, l),
           ~Over(l), l.kind # "wasm", l.target # NoTarget, NEW t \in GoodTargets,
           ~takes_directive(l.kind, l.target) => ~takes_directive(l.kind, t)
    PROVE  Follows(l, sync_status([l EXCEPT !.target = t]), slot)
<1> DEFINE n == [l EXCEPT !.target = t]
           m == sync_status(n)
<1>1. l \in Sessions /\ l.kind \in Kinds /\ t # NoTarget
  BY TargetOf, NoTargetAssumption, Zenon DEF GoodTargets
<1>2. /\ n \in Sessions /\ n.target = t /\ n.kind = l.kind /\ n.status = l.status
      /\ n.generation = l.generation /\ n.execution = l.execution
  BY <1>1, RetargetFields, Zenon DEF Retargeted
<1> HIDE DEF n
<1>3. SessionOK(m) /\ Synced(n, m) /\ m.status # "Disposed"
  BY <1>1, <1>2, SyncOK, Zenon DEF Over
<1> HIDE DEF m
<1>4. Owns(l.kind, slot, m)
  BY <1>1, <1>2, <1>3, OwnsStill, Zenon DEF Over, Synced, takes_directive
<1> QED BY <1>1, <1>2, <1>3, <1>4, SameExecution, Zenon DEF Synced, m, n

(* Step, Pause and Cancel: the directive is taken, or left by a finished HBC
   target. *)
LEMMA DirectedFollows ==
    ASSUME NEW l, NEW slot \in Slots, SessionOK(l), Owns(l.kind, slot, l),
           ~Over(l), l.kind # "wasm", l.target # NoTarget, NEW d \in Directives,
           NEW t \in step(l.kind, l.target, d)
    PROVE  LET stepped == sync_status([l EXCEPT !.target = t])
           IN  Follows(l, IF d = "Terminate"
                          THEN [stepped EXCEPT !.status = "Cancelled", !.pending = NoSource]
                          ELSE stepped,
                       [slot EXCEPT !.directive =
                           IF takes_directive(l.kind, l.target) THEN "Continue" ELSE d])
<1> DEFINE stepped == sync_status([l EXCEPT !.target = t])
           new == [slot EXCEPT !.directive =
                      IF takes_directive(l.kind, l.target) THEN "Continue" ELSE d]
           c == [stepped EXCEPT !.status = "Cancelled", !.pending = NoSource]
<1>1. l.kind \in Kinds /\ l.target \in GoodTargets /\ l \in Sessions
  BY TargetOf, Zenon
<1>2. /\ t \in GoodTargets
      /\ d = "Terminate" => t.state \in Finished
      /\ ~takes_directive(l.kind, l.target) => t = l.target
  BY <1>1, StepGood, Zenon
<1>3. Follows(l, stepped, slot)
  BY <1>1, <1>2, RetargetFollows, Zenon
<1>4. /\ stepped.target = t /\ stepped.status # "Disposed" /\ stepped.kind = l.kind
      /\ stepped.generation = l.generation /\ stepped.execution = l.execution
  <2>1. [l EXCEPT !.target = t] = Retargeted(l, t)
    BY Zenon DEF Retargeted
  <2>2. t # NoTarget
    BY <1>2, NoTargetAssumption, Zenon DEF GoodTargets
  <2>3. PICK m \in Sessions : m = Retargeted(l, t)
    BY <1>1, <1>2, RetargetFields, Zenon
  <2>4. /\ m.target = t /\ m.kind = l.kind /\ m.status = l.status
        /\ m.generation = l.generation /\ m.execution = l.execution
    BY <1>1, <1>2, <2>3, RetargetFields, Zenon
  <2>5. m.status \notin {"Cancelled", "Disposed"} /\ m.kind # "wasm"
    BY <2>4, Zenon DEF Over
  <2>6. Synced(m, sync_status(m)) /\ sync_status(m).status # "Disposed"
    BY <1>2, <2>2, <2>4, <2>5, SyncOK, Zenon
  <2>7. stepped = sync_status(m)
    BY <2>1, <2>3, Zenon
  <2> HIDE DEF stepped
  <2> QED BY <2>4, <2>6, <2>7, Zenon DEF Synced
<1> HIDE DEF stepped
<1>5. /\ new \in Slots /\ new.target = slot.target /\ new.lease = slot.lease
      /\ new.instrument = slot.instrument
      /\ new.directive = IF takes_directive(l.kind, l.target) THEN "Continue" ELSE d
  BY Zenon DEF Slots, Directives
<1> HIDE DEF new
<1>6. ASSUME NEW m, m.target = t, Owns(l.kind, slot, m) PROVE Owns(l.kind, new, m)
  <2>1. t # NoTarget
    BY <1>2, NoTargetAssumption DEF GoodTargets
  <2>2. CASE takes_directive(l.kind, l.target)
    BY <1>5, <1>6, <2>2, Zenon DEF Owns
  <2>3. CASE ~takes_directive(l.kind, l.target)
    <3>1. l.kind = "hbc" /\ finished(l.kind, t)
      BY <1>1, <1>2, <2>3, Zenon DEF takes_directive, Kinds
    <3> QED BY <1>5, <1>6, <2>1, <3>1, Zenon DEF Owns
  <2> QED BY <2>2, <2>3, Zenon
<1>7. Follows(l, stepped, new)
  BY <1>3, <1>4, <1>5, <1>6, Zenon DEF Follows
<1>8. ASSUME d = "Terminate" PROVE Follows(l, c, new)
  <2>1. SessionOK(stepped) /\ stepped \in Sessions
    BY <1>3, Zenon DEF Follows, SessionOK
  <2>2. /\ c \in Sessions /\ c.target = t /\ c.kind = stepped.kind /\ c.status = "Cancelled"
        /\ c.generation = stepped.generation /\ c.execution = stepped.execution
    BY <1>4, <2>1, Zenon DEF Sessions, Statuses
  <2> HIDE DEF c
  <2>3. SessionOK(c)
    <3>1. t # NoTarget /\ TargetOK(t) /\ t.state \in Finished
      BY <1>2, <1>8, NoTargetAssumption, Zenon DEF GoodTargets
    <3>2. c.kind # "wasm"
      BY <1>3, <2>2, Zenon DEF Follows
    <3> QED BY <2>2, <3>1, <3>2, Zenon DEF SessionOK, StatusSays
  <2>4. Owns(l.kind, slot, c)
    BY <1>1, <1>3, <1>4, <2>2, OwnsStill, Zenon DEF Follows
  <2>5. Owns(l.kind, new, c)
    BY <1>6, <2>2, <2>4, Zenon
  <2> QED BY <1>1, <1>4, <1>5, <2>2, <2>3, <2>5, SameExecution, Zenon
<1> QED BY <1>7, <1>8, Zenon DEF stepped, new, c

(* run_target, on the target continued. *)
LEMMA RunFollows ==
    ASSUME NEW l, NEW slot \in Slots, SessionOK(l), Owns(l.kind, slot, l),
           ~Over(l), l.kind # "wasm", l.target # NoTarget, NEW limit \in Nat,
           NEW t \in run(l.kind, [l.target EXCEPT !.paused = FALSE], limit)
    PROVE  Follows(l, sync_status([l EXCEPT !.target = t]), slot)
<1> DEFINE u == [l.target EXCEPT !.paused = FALSE]
<1>1. l.kind \in Kinds /\ l.target \in GoodTargets
  BY TargetOf, Zenon
<1>2. /\ u \in GoodTargets
      /\ ~takes_directive(l.kind, l.target) => ~takes_directive(l.kind, u)
  BY <1>1, Zenon DEF GoodTargets, TargetOK, Targets, ended, takes_directive, finished
<1> HIDE DEF u
<1>3. t \in run(l.kind, u, limit)
  BY Zenon DEF u
<1>4. t \in GoodTargets /\ (~takes_directive(l.kind, u) => ~takes_directive(l.kind, t))
  BY <1>1, <1>2, <1>3, RunGood, Zenon
<1> QED BY <1>2, <1>4, RetargetFollows, Zenon

(* resume of a suspended target. *)
LEMMA SettleFollows ==
    ASSUME NEW l, NEW slot \in Slots, SessionOK(l), Owns(l.kind, slot, l),
           ~Over(l), l.kind # "wasm", l.target # NoTarget,
           l.target.state = "Suspended", NEW t \in settle(l.kind, l.target)
    PROVE  Follows(l, sync_status([l EXCEPT !.target = t]), slot)
<1>1. l.kind \in Kinds /\ l.target \in GoodTargets
  BY TargetOf, Zenon
<1>2. t \in GoodTargets
  BY <1>1, SettleGood, Zenon
<1>3. takes_directive(l.kind, l.target)
  BY Zenon DEF takes_directive, finished, ended, Finished
<1> QED BY <1>2, <1>3, RetargetFollows, Zenon

(* resume of any other: a paused one is continued. *)
LEMMA ContinueFollows ==
    ASSUME NEW l, NEW slot \in Slots, SessionOK(l), Owns(l.kind, slot, l),
           ~Over(l), l.kind # "wasm", l.target # NoTarget
    PROVE  Follows(l, snapshot_payload(IF l.target.paused
                                       THEN sync_status([l EXCEPT !.target.paused = FALSE])
                                       ELSE l), slot)
<1>1. CASE ~l.target.paused
  BY <1>1, SnapshotFollows, Zenon
<1>2. CASE l.target.paused
  <2> DEFINE t == [l.target EXCEPT !.paused = FALSE]
             n == [l EXCEPT !.target = t]
             m == sync_status(n)
  <2>1. l.kind \in Kinds /\ l.target \in GoodTargets /\ l \in Sessions
    BY TargetOf, Zenon
  <2>2. /\ t \in GoodTargets
        /\ ~takes_directive(l.kind, l.target) => ~takes_directive(l.kind, t)
    BY <2>1, Zenon DEF GoodTargets, TargetOK, Targets, ended, takes_directive, finished
  <2>3. [l EXCEPT !.target.paused = FALSE] = n
    BY <2>1, Zenon DEF Sessions
  <2> HIDE DEF t
  <2>4. t # NoTarget
    BY <2>2, NoTargetAssumption, Zenon DEF GoodTargets
  <2>5. /\ n \in Sessions /\ n.target = t /\ n.kind = l.kind /\ n.status = l.status
        /\ n.generation = l.generation /\ n.execution = l.execution
    BY <2>1, <2>2, RetargetFields, Zenon DEF Retargeted
  <2>6. Follows(l, m, slot)
    BY <2>2, RetargetFollows, Zenon
  <2> HIDE DEF n
  <2>7. SessionOK(m) /\ Synced(n, m) /\ m.status # "Disposed"
    BY <2>2, <2>4, <2>5, SyncOK, Zenon DEF Over
  <2>8. snapshot_payload(m) = m
    <3>1. m.status = status_of(t) /\ m.target = t /\ m \in Sessions
      BY <2>4, <2>5, <2>7, Zenon DEF sync_status, Synced, SessionOK, Over, Sessions
    <3>2. [m EXCEPT !.status = status_of(t)] = m
      <4> HIDE DEF m
      <4> QED BY <3>1, Zenon DEF Sessions
    <3>3. sync_status(m) = m
      BY <2>4, <3>1, <3>2, Zenon DEF sync_status
    <3> QED BY <3>3, Zenon DEF snapshot_payload
  <2> QED BY <1>2, <2>3, <2>6, <2>8, Zenon
<1> QED BY <1>1, <1>2, Zenon

(* Settled: a suspended session's promise, from a command or its producer. *)
LEMMA SettledFollows ==
    ASSUME NEW l, NEW slot \in Slots, SessionOK(l), Owns(l.kind, slot, l),
           l.target # NoTarget, l.target.promise = "Pending"
    PROVE  Follows(l, [l EXCEPT !.target.promise = "Settled"], slot)
<1> DEFINE t == [l.target EXCEPT !.promise = "Settled"]
           m == [l EXCEPT !.target = t]
<1>1. l.kind # "wasm"
  <2>1. \A n : Ran(n).promise = "None"
    BY Zenon DEF NewTarget, Ran
  <2> QED BY <2>1, Zenon DEF SessionOK
<1>2. l.kind \in Kinds /\ l.target \in GoodTargets /\ l \in Sessions
  BY <1>1, TargetOf, Zenon
<1>3. l.target \in Targets /\ TargetOK(l.target) /\ l.target.state = "Suspended"
  BY <1>2, Zenon DEF GoodTargets, TargetOK
<1>4. /\ t \in GoodTargets /\ t.state = "Suspended" /\ t.paused = l.target.paused
      /\ status_of(t) = "Suspended"
  BY <1>3, Zenon DEF GoodTargets, TargetOK, Targets, ended, status_of
<1>5. [l EXCEPT !.target.promise = "Settled"] = m
  BY <1>2, Zenon DEF Sessions
<1> HIDE DEF t
<1>6. t # NoTarget /\ TargetOK(t)
  BY <1>4, NoTargetAssumption, Zenon DEF GoodTargets
<1>7. /\ m \in Sessions /\ m.target = t /\ m.kind = l.kind /\ m.status = l.status
      /\ m.generation = l.generation /\ m.execution = l.execution
  BY <1>2, <1>4, RetargetFields, Zenon DEF Retargeted
<1> HIDE DEF m
<1>8. l.status = "Suspended"
  <2>1. l.target # NewTarget
    BY <1>3 DEF NewTarget
  <2>2. status_of(l.target) = "Suspended"
    BY <1>3, Zenon DEF status_of
  <2>3. l.target.state \notin Finished
    BY <1>3, Zenon DEF ended, Finished
  <2> QED BY <1>1, <2>1, <2>2, <2>3, Zenon DEF SessionOK, StatusSays
<1>9. SessionOK(m)
  BY <1>4, <1>6, <1>7, <1>1, <1>8, Zenon DEF SessionOK, StatusSays
<1>10. Owns(l.kind, slot, m)
  <2>1. ~finished(l.kind, l.target)
    BY <1>3, Zenon DEF finished, ended, Finished
  <2> QED BY <1>2, <1>6, <1>7, <1>8, <2>1, OwnsStill, Zenon
<1>11. Follows(l, m, slot)
  BY <1>2, <1>7, <1>8, <1>9, <1>10, SameExecution, Zenon DEF Over
<1> QED BY <1>5, <1>11, Zenon

(* Queue: only the pending source changes. *)
LEMMA QueueFollows ==
    ASSUME NEW l, NEW slot \in Slots, SessionOK(l), Owns(l.kind, slot, l),
           ~Over(l), NEW src \in Sources \cup {NoSource}
    PROVE  Follows(l, [l EXCEPT !.pending = src], slot)
<1> DEFINE m == [l EXCEPT !.pending = src]
<1>1. l.kind \in Kinds /\ l \in Sessions
  BY TargetOf, Zenon
<1>2. /\ m \in Sessions /\ m.target = l.target /\ m.kind = l.kind /\ m.status = l.status
      /\ m.generation = l.generation /\ m.execution = l.execution
  BY <1>1, Zenon DEF Sessions
<1> HIDE DEF m
<1>3. SessionOK(m)
  BY <1>2, Zenon DEF SessionOK, StatusSays
<1>4. Owns(l.kind, slot, m)
  BY <1>1, <1>2, OwnsStill, Zenon
<1>5. Follows(l, m, slot)
  BY <1>1, <1>2, <1>3, <1>4, SameExecution, Zenon DEF Over
<1> QED BY <1>5, Zenon DEF m

(* Dispose, of a session that may be over already. *)
LEMMA DisposeFollows ==
    ASSUME NEW l, NEW slot \in Slots, SessionOK(l), Owns(l.kind, slot, l)
    PROVE  /\ l.status = "Disposed" => disposed(l) = l /\ Follows(l, l, slot)
           /\ l.status # "Disposed" => Follows(l, disposed(l), detach_instrument(l, slot))
<1>1. l.kind \in Kinds /\ l \in Sessions
  BY TargetOf, Zenon
<1>2. ASSUME l.status = "Disposed" PROVE disposed(l) = l /\ Follows(l, l, slot)
  BY <1>1, <1>2, Zenon DEF disposed, Follows, Over, SessionOK, StatusSays
<1>3. ASSUME l.status # "Disposed" PROVE Follows(l, disposed(l), detach_instrument(l, slot))
  <2> DEFINE m == [l EXCEPT !.target = NoTarget, !.pending = NoSource, !.status = "Disposed"]
             removed == remove_target(l, slot)
             new == [removed EXCEPT !.instrument = FALSE]
  <2>1. disposed(l) = m
    BY <1>3, Zenon DEF disposed
  <2>2. /\ m \in Sessions /\ m.target = NoTarget /\ m.kind = l.kind /\ m.status = "Disposed"
        /\ m.generation = l.generation /\ m.execution = l.execution
    BY <1>1, Zenon DEF Sessions, Statuses
  <2> HIDE DEF m
  <2>3. SessionOK(m)
    BY <2>2, Zenon DEF SessionOK, StatusSays
  <2>4. /\ removed \in Slots /\ ~removed.lease /\ removed.directive = "Continue"
        /\ removed.target => l.kind = "hbc"
    <3>1. CASE l.target = NoTarget
      <4>1. removed = slot
        BY <3>1, Zenon DEF remove_target
      <4> HIDE DEF removed
      <4> QED BY <3>1, <4>1, Zenon DEF Owns
    <3>2. CASE l.target # NoTarget
      <4>1. removed = [EmptySlot EXCEPT !.instrument = slot.instrument]
        BY <3>2, Zenon DEF remove_target
      <4> HIDE DEF removed
      <4> QED BY <4>1, Zenon DEF EmptySlot, Slots, Directives
    <3> QED BY <3>1, <3>2, Zenon
  <2>5. detach_instrument(l, slot) = new
    BY Zenon DEF detach_instrument
  <2>6. l.target # NoTarget => new = EmptySlot
    <3>1. EmptySlot \in Slots
      BY Zenon DEF EmptySlot, Slots, Directives
    <3>2. EmptySlot.instrument = FALSE
      BY Zenon DEF EmptySlot
    <3>3. PICK e \in Slots : e = EmptySlot
      BY <3>1, Zenon
    <3>4. [[e EXCEPT !.instrument = slot.instrument] EXCEPT !.instrument = FALSE] = e
      BY <3>2, <3>3, Zenon DEF Slots
    <3> QED BY <3>3, <3>4, Zenon DEF remove_target
  <2> HIDE DEF removed
  <2>7. /\ new \in Slots /\ ~new.lease /\ new.directive = "Continue" /\ ~new.instrument
        /\ new.target => l.kind = "hbc"
    BY <2>4, Zenon DEF Slots
  <2> HIDE DEF new
  <2>8. Owns(l.kind, new, m)
    BY <2>2, <2>7, Zenon DEF Owns
  <2> QED BY <2>1, <2>2, <2>3, <2>5, <2>7, <2>8, <2>6, Zenon DEF Follows
<1> QED BY <1>2, <1>3, Zenon

(* remove_target leaves a controller's instrument and no lease. *)
LEMMA RemoveLeaves ==
    ASSUME NEW l, NEW slot \in Slots, SessionOK(l), Owns(l.kind, slot, l),
           ~Over(l), l.kind # "wasm"
    PROVE  LET free == remove_target(l, slot)
           IN  /\ free \in Slots /\ free.instrument /\ ~free.lease
               /\ free.directive = "Continue" /\ (free.target => l.kind = "hbc")
<1>1. slot.instrument
  BY Zenon DEF Owns, Over
<1>2. CASE l.target = NoTarget
  <2>1. remove_target(l, slot) = slot
    BY <1>2, Zenon DEF remove_target
  <2> QED BY <1>1, <1>2, <2>1, Zenon DEF Owns
<1>3. CASE l.target # NoTarget
  <2>1. remove_target(l, slot) = [EmptySlot EXCEPT !.instrument = slot.instrument]
    BY <1>3, Zenon DEF remove_target
  <2>2. PICK free : free = remove_target(l, slot)
    BY Zenon
  <2>3. /\ free \in Slots /\ free.instrument = slot.instrument /\ ~free.lease
        /\ free.directive = "Continue" /\ ~free.target
    BY <2>1, <2>2, Zenon DEF EmptySlot, Slots, Directives
  <2> QED BY <1>1, <2>2, <2>3, Zenon
<1> QED BY <1>2, <1>3, Zenon

(* install_target on a free slot: it is loaded with a lease, or no lease and
   at most the target of an HBC program is left. *)
LEMMA InstallLeaves ==
    ASSUME NEW k \in Kinds, k # "wasm", NEW free \in Slots, NEW loads \in BOOLEAN,
           ~free.lease, free.directive = "Continue", free.target => k = "hbc"
    PROVE  LET new == install_target(k, free, loads)
           IN  /\ new \in Slots /\ new.instrument = free.instrument
               /\ new.directive = "Continue"
               /\ installed(k, free, new) => new.target /\ new.lease
               /\ ~installed(k, free, new) => ~new.lease /\ (new.target => k = "hbc")
               /\ loads /\ k # "hbc" => installed(k, free, new)
<1>1. CASE free.target
  <2>1. install_target(k, free, loads) = free
    BY <1>1, Zenon DEF install_target
  <2> QED BY <1>1, <2>1, Zenon DEF installed
<1>2. CASE ~free.target /\ loads
  <2> DEFINE new == [free EXCEPT !.target = TRUE, !.lease = (k # "wasm")]
  <2>1. install_target(k, free, loads) = new
    BY <1>2, Zenon DEF install_target
  <2>2. /\ new \in Slots /\ new.instrument = free.instrument /\ new.directive = free.directive
        /\ new.target /\ new.lease
    BY Zenon DEF Slots
  <2> HIDE DEF new
  <2> QED BY <1>2, <2>1, <2>2, Zenon DEF installed
<1>3. CASE ~free.target /\ ~loads
  <2> DEFINE new == [free EXCEPT !.target = (k = "hbc")]
  <2>1. install_target(k, free, loads) = new
    BY <1>3, Zenon DEF install_target
  <2>2. /\ new \in Slots /\ new.instrument = free.instrument /\ new.directive = free.directive
        /\ new.target <=> k = "hbc"
        /\ new.lease = free.lease
    BY Zenon DEF Slots
  <2> HIDE DEF new
  <2> QED BY <1>3, <2>1, <2>2, Zenon DEF installed
<1> QED BY <1>1, <1>2, <1>3, Zenon

(* The session of a restart, before its snapshot. *)
Restarted(l, src, loaded) ==
    [l EXCEPT !.source = src, !.pending = NoSource,
              !.generation = @ + 1,
              !.execution = IF loaded THEN @ + 1 ELSE @,
              !.target = IF loaded THEN NewTarget ELSE NoTarget,
              !.status = IF loaded THEN "Ready" ELSE "Failed"]

(* Its fields. *)
LEMMA RestartedFields ==
    ASSUME NEW l \in Sessions, NEW src \in Sources, NEW loaded \in BOOLEAN,
           l.generation < MaxGeneration
    PROVE  LET m == Restarted(l, src, loaded)
           IN  /\ m \in Sessions /\ m.kind = l.kind /\ m.source = src
               /\ m.generation = l.generation + 1
               /\ m.target = IF loaded THEN NewTarget ELSE NoTarget
               /\ m.status = IF loaded THEN "Ready" ELSE "Failed"
<1>1. l.generation + 1 \in 0..MaxGeneration /\ l.execution + 1 \in Nat
  BY LiveSessionAssumption DEF Sessions
<1>2. NewTarget \in Targets
  BY NewTargetGood, Zenon DEF GoodTargets
<1> QED BY <1>1, <1>2, Zenon DEF Restarted, Sessions, Statuses

(* restart of the two controllers, whether the source loads or not. *)
LEMMA RestartFollows ==
    ASSUME NEW l, NEW slot \in Slots, SessionOK(l), Owns(l.kind, slot, l),
           ~Over(l), l.kind # "wasm", NEW src \in Sources, l.generation < MaxGeneration
    PROVE  LET free   == remove_target(l, slot)
               new    == install_target(l.kind, free, src \in Valid)
               loaded == installed(l.kind, free, new)
               after  == Restarted(l, src, loaded)
           IN  Follows(l, IF loaded THEN snapshot_payload(after) ELSE after, new)
<1> DEFINE free   == remove_target(l, slot)
           new    == install_target(l.kind, free, src \in Valid)
           loaded == installed(l.kind, free, new)
           after  == Restarted(l, src, loaded)
<1>1. l.kind \in Kinds /\ l \in Sessions
  BY TargetOf, Zenon
<1>2. /\ free \in Slots /\ free.instrument /\ ~free.lease
      /\ free.directive = "Continue" /\ (free.target => l.kind = "hbc")
  BY RemoveLeaves, Zenon
<1> HIDE DEF free
<1>3. /\ new \in Slots /\ new.instrument = free.instrument /\ new.directive = "Continue"
      /\ loaded => new.target /\ new.lease
      /\ ~loaded => ~new.lease /\ (new.target => l.kind = "hbc")
      /\ src \in Valid /\ l.kind # "hbc" => loaded
  <2>1. (src \in Valid) \in BOOLEAN
    OBVIOUS
  <2> QED BY <1>1, <1>2, <2>1, InstallLeaves, Zenon
<1>4. loaded \in BOOLEAN
  BY <1>2, <1>3, Zenon DEF installed, Slots
<1> HIDE DEF new, loaded
<1>5. /\ after \in Sessions /\ after.kind = l.kind /\ after.source = src
      /\ after.generation = l.generation + 1
      /\ after.target = IF loaded THEN NewTarget ELSE NoTarget
      /\ after.status = IF loaded THEN "Ready" ELSE "Failed"
  BY <1>1, <1>4, RestartedFields
<1> HIDE DEF after
<1>6. NewTarget \in GoodTargets /\ NewTarget # NoTarget /\ TargetOK(NewTarget)
  BY NewTargetGood, Zenon DEF GoodTargets
<1>7. SessionOK(after)
  <2>1. CASE loaded
    BY <1>5, <1>6, <2>1, Zenon DEF SessionOK, StatusSays
  <2>2. CASE ~loaded
    BY <1>5, <2>2, Zenon DEF SessionOK, StatusSays
  <2> QED BY <1>4, <2>1, <2>2, Zenon
<1>8. l.generation + 1 # l.generation
  BY <1>1 DEF Sessions
<1>9. CASE loaded
  <2> DEFINE m == snapshot_payload(after)
  <2>1. SessionOK(m) /\ Synced(after, m) /\ m.status # "Disposed"
    BY <1>5, <1>6, <1>7, <1>9, SnapshotOK, Zenon
  <2> HIDE DEF m
  <2>2. Owns(l.kind, new, m)
    BY <1>2, <1>3, <1>5, <1>6, <1>9, <2>1, Zenon DEF Owns, Synced
  <2>3. Follows(l, m, new)
    BY <1>3, <1>5, <1>9, <2>1, <2>2, Zenon DEF Follows, Synced, Over
  <2> QED BY <1>9, <2>3, Zenon DEF m, free, new, loaded, after
<1>10. CASE ~loaded
  <2>1. Owns(l.kind, new, after)
    BY <1>2, <1>3, <1>5, <1>10, Zenon DEF Owns
  <2>2. Follows(l, after, new)
    BY <1>3, <1>5, <1>7, <1>10, <2>1, Zenon DEF Follows, Over
  <2> QED BY <1>10, <2>2, Zenon DEF free, new, loaded, after
<1> QED BY <1>4, <1>9, <1>10, Zenon

(* Whole-Wasm: a replacement that loads. *)
LEMMA WasmRestartFollows ==
    ASSUME NEW l, NEW slot \in Slots, SessionOK(l), Owns(l.kind, slot, l),
           ~Over(l), l.kind = "wasm", NEW src \in Sources,
           l.generation < MaxGeneration
    PROVE  Follows(l, [l EXCEPT !.source = src, !.pending = NoSource,
                                !.generation = @ + 1, !.execution = @ + 1,
                                !.target = NewTarget, !.status = "Ready"], slot)
<1> DEFINE m == [l EXCEPT !.source = src, !.pending = NoSource,
                          !.generation = @ + 1, !.execution = @ + 1,
                          !.target = NewTarget, !.status = "Ready"]
<1>1. l.kind \in Kinds /\ l \in Sessions
  BY TargetOf, Zenon
<1>2. l.generation + 1 \in 0..MaxGeneration /\ l.execution + 1 \in Nat
  BY <1>1, LiveSessionAssumption DEF Sessions
<1>3. /\ NewTarget \in Targets /\ NewTarget # NoTarget
      /\ NewTarget = Ran(NewTarget.sequence)
  BY NewTargetGood, NewTargetRan, Zenon DEF GoodTargets
<1>4. /\ m \in Sessions /\ m.kind = l.kind /\ m.target = NewTarget /\ m.status = "Ready"
      /\ m.generation = l.generation + 1
  BY <1>1, <1>2, <1>3, Zenon DEF Sessions, Statuses
<1> HIDE DEF m
<1>5. SessionOK(m)
  BY <1>3, <1>4, Zenon DEF SessionOK
<1>6. Owns(l.kind, slot, m)
  <2>1. l.target # NoTarget
    BY Zenon DEF SessionOK, Over
  <2> QED BY <1>1, <1>3, <1>4, <2>1, OwnsStill, Zenon DEF Over
<1>7. Follows(l, m, slot)
  BY <1>4, <1>5, <1>6, Zenon DEF Follows
<1> QED BY <1>7, Zenon DEF m

(* Whole-Wasm: a cancellation changes the status, a run the module too. *)
LEMMA WasmStatusFollows ==
    ASSUME NEW l, NEW slot \in Slots, SessionOK(l), Owns(l.kind, slot, l),
           ~Over(l), l.kind = "wasm", NEW st \in {"Returned", "Failed", "Cancelled"},
           NEW m, m \in Sessions, m.kind = l.kind, m.status = st,
           \/ m.target = l.target
           \/ m.target # NoTarget /\ m.target = Ran(m.target.sequence),
           m.generation = l.generation, m.execution = l.execution
    PROVE  Follows(l, m, slot)
<1>1. l.kind \in Kinds /\ l \in Sessions
  BY TargetOf, Zenon
<1>2. SessionOK(m)
  BY Zenon DEF SessionOK, Over
<1>3. Owns(l.kind, slot, m)
  BY <1>1, <1>2, OwnsStill, Zenon DEF Over, SessionOK
<1> QED BY <1>1, <1>2, <1>3, SameExecution, Zenon

(* One more run of a module. *)
LEMMA RanAgain ==
    ASSUME NEW t \in Targets, t = Ran(t.sequence), t.sequence < MaxRuns
    PROVE  LET u == [t EXCEPT !.sequence = @ + 1, !.terminal = @ + 1]
           IN  u \in Targets /\ u = Ran(u.sequence)
<1>1. PICK n \in 0..MaxRuns : n = t.sequence
  BY Zenon DEF Targets
<1>2. n + 1 \in 0..MaxRuns /\ n + 1 \in Nat
  BY <1>1, LiveSessionAssumption
<1>3. t.terminal = n
  BY <1>1, Zenon DEF Ran, NewTarget
<1>4. PICK u : u = [t EXCEPT !.sequence = n + 1, !.terminal = n + 1]
  BY Zenon
<1>5. u \in Targets /\ u.sequence = n + 1
  BY <1>2, <1>4, Zenon DEF Targets
<1>6. u = Ran(n + 1)
  BY <1>1, <1>4, Zenon DEF Ran, NewTarget
<1> QED BY <1>1, <1>3, <1>4, <1>5, <1>6, Zenon

-----------------------------------------------------------------------------
(* The steps of the specification.                                          *)

(* The session of s, and its slot, are what an operation makes of them. *)
Operated(s) ==
    /\ s \in DOMAIN live
    /\ \E m, slot :
          /\ live' = [live EXCEPT ![s] = m]
          /\ hub' = [hub EXCEPT ![Slot(s)] = slot]
          /\ Follows(live[s], m, slot)
    /\ UNCHANGED <<owner, seen>>

(* The session an operation finds, and its slot. *)
LEMMA Found ==
    ASSUME LiveInv, NEW s \in DOMAIN live
    PROVE  /\ SessionOK(live[s]) /\ live[s].kind \in Kinds /\ s \in Ids
           /\ Slot(s) \in Kinds \X Ids
           /\ hub[Slot(s)] \in Slots /\ Owns(live[s].kind, hub[Slot(s)], live[s])
           /\ hub = [hub EXCEPT ![Slot(s)] = hub[Slot(s)]]
           /\ live = [live EXCEPT ![s] = live[s]]
<1>1. SessionOK(live[s]) /\ s \in Ids /\ hub \in [Kinds \X Ids -> Slots] /\ HubOK
  BY Zenon DEF LiveInv
<1>2. live[s].kind \in Kinds
  BY <1>1, TargetOf, Zenon
<1>3. Slot(s) \in Kinds \X Ids
  BY <1>1, <1>2, Zenon DEF Slot
<1>4. hub[Slot(s)] \in Slots
  BY <1>1, <1>3, Zenon
<1>5. Owns(live[s].kind, hub[Slot(s)], live[s])
  BY <1>1, <1>2, Zenon DEF HubOK, Slot
<1>6. hub = [hub EXCEPT ![Slot(s)] = hub[Slot(s)]]
  BY <1>1, <1>3, Zenon
<1>7. live = [live EXCEPT ![s] = live[s]]
  BY Zenon DEF LiveInv
<1> QED BY <1>1, <1>2, <1>3, <1>4, <1>5, <1>6, <1>7, Zenon

(* An operation that leaves the hub alone. *)
LEMMA HubUntouched ==
    ASSUME LiveInv, NEW s \in DOMAIN live, NEW m,
           live' = [live EXCEPT ![s] = m], UNCHANGED <<owner, hub, seen>>,
           Follows(live[s], m, hub[Slot(s)])
    PROVE  Operated(s)
<1>1. hub' = [hub EXCEPT ![Slot(s)] = hub[Slot(s)]]
  BY Found, Zenon
<1> QED BY <1>1, Zenon DEF Operated

(* The commands of the two controllers. *)
LEMMA ControlOperates ==
    ASSUME LiveInv, NEW s \in Ids,
           Snapshot(s) \/ Step(s) \/ Pause(s) \/ cancel(s)
    PROVE  Operated(s)
<1>1. ASSUME Controlled(s) PROVE s \in DOMAIN live /\ ~Over(live[s]) /\ live[s].kind # "wasm"
  BY <1>1, Zenon DEF Controlled, dispatch, Over
<1>2. CASE Snapshot(s)
  <2>1. /\ Controlled(s) /\ live' = [live EXCEPT ![s] = snapshot_payload(live[s])]
        /\ UNCHANGED <<owner, hub, seen>>
    BY <1>2, Zenon DEF Snapshot, Becomes
  <2> QED BY <1>1, <2>1, Found, SnapshotFollows, HubUntouched, Zenon
<1>3. ASSUME NEW d \in Directives, Directed(s, d) PROVE Operated(s)
  <2> DEFINE l == live[s]
             stepped(t) == sync_status([l EXCEPT !.target = t])
             m(t) == IF d = "Terminate"
                     THEN [stepped(t) EXCEPT !.status = "Cancelled", !.pending = NoSource]
                     ELSE stepped(t)
             dir == IF takes_directive(l.kind, l.target) THEN "Continue" ELSE d
             slot == [hub[Slot(s)] EXCEPT !.directive = dir]
  <2>1. /\ Controlled(s) /\ live[s].target # NoTarget
        /\ \E t \in step(l.kind, l.target, d) : live' = [live EXCEPT ![s] = m(t)]
        /\ hub' = [hub EXCEPT ![Slot(s)].directive = dir]
        /\ UNCHANGED <<owner, seen>>
    BY <1>3, Zenon DEF Directed, Becomes, Driven
  <2>2. PICK t \in step(l.kind, l.target, d) : live' = [live EXCEPT ![s] = m(t)]
    BY <2>1, Zenon
  <2>3. Follows(l, m(t), slot)
    BY <1>1, <2>1, Found, DirectedFollows, Zenon
  <2>4. hub' = [hub EXCEPT ![Slot(s)] = slot]
    BY <1>1, <2>1, Found, Zenon
  <2> HIDE DEF m, slot, dir
  <2> QED BY <1>1, <2>1, <2>2, <2>3, <2>4, Zenon DEF Operated
<1>4. {"StepNext", "Suspend", "Terminate"} \subseteq Directives
  BY Zenon DEF Directives
<1> QED BY <1>2, <1>3, <1>4, Zenon DEF Step, Pause, cancel

(* run_target and resume. *)
LEMMA RunOperates ==
    ASSUME LiveInv, NEW s \in Ids,
           \/ \E limit \in 0..MaxBoundaries : run_target(s, limit)
           \/ \E given \in BOOLEAN : resume(s, given)
    PROVE  Operated(s)
<1> DEFINE l == live[s]
<1>1. ASSUME Driven(s)
      PROVE  s \in DOMAIN live /\ ~Over(l) /\ l.kind # "wasm" /\ l.target # NoTarget
  BY <1>1, Zenon DEF Driven, Controlled, dispatch, Over
<1>2. ASSUME NEW limit \in 0..MaxBoundaries, run_target(s, limit) PROVE Operated(s)
  <2>1. /\ Driven(s)
        /\ \E t \in run(l.kind, [l.target EXCEPT !.paused = FALSE], limit) :
              live' = [live EXCEPT ![s] = sync_status([l EXCEPT !.target = t])]
        /\ UNCHANGED <<owner, hub, seen>>
    BY <1>2, Zenon DEF run_target, Becomes
  <2>2. PICK t \in run(l.kind, [l.target EXCEPT !.paused = FALSE], limit) :
              live' = [live EXCEPT ![s] = sync_status([l EXCEPT !.target = t])]
    BY <2>1, Zenon
  <2>3. limit \in Nat
    BY LiveSessionAssumption
  <2>4. Follows(l, sync_status([l EXCEPT !.target = t]), hub[Slot(s)])
    BY <1>1, <2>1, <2>2, <2>3, Found, RunFollows, Zenon
  <2> QED BY <1>1, <2>1, <2>2, <2>4, HubUntouched, Zenon
<1>3. ASSUME NEW given \in BOOLEAN, resume(s, given) PROVE Operated(s)
  <2>1. Driven(s) /\ UNCHANGED <<owner, hub, seen>>
    BY <1>3, Zenon DEF resume
  <2>2. CASE l.target.state = "Suspended"
    <3>1. \E u \in settle(l.kind, l.target) :
              live' = [live EXCEPT ![s] = sync_status([l EXCEPT !.target = u])]
      BY <1>3, <2>2, Zenon DEF resume, Becomes
    <3>2. PICK u \in settle(l.kind, l.target) :
              live' = [live EXCEPT ![s] = sync_status([l EXCEPT !.target = u])]
      BY <3>1, Zenon
    <3>3. Follows(l, sync_status([l EXCEPT !.target = u]), hub[Slot(s)])
      BY <1>1, <2>1, <2>2, <3>2, Found, SettleFollows, Zenon
    <3> QED BY <1>1, <2>1, <3>2, <3>3, HubUntouched, Zenon
  <2>3. CASE l.target.state # "Suspended"
    <3> DEFINE m == snapshot_payload(IF l.target.paused
                                     THEN sync_status([l EXCEPT !.target.paused = FALSE])
                                     ELSE l)
    <3>1. live' = [live EXCEPT ![s] = m]
      BY <1>3, <2>3, Zenon DEF resume, Becomes
    <3>2. Follows(l, m, hub[Slot(s)])
      BY <1>1, <2>1, Found, ContinueFollows, Zenon
    <3> HIDE DEF m
    <3> QED BY <1>1, <2>1, <3>1, <3>2, HubUntouched, Zenon
  <2> QED BY <2>2, <2>3, Zenon
<1> QED BY <1>2, <1>3, Zenon

(* A promise settled by a command or by its producer. *)
LEMMA SettlementOperates ==
    ASSUME LiveInv, NEW s \in Ids, resolve(s) \/ producer_settles(s)
    PROVE  Operated(s)
<1> DEFINE l == live[s]
           m == [l EXCEPT !.target.promise = "Settled"]
<1>1. /\ s \in DOMAIN live /\ l.target # NoTarget /\ l.target.promise = "Pending"
      /\ live' = [live EXCEPT ![s].target.promise = "Settled"]
      /\ UNCHANGED <<owner, hub, seen>>
  BY Zenon DEF resolve, producer_settles, Settled, Driven, Controlled, dispatch
<1>2. live' = [live EXCEPT ![s] = m]
  BY <1>1, Zenon
<1>3. Follows(l, m, hub[Slot(s)])
  BY <1>1, Found, SettledFollows, Zenon
<1> HIDE DEF m
<1> QED BY <1>1, <1>2, <1>3, HubUntouched, Zenon

(* restart, as an operation. *)
LEMMA RestartOperates ==
    ASSUME LiveInv, NEW s \in DOMAIN live, ~Over(live[s]), live[s].kind # "wasm",
           live[s].generation < MaxGeneration, NEW src \in Sources, restart(s, src),
           UNCHANGED <<owner, seen>>
    PROVE  Operated(s)
<1> DEFINE l      == live[s]
           free   == remove_target(l, hub[Slot(s)])
           slot   == install_target(l.kind, free, src \in Valid)
           loaded == installed(l.kind, free, slot)
           after  == Restarted(l, src, loaded)
           m      == IF loaded THEN snapshot_payload(after) ELSE after
<1>1. live' = [live EXCEPT ![s] = m] /\ hub' = [hub EXCEPT ![Slot(s)] = slot]
  BY Zenon DEF restart, Becomes, Restarted
<1>2. Follows(l, m, slot)
  BY Found, RestartFollows, Zenon
<1> HIDE DEF m, slot
<1> QED BY <1>1, <1>2, Zenon DEF Operated

(* A replacement of a whole-Wasm module, which may not load. *)
LEMMA WasmRestartOperates ==
    ASSUME LiveInv, NEW s \in DOMAIN live, ~Over(live[s]), live[s].kind = "wasm",
           live[s].generation < MaxGeneration, NEW src \in Sources, NEW loads \in BOOLEAN,
           wasm_restart(s, src, loads), UNCHANGED <<owner, seen>>
    PROVE  Operated(s) \/ UNCHANGED vars
<1> DEFINE l == live[s]
           m == [l EXCEPT !.source = src, !.pending = NoSource,
                          !.generation = @ + 1, !.execution = @ + 1,
                          !.target = NewTarget, !.status = "Ready"]
<1>1. CASE loads
  <2>1. live' = [live EXCEPT ![s] = m] /\ UNCHANGED hub
    BY <1>1, Zenon DEF wasm_restart, Becomes
  <2>2. Follows(l, m, hub[Slot(s)])
    BY Found, WasmRestartFollows, Zenon
  <2> HIDE DEF m
  <2> QED BY <2>1, <2>2, HubUntouched, Zenon
<1>2. CASE ~loads
  BY <1>2, Zenon DEF wasm_restart, vars
<1> QED BY <1>1, <1>2, Zenon

(* Update, Queue and reset. *)
LEMMA ReplacementOperates ==
    ASSUME LiveInv, NEW s \in Ids,
           \/ \E src \in Sources : Update(s, src) \/ Queue(s, src)
           \/ reset(s)
    PROVE  Operated(s) \/ UNCHANGED vars
<1> DEFINE l == live[s]
<1>1. ASSUME dispatch(s, "Update") \/ dispatch(s, "Reset")
      PROVE  s \in DOMAIN live /\ ~Over(l)
  BY <1>1, Zenon DEF dispatch, Over
<1>2. ASSUME NEW src \in Sources, Update(s, src) PROVE Operated(s) \/ UNCHANGED vars
  <2>1. /\ s \in DOMAIN live /\ ~Over(l) /\ l.generation < MaxGeneration
        /\ UNCHANGED <<owner, seen>>
    BY <1>1, <1>2, Zenon DEF Update
  <2>2. CASE l.kind = "wasm"
    <3>1. wasm_restart(s, src, src \in Valid)
      BY <1>2, <2>2, Zenon DEF Update
    <3>2. wasm_restart(s, src, TRUE) \/ wasm_restart(s, src, FALSE)
      BY <3>1, Zenon DEF wasm_restart
    <3> QED BY <2>1, <2>2, <3>2, WasmRestartOperates, Zenon
  <2>3. CASE l.kind # "wasm"
    <3>1. restart(s, src)
      BY <1>2, <2>3, Zenon DEF Update
    <3> QED BY <2>1, <2>3, <3>1, RestartOperates, Zenon
  <2> QED BY <2>2, <2>3, Zenon
<1>3. ASSUME NEW src \in Sources, Queue(s, src) PROVE Operated(s)
  <2> DEFINE m == [l EXCEPT !.pending = src]
  <2>1. /\ s \in DOMAIN live /\ ~Over(l) /\ live' = [live EXCEPT ![s] = m]
        /\ UNCHANGED <<owner, hub, seen>>
    BY <1>1, <1>3, Zenon DEF Queue
  <2>2. Follows(l, m, hub[Slot(s)])
    BY <2>1, Found, QueueFollows, Zenon
  <2> HIDE DEF m
  <2> QED BY <2>1, <2>2, HubUntouched, Zenon
<1>4. ASSUME reset(s) PROVE Operated(s) \/ UNCHANGED vars
  <2> DEFINE src == IF l.pending # NoSource THEN l.pending ELSE l.source
             ok  == l.pending = NoSource \/ l.pending \in Valid
             m   == [l EXCEPT !.pending = NoSource]
  <2>1. /\ s \in DOMAIN live /\ ~Over(l) /\ l.generation < MaxGeneration
        /\ UNCHANGED <<owner, seen>>
    BY <1>1, <1>4, Zenon DEF reset
  <2>2. src \in Sources
    BY <2>1, Found, TargetOf DEF Sessions
  <2>3. CASE l.kind # "wasm"
    <3>1. restart(s, src)
      BY <1>4, <2>3, Zenon DEF reset
    <3> HIDE DEF src
    <3> QED BY <2>1, <2>2, <2>3, <3>1, RestartOperates, Zenon
  <2>4. CASE l.kind = "wasm" /\ ok
    <3>1. wasm_restart(s, src, TRUE)
      BY <1>4, <2>4, Zenon DEF reset
    <3> HIDE DEF src
    <3> QED BY <2>1, <2>2, <2>4, <3>1, WasmRestartOperates, Zenon
  <2>5. CASE l.kind = "wasm" /\ ~ok
    <3>1. live' = [live EXCEPT ![s] = m] /\ UNCHANGED hub
      BY <1>4, <2>5, Zenon DEF reset, Becomes
    <3>2. Follows(l, m, hub[Slot(s)])
      BY <2>1, Found, QueueFollows, Zenon
    <3> HIDE DEF m
    <3> QED BY <2>1, <3>1, <3>2, HubUntouched, Zenon
  <2> QED BY <2>3, <2>4, <2>5, Zenon
<1> QED BY <1>2, <1>3, <1>4, Zenon

(* The results and the cancellation of a whole-Wasm session. *)
LEMMA WasmOperates ==
    ASSUME LiveInv, NEW s \in Ids,
           \/ \E result \in {"Returned", "Failed"} : wasm_run(s, result)
           \/ wasm_cancel(s)
    PROVE  Operated(s)
<1> DEFINE l == live[s]
<1>1. CASE wasm_cancel(s)
  <2> DEFINE m == [l EXCEPT !.status = "Cancelled", !.pending = NoSource]
  <2>1. /\ s \in DOMAIN live /\ ~Over(l) /\ l.kind = "wasm" /\ UNCHANGED <<owner, hub, seen>>
        /\ live' = [live EXCEPT ![s] = m]
    BY <1>1, Zenon DEF wasm_cancel, dispatch, Over
  <2>a. PICK n \in Sessions : n = l
    BY <2>1, Found, TargetOf, Zenon
  <2>2. /\ m \in Sessions /\ m.kind = l.kind /\ m.target = l.target /\ m.status = "Cancelled"
        /\ m.generation = l.generation /\ m.execution = l.execution
    BY <2>a, Zenon DEF Sessions, Statuses
  <2> HIDE DEF m
  <2>3. Follows(l, m, hub[Slot(s)])
    BY <2>1, <2>2, Found, WasmStatusFollows, Zenon
  <2> QED BY <2>1, <2>3, HubUntouched, Zenon
<1>2. ASSUME NEW result \in {"Returned", "Failed"}, wasm_run(s, result) PROVE Operated(s)
  <2> DEFINE ran == [l EXCEPT !.target.sequence = @ + 1]
             m == [ran EXCEPT !.target.terminal = @ + 1, !.status = result]
             t == [l.target EXCEPT !.sequence = @ + 1, !.terminal = @ + 1]
  <2>1. s \in DOMAIN live /\ ~Over(l) /\ l.kind = "wasm" /\ l.target.sequence < MaxRuns
    BY <1>2, Zenon DEF wasm_run, dispatch, Over
  <2>2. /\ l \in Sessions /\ l.target # NoTarget /\ l.target \in Targets
        /\ l.target = Ran(l.target.sequence) /\ hub[Slot(s)].target
    BY <2>1, Found, Zenon DEF SessionOK, Sessions, Over, Owns
  <2>4. /\ s \in DOMAIN live /\ ~Over(l) /\ l.kind = "wasm" /\ UNCHANGED <<owner, hub, seen>>
        /\ live' = [live EXCEPT ![s] = m]
    BY <1>2, <2>1, <2>2, Zenon DEF wasm_run, Becomes
  <2>5. t \in Targets /\ t = Ran(t.sequence)
    BY <2>1, <2>2, RanAgain, Zenon
  <2>6. m = [l EXCEPT !.target = t, !.status = result]
    BY <2>2, Zenon DEF Sessions, Targets
  <2> HIDE DEF t, m, ran
  <2>3. PICK n \in Sessions : n = l
    BY <2>2, Zenon
  <2>7. /\ m \in Sessions /\ m.kind = l.kind /\ m.target = t /\ m.status = result
        /\ m.generation = l.generation /\ m.execution = l.execution
    BY <2>5, <2>6, <2>3, Zenon DEF Sessions, Statuses
  <2>8. t # NoTarget
    BY <2>5, NoTargetAssumption, Zenon
  <2>9. Follows(l, m, hub[Slot(s)])
    BY <2>4, <2>7, <2>5, <2>8, Found, WasmStatusFollows, Zenon
  <2> QED BY <2>4, <2>9, HubUntouched, Zenon
<1> QED BY <1>1, <1>2, Zenon

(* Dispose. *)
LEMMA DisposeOperates ==
    ASSUME LiveInv, NEW s \in Ids, dispose(s)
    PROVE  Operated(s)
<1> DEFINE l == live[s]
<1>1. /\ s \in DOMAIN live /\ UNCHANGED <<owner, seen>>
      /\ live' = [live EXCEPT ![s] = disposed(l)]
      /\ hub' = IF l.status = "Disposed" THEN hub
                ELSE [hub EXCEPT ![Slot(s)] = detach_instrument(l, hub[Slot(s)])]
  BY Zenon DEF dispose, dispatch, Becomes
<1>2. CASE l.status = "Disposed"
  <2>1. live' = [live EXCEPT ![s] = l] /\ Follows(l, l, hub[Slot(s)])
    BY <1>1, <1>2, Found, DisposeFollows, Zenon
  <2> QED BY <1>1, <1>2, <2>1, HubUntouched, Zenon
<1>3. CASE l.status # "Disposed"
  <2>1. Follows(l, disposed(l), detach_instrument(l, hub[Slot(s)]))
    BY <1>1, <1>3, Found, DisposeFollows, Zenon
  <2> QED BY <1>1, <1>3, <2>1, Zenon DEF Operated
<1> QED BY <1>2, <1>3, Zenon

(* An operation keeps the invariant. *)
LEMMA OperatedInv ==
    ASSUME LiveInv, NEW s, Operated(s)
    PROVE  LiveInv'
<1> DEFINE l == live[s]
<1>1. PICK m, slot : /\ live' = [live EXCEPT ![s] = m]
                     /\ hub' = [hub EXCEPT ![Slot(s)] = slot]
                     /\ Follows(l, m, slot)
  BY Zenon DEF Operated
<1>2. s \in DOMAIN live /\ owner' = owner /\ seen' = seen
  BY Zenon DEF Operated
<1>3. /\ SessionOK(l) /\ l.kind \in Kinds /\ s \in Ids /\ Slot(s) \in Kinds \X Ids
      /\ Slot(s) = <<l.kind, s>>
  BY <1>2, Found, Zenon DEF Slot
<1>4. /\ DOMAIN live' = DOMAIN live /\ live'[s] = m
      /\ \A x \in DOMAIN live : x # s => live'[x] = live[x]
      /\ live' = [x \in DOMAIN live' |-> live'[x]]
  BY <1>1, <1>2, Zenon
<1>5. SessionOK(m) /\ m.kind = l.kind /\ slot \in Slots /\ Owns(l.kind, slot, m)
  BY <1>1, Zenon DEF Follows
<1>6. \A x \in DOMAIN live' : SessionOK(live'[x])
  BY <1>4, <1>5, Zenon DEF LiveInv
<1>7. /\ hub' \in [Kinds \X Ids -> Slots] /\ hub'[l.kind, s] = slot
      /\ \A k \in Kinds, x \in Ids : k # l.kind \/ x # s => hub'[k, x] = hub[k, x]
  <2>1. hub \in [Kinds \X Ids -> Slots]
    BY Zenon DEF LiveInv
  <2>2. \A k \in Kinds, x \in Ids : k # l.kind \/ x # s => <<k, x>> # Slot(s)
    BY <1>3
  <2> QED BY <1>1, <1>3, <1>5, <2>1, <2>2, Zenon
<1>8. HubOK'
  <2> SUFFICES ASSUME NEW k \in Kinds, NEW x \in Ids
               PROVE  IF x \in DOMAIN live' /\ live'[x].kind = k
                      THEN Owns(k, hub'[k, x], live'[x])
                      ELSE Unowned(k, hub[k, x])'
    BY Zenon DEF HubOK
  <2>1. IF x \in DOMAIN live /\ live[x].kind = k THEN Owns(k, hub[k, x], live[x])
        ELSE Unowned(k, hub[k, x])
    BY Zenon DEF LiveInv, HubOK
  <2>2. CASE k = l.kind /\ x = s
    BY <1>2, <1>4, <1>5, <1>7, <2>2, Zenon
  <2>3. CASE ~(k = l.kind /\ x = s)
    <3>1. hub'[k, x] = hub[k, x]
      BY <1>7, <2>3, Zenon
    <3>2. x \in DOMAIN live' /\ live'[x].kind = k <=> x \in DOMAIN live /\ live[x].kind = k
      BY <1>4, <1>5, <2>3, Zenon
    <3>3. x \in DOMAIN live /\ live[x].kind = k => live'[x] = live[x]
      BY <1>4, <2>3, Zenon
    <3>4. Unowned(k, hub[k, x]) => Unowned(k, hub[k, x])'
      BY <1>2, <3>1, Zenon DEF Unowned
    <3> QED BY <2>1, <3>1, <3>2, <3>3, <3>4, Zenon
  <2> QED BY <2>2, <2>3, Zenon
<1>9. FencesOK'
  <2> SUFFICES ASSUME NEW f \in seen
               PROVE  IF f.session \in DOMAIN live'
                      THEN /\ f.generation <= live'[f.session].generation
                           /\ f.generation = live'[f.session].generation =>
                                f.execution = live'[f.session].execution
                      ELSE owner' = "Closed"
    BY <1>2, Zenon DEF FencesOK
  <2>1. IF f.session \in DOMAIN live
        THEN /\ f.generation <= live[f.session].generation
             /\ f.generation = live[f.session].generation =>
                  f.execution = live[f.session].execution
        ELSE owner = "Closed"
    BY Zenon DEF LiveInv, FencesOK
  <2>2. f.generation \in Nat /\ l.generation \in Nat
    BY <1>3 DEF LiveInv, Fences, SessionOK, Sessions
  <2>3. CASE f.session = s
    <3>1. \/ m.generation = l.generation /\ m.execution = l.execution
          \/ m.generation = l.generation + 1
      BY <1>1, Zenon DEF Follows
    <3> QED BY <1>2, <1>4, <2>1, <2>2, <2>3, <3>1
  <2>4. CASE f.session # s
    BY <1>2, <1>4, <2>1, <2>4, Zenon
  <2> QED BY <2>3, <2>4, Zenon
<1> QED BY <1>2, <1>4, <1>6, <1>7, <1>8, <1>9, Zenon DEF LiveInv

(* What install_target makes of a slot no session uses. *)
LEMMA StartOwns ==
    ASSUME NEW k \in Kinds, NEW before \in Slots, Unowned(k, before), owner = "Active",
           NEW loads \in BOOLEAN, NEW src \in Sources
    PROVE  LET after == install_target(k, before, loads)
               slot  == [after EXCEPT !.instrument = (k # "wasm")]
           IN  /\ after \in Slots /\ slot \in Slots
               /\ installed(k, before, after) => Owns(k, slot, NewSession(k, src))
               /\ ~installed(k, before, after) => Unowned(k, after)
<1> DEFINE after == install_target(k, before, loads)
           slot  == [after EXCEPT !.instrument = (k # "wasm")]
<1>1. /\ after \in Slots /\ after.directive = "Continue" /\ ~after.instrument
      /\ installed(k, before, after) => after.target /\ (after.lease <=> k # "wasm")
      /\ ~installed(k, before, after) => ~after.lease /\ (after.target => k = "hbc")
  <2>1. CASE before.target
    BY <2>1, Zenon DEF install_target, installed, Unowned
  <2>2. CASE ~before.target /\ loads
    <3> DEFINE new == [before EXCEPT !.target = TRUE, !.lease = (k # "wasm")]
    <3>1. after = new
      BY <2>2, Zenon DEF install_target
    <3>2. /\ new \in Slots /\ new.instrument = before.instrument
          /\ new.directive = before.directive /\ new.target /\ new.lease = (k # "wasm")
      BY Zenon DEF Slots
    <3> HIDE DEF new, after
    <3> QED BY <2>2, <3>1, <3>2, Zenon DEF installed, Unowned
  <2>3. CASE ~before.target /\ ~loads
    <3> DEFINE new == [before EXCEPT !.target = (k = "hbc")]
    <3>1. after = new
      BY <2>3, Zenon DEF install_target
    <3>2. /\ new \in Slots /\ new.instrument = before.instrument
          /\ new.directive = before.directive /\ new.target = (k = "hbc")
          /\ new.lease = before.lease
      BY Zenon DEF Slots
    <3> HIDE DEF new, after
    <3> QED BY <2>3, <3>1, <3>2, Zenon DEF installed, Unowned
  <2> QED BY <2>1, <2>2, <2>3, Zenon
<1> HIDE DEF after
<1>2. /\ slot \in Slots /\ slot.directive = after.directive /\ slot.instrument = (k # "wasm")
      /\ slot.target = after.target /\ slot.lease = after.lease
  BY <1>1, Zenon DEF Slots
<1> HIDE DEF slot
<1>3. /\ NewSession(k, src).target = NewTarget /\ NewTarget # NoTarget
      /\ NewSession(k, src).status = "Ready"
  BY NewTargetGood, Zenon DEF NewSession
<1>4. installed(k, before, after) => Owns(k, slot, NewSession(k, src))
  BY <1>1, <1>2, <1>3, Zenon DEF Owns
<1>5. ~installed(k, before, after) => Unowned(k, after)
  BY <1>1, Zenon DEF Unowned
<1> QED BY <1>1, <1>2, <1>4, <1>5, Zenon DEF slot, after

(* start_*_live_session, whether the source loads or not. *)
LEMMA StartInv ==
    ASSUME LiveInv, NEW s \in Ids, NEW k \in Kinds, NEW src \in Sources,
           NEW artifact \in BOOLEAN, start(s, k, src, artifact)
    PROVE  LiveInv'
<1> DEFINE before == hub[k, s]
           loads == src \in Valid \/ artifact
           after == install_target(k, before, loads)
           slot == [after EXCEPT !.instrument = (k # "wasm")]
           new == NewSession(k, src)
<1>1. /\ owner = "Active" /\ s \notin DOMAIN live /\ owner' = owner /\ seen' = seen
      /\ hub \in [Kinds \X Ids -> Slots] /\ HubOK /\ FencesOK
  BY Zenon DEF start, LiveInv
<1>2. before \in Slots /\ Unowned(k, before) /\ loads \in BOOLEAN
  BY <1>1, Zenon DEF HubOK
<1>3. /\ after \in Slots /\ slot \in Slots
      /\ installed(k, before, after) => Owns(k, slot, new)
      /\ ~installed(k, before, after) => Unowned(k, after)
  BY <1>1, <1>2, StartOwns, Zenon
<1>4. ASSUME NEW v \in Slots, hub' = [hub EXCEPT ![<<k, s>>] = v]
      PROVE  /\ hub' \in [Kinds \X Ids -> Slots] /\ hub'[k, s] = v
             /\ \A j \in Kinds, x \in Ids : j # k \/ x # s => hub'[j, x] = hub[j, x]
  BY <1>1, <1>4, Zenon
<1>5. ASSUME NEW j \in Kinds, NEW x \in Ids, x # s \/ j # k, hub'[j, x] = hub[j, x],
             x # s => (x \in DOMAIN live' <=> x \in DOMAIN live),
             x \in DOMAIN live /\ x # s => live'[x] = live[x],
             s \in DOMAIN live' => live'[s].kind = k
      PROVE  IF x \in DOMAIN live' /\ live'[x].kind = j
             THEN Owns(j, hub'[j, x], live'[x])
             ELSE Unowned(j, hub[j, x])'
  <2>1. IF x \in DOMAIN live /\ live[x].kind = j THEN Owns(j, hub[j, x], live[x])
        ELSE Unowned(j, hub[j, x])
    BY <1>1, Zenon DEF HubOK
  <2>2. Unowned(j, hub[j, x]) => Unowned(j, hub[j, x])'
    BY <1>1, <1>5, Zenon DEF Unowned
  <2>3. CASE x = s
    BY <1>1, <1>5, <2>1, <2>2, <2>3, Zenon
  <2>4. CASE x # s
    BY <1>5, <2>1, <2>2, <2>4, Zenon
  <2> QED BY <2>3, <2>4, Zenon
<1>6. CASE installed(k, before, after)
  <2>1. /\ hub' = [hub EXCEPT ![<<k, s>>] = slot]
        /\ live' = [x \in DOMAIN live \cup {s} |-> IF x = s THEN new ELSE live[x]]
    BY <1>6, Zenon DEF start
  <2>2. /\ new \in Sessions /\ new.kind = k /\ new.target = NewTarget /\ new.status = "Ready"
    <3>1. NewTarget \in Targets
      BY NewTargetGood, Zenon DEF GoodTargets
    <3> QED BY <3>1, LiveSessionAssumption DEF NewSession, Sessions, Statuses
  <2>3. SessionOK(new)
    BY <2>2, NewTargetGood, NewTargetRan, Zenon DEF SessionOK, StatusSays, GoodTargets
  <2> HIDE DEF new, slot, after
  <2>4. /\ DOMAIN live' = DOMAIN live \cup {s} /\ live'[s] = new
        /\ \A x \in DOMAIN live : live'[x] = live[x]
        /\ live' = [x \in DOMAIN live' |-> live'[x]]
    BY <1>1, <2>1, Zenon
  <2>5. \A x \in DOMAIN live' : SessionOK(live'[x])
    BY <2>3, <2>4, Zenon DEF LiveInv
  <2>6. /\ hub' \in [Kinds \X Ids -> Slots] /\ hub'[k, s] = slot
        /\ \A j \in Kinds, x \in Ids : j # k \/ x # s => hub'[j, x] = hub[j, x]
    BY <1>3, <1>4, <2>1, Zenon
  <2>7. HubOK'
    <3> SUFFICES ASSUME NEW j \in Kinds, NEW x \in Ids
                 PROVE  IF x \in DOMAIN live' /\ live'[x].kind = j
                        THEN Owns(j, hub'[j, x], live'[x])
                        ELSE Unowned(j, hub[j, x])'
      BY ZenonT(60) DEF HubOK
    <3>1. CASE j = k /\ x = s
      BY <1>3, <1>6, <2>2, <2>4, <2>6, <3>1, Zenon
    <3>2. CASE ~(j = k /\ x = s)
      BY <1>5, <2>2, <2>4, <2>6, <3>2, Zenon
    <3> QED BY <3>1, <3>2, Zenon
  <2>8. FencesOK'
    <3>1. \A f \in seen : f.session \in DOMAIN live
      BY <1>1, Zenon DEF FencesOK
    <3> QED BY <1>1, <2>4, <3>1, Zenon DEF FencesOK
  <2> QED BY <1>1, <2>4, <2>5, <2>6, <2>7, <2>8, Zenon DEF LiveInv
<1>7. CASE ~installed(k, before, after)
  <2>1. hub' = [hub EXCEPT ![<<k, s>>] = after] /\ live' = live
    BY <1>7, Zenon DEF start
  <2> HIDE DEF new, slot, after
  <2>2. /\ hub' \in [Kinds \X Ids -> Slots] /\ hub'[k, s] = after
        /\ \A j \in Kinds, x \in Ids : j # k \/ x # s => hub'[j, x] = hub[j, x]
    BY <1>3, <1>4, <2>1, Zenon
  <2>3. HubOK'
    <3> SUFFICES ASSUME NEW j \in Kinds, NEW x \in Ids
                 PROVE  IF x \in DOMAIN live' /\ live'[x].kind = j
                        THEN Owns(j, hub'[j, x], live'[x])
                        ELSE Unowned(j, hub[j, x])'
      BY ZenonT(60) DEF HubOK
    <3>1. CASE j = k /\ x = s
      <4>1. Unowned(k, hub[k, s])'
        BY <1>1, <1>3, <1>7, <2>2, Zenon DEF Unowned
      <4> QED BY <1>1, <2>1, <3>1, <4>1, Zenon
    <3>2. CASE ~(j = k /\ x = s)
      BY <1>1, <1>5, <2>1, <2>2, <3>2, Zenon
    <3> QED BY <3>1, <3>2, Zenon
  <2>4. FencesOK'
    BY <1>1, <2>1, Zenon DEF FencesOK
  <2>5. /\ owner' \in {"Active", "Closed"} /\ DOMAIN live' \subseteq Ids
        /\ owner' = "Closed" => DOMAIN live' = {}
        /\ live' = [x \in DOMAIN live' |-> live'[x]]
        /\ \A x \in DOMAIN live' : SessionOK(live'[x])
        /\ seen' \subseteq Fences
    <3>1. /\ owner \in {"Active", "Closed"} /\ DOMAIN live \subseteq Ids
          /\ owner = "Closed" => DOMAIN live = {}
          /\ live = [x \in DOMAIN live |-> live[x]]
          /\ \A x \in DOMAIN live : SessionOK(live[x])
          /\ seen \subseteq Fences
      BY Zenon DEF LiveInv
    <3> QED BY <1>1, <2>1, <3>1, Zenon
  <2> QED BY <2>2, <2>3, <2>4, <2>5, Zenon DEF LiveInv
<1> QED BY <1>6, <1>7, Zenon

(* Nothing is left in a hub that is new or gone. *)
LEMMA EmptyIsUnowned ==
    /\ EmptySlot \in Slots
    /\ ~EmptySlot.lease /\ ~EmptySlot.instrument /\ ~EmptySlot.target
    /\ EmptySlot.directive = "Continue"
BY Zenon DEF EmptySlot, Slots, Directives

(* Session::release disposes of everything. *)
LEMMA ReleaseInv ==
    ASSUME LiveInv, release
    PROVE  LiveInv'
<1>1. /\ owner' = "Closed" /\ live' = [s \in {} |-> NoTarget] /\ seen' = seen
      /\ hub' = [k \in Kinds \X Ids |-> EmptySlot]
  BY Zenon DEF release
<1>2. DOMAIN live' = {} /\ live' = [s \in DOMAIN live' |-> live'[s]]
  BY <1>1, Zenon
<1>3. hub' \in [Kinds \X Ids -> Slots]
  BY <1>1, EmptyIsUnowned, Zenon
<1>4. HubOK'
  <2> SUFFICES ASSUME NEW j \in Kinds, NEW x \in Ids
               PROVE  IF x \in DOMAIN live' /\ live'[x].kind = j
                      THEN Owns(j, hub'[j, x], live'[x])
                      ELSE Unowned(j, hub[j, x])'
    BY Zenon DEF HubOK
  <2>1. hub'[j, x] = EmptySlot
    BY <1>1, Zenon
  <2> QED BY <1>2, <2>1, EmptyIsUnowned, Zenon DEF Unowned
<1>5. FencesOK'
  BY <1>1, <1>2, Zenon DEF FencesOK
<1> QED BY <1>1, <1>2, <1>3, <1>4, <1>5, Zenon DEF LiveInv

(* A client takes a fence of the session as it is. *)
LEMMA StateInv ==
    ASSUME LiveInv, NEW s \in Ids, live_session_state(s)
    PROVE  LiveInv'
<1> DEFINE f == [session |-> s, generation |-> live[s].generation,
                 revision |-> Revision[live[s].source], execution |-> live[s].execution]
<1>1. /\ s \in DOMAIN live /\ owner' = owner /\ live' = live /\ hub' = hub /\ seen' = {f}
  BY Zenon DEF live_session_state
<1>2. live[s] \in Sessions
  BY <1>1, Found, TargetOf, Zenon
<1>3. f \in Fences
  <2>1. Revision[live[s].source] \in {Revision[src] : src \in Sources}
    BY <1>2, Zenon DEF Sessions
  <2> QED BY <1>2, <2>1, Zenon DEF Fences, Sessions
<1>4. f.generation <= live[s].generation
  BY <1>2 DEF Sessions
<1>5. FencesOK'
  BY <1>1, <1>4 DEF FencesOK
<1> HIDE DEF f
<1>6. HubOK'
  <2> SUFFICES ASSUME NEW k \in Kinds, NEW x \in Ids
               PROVE  IF x \in DOMAIN live' /\ live'[x].kind = k
                      THEN Owns(k, hub'[k, x], live'[x])
                      ELSE Unowned(k, hub[k, x])'
    BY Zenon DEF HubOK
  <2>1. IF x \in DOMAIN live /\ live[x].kind = k THEN Owns(k, hub[k, x], live[x])
        ELSE Unowned(k, hub[k, x])
    BY Zenon DEF LiveInv, HubOK
  <2>2. Unowned(k, hub[k, x]) => Unowned(k, hub[k, x])'
    BY <1>1, Zenon DEF Unowned
  <2> QED BY <1>1, <2>1, <2>2, Zenon
<1> QED BY <1>1, <1>3, <1>5, <1>6, Zenon DEF LiveInv

(* A step is an operation on one session, or one of the few that are not. *)
LEMMA Steps ==
    ASSUME LiveInv, [Next]_vars
    PROVE  \/ UNCHANGED vars
           \/ release
           \/ \E s \in Ids : \/ Operated(s) \/ live_session_state(s)
                             \/ \E k \in Kinds, src \in Sources, artifact \in BOOLEAN :
                                   start(s, k, src, artifact)
<1>1. CASE Next /\ ~release
  <2>1. PICK s \in Ids :
          \/ \E k \in Kinds, src \in Sources, artifact \in BOOLEAN : start(s, k, src, artifact)
          \/ Snapshot(s) \/ Step(s) \/ Pause(s) \/ cancel(s)
          \/ \E limit \in 0..MaxBoundaries : run_target(s, limit)
          \/ \E given \in BOOLEAN : resume(s, given)
          \/ resolve(s) \/ producer_settles(s)
          \/ \E src \in Sources : Update(s, src) \/ Queue(s, src)
          \/ reset(s)
          \/ \E result \in {"Returned", "Failed"} : wasm_run(s, result)
          \/ wasm_cancel(s) \/ dispose(s) \/ live_session_state(s)
    BY <1>1, Zenon DEF Next
  <2>2. Snapshot(s) \/ Step(s) \/ Pause(s) \/ cancel(s) => Operated(s)
    BY ControlOperates, Zenon
  <2>3. \/ \E limit \in 0..MaxBoundaries : run_target(s, limit)
        \/ \E given \in BOOLEAN : resume(s, given)
        => Operated(s)
    BY RunOperates, Zenon
  <2>4. resolve(s) \/ producer_settles(s) => Operated(s)
    BY SettlementOperates, Zenon
  <2>5. \/ \E src \in Sources : Update(s, src) \/ Queue(s, src)
        \/ reset(s)
        => Operated(s) \/ UNCHANGED vars
    BY ReplacementOperates, Zenon
  <2>6. \/ \E result \in {"Returned", "Failed"} : wasm_run(s, result)
        \/ wasm_cancel(s)
        => Operated(s)
    BY WasmOperates, Zenon
  <2>7. dispose(s) => Operated(s)
    BY DisposeOperates, Zenon
  <2> QED BY <2>1, <2>2, <2>3, <2>4, <2>5, <2>6, <2>7, Zenon
<1> QED BY <1>1, Zenon DEF Next

(* A Session starts without live sessions. *)
LEMMA InitInv == Init => LiveInv
<1> SUFFICES ASSUME Init PROVE LiveInv
  BY Zenon
<1>1. /\ owner = "Active" /\ live = [s \in {} |-> NoTarget] /\ seen = {}
      /\ hub = [k \in Kinds \X Ids |-> EmptySlot]
  BY Zenon DEF Init
<1>2. DOMAIN live = {} /\ live = [s \in DOMAIN live |-> live[s]]
  BY <1>1, Zenon
<1>3. hub \in [Kinds \X Ids -> Slots]
  BY <1>1, EmptyIsUnowned, Zenon
<1>4. HubOK
  <2> SUFFICES ASSUME NEW j \in Kinds, NEW x \in Ids PROVE Unowned(j, hub[j, x])
    BY <1>2, Zenon DEF HubOK
  <2>1. hub[j, x] = EmptySlot
    BY <1>1, Zenon
  <2> QED BY <2>1, EmptyIsUnowned, Zenon DEF Unowned
<1> QED BY <1>1, <1>2, <1>3, <1>4, Zenon DEF LiveInv, FencesOK

(* Every step keeps the invariant. *)
LEMMA NextInv == LiveInv /\ [Next]_vars => LiveInv'
<1> SUFFICES ASSUME LiveInv, [Next]_vars PROVE LiveInv'
  BY Zenon
<1>1. CASE UNCHANGED vars
  <2>1. owner' = owner /\ live' = live /\ hub' = hub /\ seen' = seen
    BY <1>1, Zenon DEF vars
  <2>2. HubOK' /\ FencesOK'
    BY <2>1, Zenon DEF LiveInv, HubOK, Unowned, FencesOK
  <2> QED BY <2>1, <2>2, Zenon DEF LiveInv
<1> QED BY <1>1, Steps, ReleaseInv, OperatedInv, StateInv, StartInv, Zenon

(* The inductive invariant: the slot of every session and the slots of none,
   the status, the target and the fences (session_live.rs, live_session/). *)
THEOREM LiveInvariant == Spec => []LiveInv
<1> QED BY InitInv, NextInv, PTL DEF Spec

(* The types of the state. *)
THEOREM LiveTypes == Spec => []TypeOK
<1>1. LiveInv => TypeOK
  BY Zenon DEF LiveInv, TypeOK, SessionOK
<1> QED BY <1>1, LiveInvariant, PTL

(* Whatever the order of starts, replacements, cancellations and disposals,
   and whichever of them fail, a controller and the hub agree on the target,
   the lease, the instrument and the directive (install_target, remove_target,
   detach_instrument). *)
THEOREM ControllersOwnTargets == Spec => []ControllerOwnsTarget
<1>1. LiveInv => ControllerOwnsTarget
  <2> SUFFICES ASSUME LiveInv PROVE ControllerOwnsTarget
    BY Zenon
  <2> SUFFICES ASSUME NEW k \in Kinds, NEW s \in Ids
               PROVE  LET mine == s \in DOMAIN live /\ live[s].kind = k
                          held == mine /\ live[s].target # NoTarget
                      IN  /\ held => hub[k, s].target
                          /\ hub[k, s].lease <=> held /\ k # "wasm"
                          /\ hub[k, s].lease => hub[k, s].instrument
                          /\ hub[k, s].instrument => mine
                          /\ hub[k, s].target /\ ~held => k = "hbc" /\ owner = "Active"
                          /\ hub[k, s].directive # "Continue" =>
                               k = "hbc" /\ held /\ finished(k, live[s].target)
    BY Zenon DEF ControllerOwnsTarget
  <2>1. CASE s \in DOMAIN live /\ live[s].kind = k
    <3>1. Owns(k, hub[k, s], live[s]) /\ SessionOK(live[s])
      BY <2>1, Zenon DEF LiveInv, HubOK
    <3>2. owner = "Active"
      BY <2>1, Zenon DEF LiveInv
    <3>3. live[s].target # NoTarget /\ k # "wasm" => live[s].status # "Disposed"
      BY <2>1, <3>1, Zenon DEF SessionOK, StatusSays
    <3> QED BY <2>1, <3>1, <3>2, <3>3, Zenon DEF Owns
  <2>2. CASE ~(s \in DOMAIN live /\ live[s].kind = k)
    <3>1. Unowned(k, hub[k, s])
      BY <2>2, Zenon DEF LiveInv, HubOK
    <3> QED BY <2>2, <3>1, Zenon DEF Unowned
  <2> QED BY <2>1, <2>2, Zenon
<1> QED BY <1>1, LiveInvariant, PTL

(* The status a client reads is the state of the execution, whichever caller
   of sync_status ran last. *)
THEOREM StatusesAgree == Spec => []StatusAgrees
<1>1. LiveInv => StatusAgrees
  <2> SUFFICES ASSUME LiveInv, NEW s \in DOMAIN live, live[s].kind # "wasm"
               PROVE  LET l == live[s]
                          t == l.target
                      IN  CASE l.status = "Disposed"  -> t = NoTarget
                            [] l.status = "Cancelled" -> t # NoTarget /\ t.state \in Finished
                            [] l.status = "Ready"     -> t = NewTarget
                            [] OTHER -> IF t = NoTarget THEN l.status = "Failed"
                                        ELSE /\ l.status = status_of(t)
                                             /\ t.promise # "None" <=> l.status = "Suspended"
    BY Zenon DEF StatusAgrees
  <2>1. SessionOK(live[s])
    BY Zenon DEF LiveInv
  <2>2. StatusSays(live[s])
    BY <2>1, Zenon DEF SessionOK
  <2>3. live[s].target # NoTarget =>
          (live[s].target.promise # "None" <=> status_of(live[s].target) = "Suspended")
    BY <2>1, StatusOf, Zenon DEF SessionOK, Sessions, TargetOK
  <2> QED BY <2>2, <2>3, Zenon DEF StatusSays
<1> QED BY <1>1, LiveInvariant, PTL

(* A fenced request reaches the execution it was made for, or none
   (LiveSessionRequest::validate). *)
THEOREM FencesIdentifyExecutions == Spec => []FenceIdentifiesExecution
<1>1. LiveInv => FenceIdentifiesExecution
  BY Zenon DEF LiveInv, FencesOK, FenceIdentifiesExecution, validate
<1> QED BY <1>1, LiveInvariant, PTL

(* An interpreter or HBC execution has emitted one terminal event if it has
   ended and its boundaries are out, and none before; a whole-Wasm module has
   emitted one for each run (emit_terminal, result_payload).  For any number of
   boundaries in a run: RunKeeps. *)
THEOREM TerminalEventsAreExact == Spec => []TerminalEventIsExact
<1>1. LiveInv => TerminalEventIsExact
  <2> SUFFICES ASSUME LiveInv, NEW s \in DOMAIN live, live[s].target # NoTarget
               PROVE  live[s].target.terminal =
                        IF live[s].kind = "wasm" THEN live[s].target.sequence
                        ELSE IF ended(live[s].target) /\ live[s].target.queued = 0
                             THEN 1 ELSE 0
    BY Zenon DEF TerminalEventIsExact
  <2>1. SessionOK(live[s])
    BY Zenon DEF LiveInv
  <2>2. CASE live[s].kind = "wasm"
    <3>1. live[s].target = Ran(live[s].target.sequence)
      BY <2>1, <2>2, Zenon DEF SessionOK
    <3>2. \A n : Ran(n).terminal = n
      BY Zenon DEF Ran, NewTarget
    <3> QED BY <2>2, <3>1, <3>2, Zenon
  <2>3. CASE live[s].kind # "wasm"
    BY <2>1, <2>3, Zenon DEF SessionOK, TargetOK
  <2> QED BY <2>2, <2>3, Zenon
<1> QED BY <1>1, LiveInvariant, PTL

(* What a step does to a session that exists before and after it. *)
LEMMA StepFollows ==
    ASSUME LiveInv, [Next]_vars, NEW s \in DOMAIN live \cap DOMAIN live'
    PROVE  live'[s] = live[s] \/ Follows(live[s], live'[s], hub'[Slot(s)])
<1>1. CASE release
  BY <1>1, Zenon DEF release
<1>2. ASSUME NEW x \in Ids, Operated(x)
      PROVE  live'[s] = live[s] \/ Follows(live[s], live'[s], hub'[Slot(s)])
  <2>1. PICK m, slot : /\ live' = [live EXCEPT ![x] = m]
                       /\ hub' = [hub EXCEPT ![Slot(x)] = slot]
                       /\ Follows(live[x], m, slot)
    BY <1>2, Zenon DEF Operated
  <2>2. CASE x = s
    <3>1. Slot(s) \in Kinds \X Ids /\ hub \in [Kinds \X Ids -> Slots]
      BY Found, Zenon DEF LiveInv
    <3> QED BY <2>1, <2>2, <3>1, Zenon
  <2>3. CASE x # s
    BY <2>1, <2>3, Zenon
  <2> QED BY <2>2, <2>3, Zenon
<1>3. ASSUME NEW x \in Ids, live_session_state(x) PROVE live'[s] = live[s]
  BY <1>3, Zenon DEF live_session_state
<1>4. ASSUME NEW x \in Ids, NEW k \in Kinds, NEW src \in Sources, NEW artifact \in BOOLEAN,
             start(x, k, src, artifact)
      PROVE  live'[s] = live[s]
  BY <1>4, Zenon DEF start
<1>5. CASE UNCHANGED vars
  BY <1>5, Zenon DEF vars
<1> QED BY <1>1, <1>2, <1>3, <1>4, <1>5, Steps, Zenon

(* Cancellation is final: no request and no promise moves a cancelled session
   (dispatch). *)
THEOREM CancellationIsFinal == Spec => CancelledStaysCancelled
<1>1. LiveInv /\ [Next]_vars =>
        [\A s \in DOMAIN live \cap DOMAIN live' :
            live[s].status \in {"Cancelled", "Disposed"} =>
              /\ live'[s].generation = live[s].generation
              /\ live'[s].status \in {live[s].status, "Disposed"}
              /\ live'[s].target \in {live[s].target, NoTarget}]_vars
  BY StepFollows, Zenon DEF Follows, Over
<1> QED BY <1>1, LiveInvariant, PTL DEF Spec, CancelledStaysCancelled

(* A replacement that loads runs, whatever failed before it, and a session that
   has a target is disposed of by dispose alone, which empties its slot
   (install_target after remove_target, detach_instrument). *)
THEOREM ReplacementsRecover == Spec => ReplacementRecovers
<1>1. LiveInv => \A s \in DOMAIN live : live[s].status = "Disposed" => live[s].target = NoTarget
  BY Zenon DEF LiveInv, SessionOK, StatusSays
<1>2. LiveInv /\ [Next]_vars =>
        [\A s \in DOMAIN live \cap DOMAIN live' :
            /\ /\ live'[s].generation # live[s].generation
               /\ live'[s].source \in Valid /\ live[s].kind # "hbc"
               => live'[s].target = NewTarget
            /\ live'[s].status = "Disposed" /\ live[s].target # NoTarget
               => hub'[Slot(s)] = EmptySlot]_vars
  BY <1>1, StepFollows, Zenon DEF Follows
<1> QED BY <1>2, LiveInvariant, PTL DEF Spec, ReplacementRecovers
=============================================================================
