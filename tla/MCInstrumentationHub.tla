------------------------ MODULE MCInstrumentationHub ------------------------
(* Small instances of InstrumentationHub: two sessions whose instruments   *)
(* control, passively queue, or take callbacks.                            *)
EXTENDS InstrumentationHub, TLC

CONSTANTS s1, s2, native, wasm

MCSessions == {s1, s2}
MCBackends == {native, wasm}

IdSymmetry == Permutations(Instruments) \cup Permutations(Targets)

Reg(s, mode, caps, evs, capacity) ==
  [session |-> s, mode |-> mode, capabilities |-> caps, events |-> evs,
   filter_session |-> None, filter_targets |-> {}, filter_kinds |-> {},
   filter_backends |-> {}, projection |-> {},
   capacity |-> capacity]

ControlCaps == {"ControlPause", "EventCall"}

AllCaps == Capabilities \ TransformCapabilities

(* A controller of each session, one of them with a filter; a registration *)
(* validate refuses; a queue of two on two event kinds and a queue of one. *)
MCRegistrations ==
  {Reg(s1, "Control", ControlCaps, {"CallEnter"}, None),
   [Reg(s2, "Control", {"ControlTerminate", "EventLifecycle"},
        {"ExecutionTerminal"}, 1)
      EXCEPT !.filter_kinds = {"Hbc"}, !.filter_backends = {wasm}],
   Reg(s1, "Passive", {"ControlPause"}, {}, 1),
   Reg(s1, "Passive", {"EventCall", "EventEffect"}, {"CallEnter", "VarSet"}, 2),
   Reg(s1, "Passive", {"EventEffect"}, {"VarSet"}, 1)}

(* A target of each session. *)
MCDescriptors ==
  {[session |-> s1, kind |-> "Interpreter", backend |-> native,
    capabilities |-> AllCaps],
   [session |-> s2, kind |-> "Hbc", backend |-> wasm,
    capabilities |-> AllCaps]}
=============================================================================
