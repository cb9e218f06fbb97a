---------------------------- MODULE EventStream ----------------------------
(***************************************************************************)
(* What the streams over one event log promise to their readers, without   *)
(* cursors, registration, trampoline or callbacks (work.rs: event_next;    *)
(* async_value.rs: stream_next and stream_close).  One pull at a time; a   *)
(* pull gets the next event after the stream's starting point, or nil when *)
(* the stream was closed or the log has ended and is used up; nil ends the *)
(* stream.                                                                 *)
(***************************************************************************)
EXTENDS Naturals, Sequences

CONSTANTS Streams, MaxEvents

VARIABLES
  log,        \* number of events so far
  ended,      \* was the last one terminal?
  from,       \* stream -> the event it starts after
  kept,       \* stream -> is it open and in somebody's hands?
  pulling,    \* stream -> does a pull wait for its answer?
  stopped,    \* stream -> was it closed, or has it given nil?
  received    \* stream -> the answers given

streamVars == <<log, ended, from, kept, pulling, stopped, received>>

Init ==
  /\ log = 1 /\ ended = FALSE
  /\ from = [c \in Streams |-> 0]
  /\ kept = [c \in Streams |-> FALSE]
  /\ pulling = [c \in Streams |-> FALSE]
  /\ stopped = [c \in Streams |-> FALSE]
  /\ received = [c \in Streams |-> << >>]

Publish ==
  /\ ~ ended
  /\ log' = log + 1
  /\ ended' \in BOOLEAN
  /\ UNCHANGED <<from, kept, pulling, stopped, received>>

Open(c) ==
  /\ ~ kept[c]
  /\ received[c] = << >>
  /\ kept' = [kept EXCEPT ![c] = TRUE]
  /\ \E n \in 0..MaxEvents : from' = [from EXCEPT ![c] = n]
  /\ UNCHANGED <<log, ended, pulling, stopped, received>>

Pull(c) ==
  /\ kept[c] /\ ~ pulling[c] /\ ~ stopped[c]
  /\ pulling' = [pulling EXCEPT ![c] = TRUE]
  /\ UNCHANGED <<log, ended, from, kept, stopped, received>>

Close(c) ==
  /\ kept[c]
  /\ stopped' = [stopped EXCEPT ![c] = TRUE]
  /\ UNCHANGED <<log, ended, from, kept, pulling, received>>

(* Nobody holds the stream any more; its last pull may stay unanswered. *)
Drop(c) ==
  /\ kept[c]
  /\ kept' = [kept EXCEPT ![c] = FALSE]
  /\ UNCHANGED <<log, ended, from, pulling, stopped, received>>

Answer(c) ==
  LET position == from[c] + Len(received[c])
  IN  /\ pulling[c]
      /\ pulling' = [pulling EXCEPT ![c] = FALSE]
      /\ \/ /\ position < log
            /\ received' = [received EXCEPT ![c] = Append(@, position + 1)]
            /\ UNCHANGED stopped
         \/ /\ stopped[c] \/ (ended /\ position >= log)
            /\ received' = [received EXCEPT ![c] = Append(@, 0)]
            /\ stopped' = [stopped EXCEPT ![c] = TRUE]
      /\ UNCHANGED <<log, ended, from, kept>>

Next ==
  \/ Publish
  \/ \E c \in Streams : Open(c) \/ Pull(c) \/ Close(c) \/ Drop(c) \/ Answer(c)

Spec == Init /\ [][Next]_streamVars

(* A pull that can be answered is, as long as the stream is held. *)
FairSpec == Spec /\ \A c \in Streams : WF_streamVars(kept[c] /\ Answer(c))

============================================================================
