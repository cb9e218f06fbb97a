----------------------------- MODULE WorkEvents -----------------------------
(***************************************************************************)
(* The event streams of one work run: the log and its cursors in           *)
(* core/rust/src/work.rs, behind the pull guard of RuntimeStream in        *)
(* core/rust/src/core/async_value.rs.                                      *)
(*                                                                         *)
(* Events are numbered from 1; 0 is nil, the end of a stream.  A published *)
(* event answers the pulls that wait for it one after the other, and each  *)
(* answer may run callbacks that pull, close, open and publish again.  As  *)
(* in module Promise, callbacks are trampolined through `jobs` and the     *)
(* calls in progress are on `stack`.                                       *)
(***************************************************************************)
EXTENDS Naturals, Sequences, FiniteSets

CONSTANTS Cursors, MaxEvents, MaxCalls    \* bounds: events, calls

ASSUME WorkEventsConstants == MaxEvents \in Nat /\ MaxCalls \in Nat

VARIABLES
  log,      \* number of events published
  closed,   \* was the last one terminal?
  cursors,  \* the cursors registered with the log, in order
  cursor,   \* cursor -> WorkEventCursor and where it started
  stream,   \* cursor -> pending and closed of its RuntimeStream
  stack,    \* the calls in progress, innermost first
  jobs,     \* CONTINUATION_QUEUE: answers, and user callbacks
  received, \* ghost: cursor -> the answers its pulls were settled with
  calls     \* calls made by user code so far

vars == <<log, closed, cursors, cursor, stream, stack, jobs, received, calls>>

rest   == Tail(stack)
at(op) == stack # << >> /\ Head(stack).op = op
top    == Head(stack)

user_code == stack # << >> => top.op = "user"
draining  == \E i \in DOMAIN stack : stack[i].op = "drain"

(* The stream is held by someone; the log itself holds cursors weakly. *)
held(c) == cursor[c].held

(* Jobs: the callback stream_next puts on a pull, and the callbacks user   *)
(* code puts on the promise that pull returned.                            *)
answer(c, v) == [job |-> "answer", cursor |-> c, value |-> v]
callback(c)  == [job |-> "callback", cursor |-> c, value |-> 0]

enqueue(job, then) ==
  IF draining THEN jobs' = Append(jobs, job) /\ stack' = then
  ELSE jobs' = <<job>> /\ stack' = <<[op |-> "drain"]>> \o then

-----------------------------------------------------------------------------
Init ==
  /\ log = 1 /\ closed = FALSE        \* the queued event is there at once
  /\ cursors = << >>
  /\ cursor = [c \in Cursors |-> [held |-> FALSE, opened |-> FALSE, after |-> 0, next |-> 0,
                                  pending |-> FALSE, closed |-> FALSE]]
  /\ stream = [c \in Cursors |-> [pending |-> FALSE, closed |-> FALSE]]
  /\ stack = << >> /\ jobs = << >>
  /\ received = [c \in Cursors |-> << >>]
  /\ calls = 0

user_call ==
  /\ user_code
  /\ calls < MaxCalls                                             \* bound
  /\ calls' = calls + 1

work_events(c) ==
  /\ user_call /\ ~ cursor[c].opened
  /\ \E after \in 0..MaxEvents :
       cursor' = [cursor EXCEPT ![c].opened = TRUE, ![c].held = TRUE,
                                ![c].after = after, ![c].next = after]
  /\ cursors' = Append(cursors, c)
  /\ UNCHANGED <<log, closed, stream, stack, jobs, received>>

(* Mutant: the end of the log is no answer. *)
event_take_no_end(cur, length, ended) ==
  IF cur.pending /\ cur.next < length
  THEN [cur |-> [cur EXCEPT !.pending = FALSE, !.next = @ + 1],
        answered |-> TRUE, value |-> cur.next + 1]
  ELSE [cur |-> cur, answered |-> FALSE, value |-> 0]

(* What a cursor's pending pull gets from a log of this length: the next   *)
(* event, nil once the log has ended, or nothing yet.                      *)
event_take(cur, length, ended) ==
  IF cur.pending /\ cur.next < length
  THEN [cur |-> [cur EXCEPT !.pending = FALSE, !.next = @ + 1],
        answered |-> TRUE, value |-> cur.next + 1]
  ELSE IF cur.pending /\ (ended \/ cur.closed)
  THEN [cur |-> [cur EXCEPT !.pending = FALSE, !.closed = TRUE],
        answered |-> TRUE, value |-> 0]
  ELSE [cur |-> cur, answered |-> FALSE, value |-> 0]

(* publish_event and publish_domain_event.  Nothing is published after the *)
(* terminal event (EventsTellHistory in module WorkHost).                  *)
publish_event ==
  /\ user_call /\ ~ closed
  /\ log < MaxEvents                                              \* bound
  /\ \E terminal \in BOOLEAN :
       LET take(c)  == event_take(cursor[c], log + 1, terminal)
           answered == SelectSeq(cursors, LAMBDA c : take(c).answered)
       IN  /\ closed' = terminal
           /\ cursor' = [c \in Cursors |->
                           IF \E i \in DOMAIN cursors : cursors[i] = c
                           THEN take(c).cur ELSE cursor[c]]
           /\ cursors' = SelectSeq(cursors, held)
           /\ stack' = <<[op |-> "deliver",
                          left |-> [i \in DOMAIN answered |->
                                      answer(answered[i], take(answered[i]).value)]]>>
                       \o stack
  /\ log' = log + 1
  /\ UNCHANGED <<stream, jobs, received>>

(* One answer: the pull's promise is resolved, and its callback queued. *)
deliver ==
  /\ at("deliver")
  /\ IF top.left = << >> THEN stack' = rest /\ UNCHANGED jobs
     ELSE enqueue(Head(top.left), <<[top EXCEPT !.left = Tail(@)]>> \o rest)
  /\ UNCHANGED <<log, closed, cursors, cursor, stream, received, calls>>

(* event_next: the next event or nil if it can be had at once, else the    *)
(* pull waits in the cursor.                                               *)
event_next(cur) ==
  IF cur.closed THEN [cur |-> cur, answered |-> TRUE, value |-> 0]
  ELSE event_take([cur EXCEPT !.pending = TRUE], log, closed)

(* A closed stream answers nil at once, and a second pull is refused, by   *)
(* the stream and again by the cursor.                                     *)
refuses(c) == stream[c].closed \/ stream[c].pending

(* stream_next on a host stream. *)
stream_next(c) ==
  /\ user_call /\ held(c)
  /\ IF refuses(c) \/ (cursor[c].pending /\ ~ cursor[c].closed)
     THEN UNCHANGED <<cursor, stream, stack, jobs>>
     ELSE LET taken == event_next(cursor[c])
          IN  /\ stream' = [stream EXCEPT ![c].pending = TRUE]
              /\ cursor' = [cursor EXCEPT ![c] = taken.cur]
              /\ IF taken.answered THEN enqueue(answer(c, taken.value), stack)
                 ELSE UNCHANGED <<stack, jobs>>
  /\ UNCHANGED <<log, closed, cursors, received>>

(* Mutant: closing forgets the pull that waits. *)
stream_close_forgets(c) ==
  /\ user_call /\ held(c)
  /\ cursor' = [cursor EXCEPT ![c].closed = TRUE, ![c].pending = FALSE]
  /\ stream' = [stream EXCEPT ![c].closed = TRUE]
  /\ stack' = <<[op |-> "unregister", cursor |-> c]>> \o stack
  /\ UNCHANGED <<log, closed, cursors, jobs, received>>

(* stream_close with work_events' close: a waiting pull gets nil, and its  *)
(* callbacks may run before the cursor leaves the log.                     *)
stream_close(c) ==
  /\ user_call /\ held(c)
  /\ IF stream[c].closed THEN UNCHANGED <<cursor, stream, stack, jobs>>
     ELSE LET then == <<[op |-> "unregister", cursor |-> c]>> \o stack
          IN  /\ stream' = [stream EXCEPT ![c].closed = TRUE]
              /\ cursor' = [cursor EXCEPT ![c].closed = TRUE,
                                          ![c].pending = FALSE]
              /\ IF cursor[c].pending THEN enqueue(answer(c, 0), then)
                 ELSE stack' = then /\ UNCHANGED jobs
  /\ UNCHANGED <<log, closed, cursors, received>>

unregister ==
  /\ at("unregister")
  /\ cursors' = SelectSeq(cursors, LAMBDA c : held(c) /\ c # top.cursor)
  /\ stack' = rest
  /\ UNCHANGED <<log, closed, cursor, stream, jobs, received, calls>>

(* The last handle on a stream goes, and with it the cursor and the pull   *)
(* that waits in it: the promise that pull returned stays pending.         *)
drop_stream(c) ==
  /\ user_call /\ held(c)
  /\ ~ \E i \in DOMAIN stack : stack[i].op = "unregister" /\ stack[i].cursor = c
  /\ cursor' = [cursor EXCEPT ![c].held = FALSE, ![c].pending = FALSE]
  /\ UNCHANGED <<log, closed, cursors, stream, stack, jobs, received>>

(* The trampoline.  The callback stream_next put on a pull admits the next *)
(* pull, then settles the promise the user holds, which queues the user's  *)
(* own callbacks.                                                          *)
drain ==
  /\ at("drain")
  /\ IF jobs = << >>
     THEN stack' = rest /\ UNCHANGED <<jobs, stream, received>>
     ELSE LET job == Head(jobs)
          IN  IF job.job = "answer"
              THEN /\ stream' = [stream EXCEPT ![job.cursor].pending = FALSE,
                                   ![job.cursor].closed = @ \/ job.value = 0]
                   /\ received' = [received EXCEPT ![job.cursor] =
                                     Append(@, job.value)]
                   /\ jobs' = Append(Tail(jobs), callback(job.cursor))
                   /\ UNCHANGED stack
              ELSE /\ jobs' = Tail(jobs)
                   /\ stack' = <<[op |-> "user"]>> \o stack
                   /\ UNCHANGED <<stream, received>>
  /\ UNCHANGED <<log, closed, cursors, cursor, calls>>

user_returns ==
  /\ at("user")
  /\ stack' = rest
  /\ UNCHANGED <<log, closed, cursors, cursor, stream, jobs, received, calls>>

Step == deliver \/ unregister \/ drain \/ user_returns

Next ==
  \/ \E c \in Cursors : \/ work_events(c) \/ drop_stream(c)
                       \/ stream_next(c) \/ stream_close(c)
  \/ publish_event
  \/ Step

Spec == Init /\ [][Next]_vars

(* Running code keeps running, and user code returns. *)
FairSpec == Spec /\ WF_vars(Step)

-----------------------------------------------------------------------------
registered(c) == \E i \in DOMAIN cursors : cursors[i] = c

(* Lengths, positions and flags stay in range: in particular a cursor      *)
(* never moves past what the log can hold.                                 *)
TypeOK ==
  /\ log \in 1..MaxEvents /\ closed \in BOOLEAN
  /\ cursors \in Seq(Cursors)
  /\ cursor \in [Cursors -> [held: BOOLEAN, opened: BOOLEAN, after: 0..MaxEvents,
                             next: 0..MaxEvents, pending: BOOLEAN,
                             closed: BOOLEAN]]
  /\ stream \in [Cursors -> [pending: BOOLEAN, closed: BOOLEAN]]
  /\ received \in [Cursors -> Seq(0..MaxEvents)]

(* A pull that waits has nothing to take: its cursor is registered, the    *)
(* log holds no event for it and neither the log nor the cursor has ended. *)
(* So no event and no close is missed, whatever is published while the     *)
(* answers to other pulls run callbacks (event_take, publish_event).       *)
NoMissedWakeup ==
  \A c \in Cursors : cursor[c].pending =>
    /\ registered(c)
    /\ cursor[c].next >= log
    /\ ~ closed /\ ~ cursor[c].closed

Contract == INSTANCE EventStream WITH
  Streams <- Cursors,
  ended   <- closed,
  from    <- [c \in Cursors |-> cursor[c].after],
  kept    <- [c \in Cursors |-> cursor[c].held],
  pulling <- [c \in Cursors |-> stream[c].pending],
  stopped <- [c \in Cursors |-> stream[c].closed]

(* Streams keep the contract of EventStream, liveness included: whatever   *)
(* is pulled, closed, dropped or published from inside callbacks, a reader *)
(* gets every event after its starting point once and in order, then nil,  *)
(* one answer per pull, and a pull that can be answered is (event_next,    *)
(* publish_event, stream_next, stream_close).                              *)
StreamsKeepContract == Contract!FairSpec
=============================================================================
