--------------------------- MODULE NativeProcess ---------------------------
(***************************************************************************)
(* A child process of the runtime (native_process.rs): the evaluator       *)
(* thread that makes the calls, the two threads that read the child's      *)
(* output, the child, and a descendant that inherits its pipes.  Neither   *)
(* of these need ever end.  Pipes hold a bounded number of chunks.  A call *)
(* of the evaluator is cut where it can block: join(), write_all() and the *)
(* deref of a promise.  The promises of a process poll cooperatively, so a *)
(* deref never calls their waiters: it sleeps and polls until they settle, *)
(* and runs the other promises' pollers and callbacks meanwhile.           *)
(***************************************************************************)
EXTENDS Naturals, Sequences

CONSTANTS
  MaxOutput,    \* bound on the chunks written to stdout, and to stderr
  Capacity      \* chunks a pipe holds

ASSUME ProcessConstants == MaxOutput \in Nat /\ Capacity \in Nat \ {0}

Kinds == {"stdout", "stderr"}

VARIABLES
  child,        \* "running", "reading" (in a read of its input), "stdout" or
                \*   "stderr" (in a write to it) or "exited"
  descendant,   \* "none", "alive" or "gone"
  input,        \* [end, held]: the caller's end of stdin, the chunks in the pipe
  pipe,         \* Kinds -> chunks written and not yet read
  written,      \* Kinds -> number of chunks written, a ghost
  reader,       \* Kinds -> [at, bytes, failed]: the reader thread, what it collected
  chunks,       \* Kinds -> the channel from reader to stream
  record,       \* [exit, stdout, stderr]: is the exit recorded, the outputs joined
  stream,       \* Kinds -> [taken, received, ended], received and ended are ghosts
  call          \* [op, waits]: the call in progress, the promise being dereferenced

outside == <<child, descendant, input, pipe, written>>
threads == <<reader, chunks>>
vars    == <<outside, threads, record, stream, call>>

Chunks  == Seq(1 .. MaxOutput)
NotRead == <<0>>          \* Record.stdout is None
NoCall  == [op |-> "idle", waits |-> "none"]

ReaderStates == [at: {"reading", "finished", "panicked", "joined"}, bytes: Chunks, failed: BOOLEAN]
RecordStates == [exit: BOOLEAN, stdout: Chunks \cup {NotRead}, stderr: Chunks \cup {NotRead}]
StreamStates == [taken: BOOLEAN, received: Chunks, ended: BOOLEAN]
CallStates   == [op: {"idle", "join-stdout", "join-stderr", "write"}, waits: {"none", "exit"} \cup Kinds]

TypeOK ==
  /\ child \in {"running", "reading", "exited"} \cup Kinds
  /\ descendant \in {"none", "alive", "gone"}
  /\ input \in [end: {"open", "closed", "eof"}, held: 0 .. Capacity]
  /\ pipe \in [Kinds -> Chunks]
  /\ written \in [Kinds -> 0 .. MaxOutput]
  /\ reader \in [Kinds -> ReaderStates]
  /\ chunks \in [Kinds -> Chunks]
  /\ record \in RecordStates
  /\ stream \in [Kinds -> StreamStates]
  /\ call \in CallStates

(* spawn: three pipes, two reader threads, a record in the table. *)
Init ==
  /\ child = "running"
  /\ descendant = "none"
  /\ input = [end |-> "open", held |-> 0]
  /\ pipe = [k \in Kinds |-> <<>>]
  /\ written = [k \in Kinds |-> 0]
  /\ reader = [k \in Kinds |-> [at |-> "reading", bytes |-> <<>>, failed |-> FALSE]]
  /\ chunks = [k \in Kinds |-> <<>>]
  /\ record = [exit |-> FALSE, stdout |-> NotRead, stderr |-> NotRead]
  /\ stream = [k \in Kinds |-> [taken |-> FALSE, received |-> <<>>, ended |-> FALSE]]
  /\ call = NoCall

----------------------------------------------------------------------------
(* The child and its descendant *)

Put(k) ==
  /\ reader[k].at = "reading"
  /\ Len(pipe[k]) < Capacity
  /\ written[k] < MaxOutput
  /\ written' = [written EXCEPT ![k] = @ + 1]
  /\ pipe' = [pipe EXCEPT ![k] = Append(@, written[k] + 1)]
  /\ UNCHANGED <<descendant, input, threads, record, stream, call>>

(* Without a reader a write fails at once and changes nothing. *)
AskOutput(k) ==
  /\ child = "running"
  /\ reader[k].at = "reading"
  /\ written[k] < MaxOutput
  /\ child' = k
  /\ UNCHANGED <<descendant, input, pipe, written, threads, record, stream, call>>

(* A write blocks while the pipe is full, and fails when the reader ends. *)
Output(k) ==
  /\ child = k
  /\ \/ Put(k)
     \/ reader[k].at # "reading"
        /\ UNCHANGED <<descendant, input, pipe, written, threads, record, stream, call>>
  /\ child' = "running"

(* The bound leaves room for the write the child is in. *)
DescendantOutput(k) ==
  /\ descendant = "alive"
  /\ child = k => written[k] + 1 < MaxOutput
  /\ Put(k)
  /\ UNCHANGED child

AskInput ==
  /\ child = "running"
  /\ input.end # "eof"
  /\ child' = "reading"
  /\ UNCHANGED <<descendant, input, pipe, written, threads, record, stream, call>>

(* A read blocks until there is a chunk or every writer has gone. *)
GetInput ==
  /\ child = "reading"
  /\ \/ input.held > 0 /\ input' = [input EXCEPT !.held = @ - 1]
     \/ input.held = 0 /\ input.end = "closed" /\ input' = [input EXCEPT !.end = "eof"]
  /\ child' = "running"
  /\ UNCHANGED <<descendant, pipe, written, threads, record, stream, call>>

Fork ==
  /\ child = "running"
  /\ descendant = "none"
  /\ descendant' = "alive"
  /\ UNCHANGED <<child, input, pipe, written, threads, record, stream, call>>

Exit ==
  /\ child = "running"
  /\ child' = "exited"
  /\ UNCHANGED <<descendant, input, pipe, written, threads, record, stream, call>>

DescendantExit ==
  /\ descendant = "alive"
  /\ descendant' = "gone"
  /\ UNCHANGED <<child, input, pipe, written, threads, record, stream, call>>

Child ==
  \/ \E k \in Kinds : AskOutput(k) \/ Output(k)
  \/ AskInput \/ GetInput \/ Fork \/ Exit

Descendant == DescendantExit \/ \E k \in Kinds : DescendantOutput(k)

----------------------------------------------------------------------------
(* The reader threads.  A chunk is collected and sent to the stream's channel,
   whose receiver lives as long as the record. *)

Closed(k) == pipe[k] = <<>> /\ child = "exited" /\ descendant # "alive"

(* Mutant: one output is read after the other. *)
ReadChunk_in_turn(k) ==
  /\ reader[k].at = "reading"
  /\ pipe[k] # <<>>
  /\ k = "stderr" => reader["stdout"].at # "reading"
  /\ pipe' = [pipe EXCEPT ![k] = Tail(@)]
  /\ reader' = [reader EXCEPT ![k].bytes = Append(@, Head(pipe[k]))]
  /\ chunks' = [chunks EXCEPT ![k] = Append(@, Head(pipe[k]))]
  /\ UNCHANGED <<child, descendant, input, written, record, stream, call>>

ReadChunk(k) ==
  /\ reader[k].at = "reading"
  /\ pipe[k] # <<>>
  /\ pipe' = [pipe EXCEPT ![k] = Tail(@)]
  /\ reader' = [reader EXCEPT ![k].bytes = Append(@, Head(pipe[k]))]
  /\ chunks' = [chunks EXCEPT ![k] = Append(@, Head(pipe[k]))]
  /\ UNCHANGED <<child, descendant, input, written, record, stream, call>>

(* End of file: the thread returns its bytes and drops its sender. *)
ReadEnd(k) ==
  /\ reader[k].at = "reading"
  /\ Closed(k)
  /\ reader' = [reader EXCEPT ![k].at = "finished"]
  /\ UNCHANGED <<outside, chunks, record, stream, call>>

(* A read error ends the loop like the end of the file; a panic ends the
   thread, and what it collected is gone. *)
ReadFails(k) ==
  /\ reader[k].at = "reading"
  /\ \E a \in {"finished", "panicked"} :
       reader' = [reader EXCEPT ![k].at = a, ![k].failed = TRUE]
  /\ UNCHANGED <<outside, chunks, record, stream, call>>

Reader(k) == ReadChunk(k) \/ ReadEnd(k)

----------------------------------------------------------------------------
(* Calls of the evaluator *)

Finished(k) == reader[k].at # "reading"

(* Mutant: a poll looks at one reader only. *)
Poll_one_reader ==
  /\ call.op = "idle"
  /\ ~record.exit
  /\ child = "exited"
  /\ Finished("stdout")
  /\ record' = [record EXCEPT !.exit = TRUE]
  /\ call' = [call EXCEPT !.op = "join-stdout"]
  /\ UNCHANGED <<outside, threads, stream>>

(* finish without waiting: alive?, and the pollers of the promises, in every
   turn of a deref too. *)
Poll ==
  /\ call.op = "idle"
  /\ ~record.exit
  /\ child = "exited"
  /\ \A k \in Kinds : Finished(k)
  /\ record' = [record EXCEPT !.exit = TRUE]
  /\ call' = [call EXCEPT !.op = "join-stdout"]
  /\ UNCHANGED <<outside, threads, stream>>

(* The deref of a promise of the process, or of a pull of a stream. *)
Deref(w) ==
  /\ call = NoCall
  /\ w \in Kinds => stream[w].taken
  /\ call' = [call EXCEPT !.waits = w]
  /\ UNCHANGED <<outside, threads, record, stream>>

(* The exit is recorded before the readers are joined.  When one has panicked
   finish returns the error, and the record stays without the output. *)
JoinStdout ==
  /\ call.op = "join-stdout"
  /\ \/ /\ reader["stdout"].at = "finished"
        /\ reader' = [reader EXCEPT !["stdout"].at = "joined"]
        /\ record' = [record EXCEPT !.stdout = reader["stdout"].bytes]
        /\ call' = [call EXCEPT !.op = "join-stderr"]
     \/ /\ reader["stdout"].at = "panicked"
        /\ call' = [call EXCEPT !.op = "idle"]
        /\ UNCHANGED <<reader, record>>
  /\ UNCHANGED <<outside, chunks, stream>>

JoinStderr ==
  /\ call.op = "join-stderr"
  /\ \/ /\ reader["stderr"].at = "finished"
        /\ reader' = [reader EXCEPT !["stderr"].at = "joined"]
        /\ record' = [record EXCEPT !.stderr = reader["stderr"].bytes]
     \/ /\ reader["stderr"].at = "panicked"
        /\ UNCHANGED <<reader, record>>
  /\ call' = [call EXCEPT !.op = "idle"]
  /\ UNCHANGED <<outside, chunks, stream>>

(* A blocking call of a callback that runs within a deref is left out. *)
Write ==
  /\ call = NoCall
  /\ input.end = "open"
  /\ call' = [NoCall EXCEPT !.op = "write"]
  /\ UNCHANGED <<outside, threads, record, stream>>

(* write_all and flush: done when the pipe has room, failed when nobody can
   read it any more. *)
WriteReturns ==
  /\ call.op = "write"
  /\ \/ input.held < Capacity /\ input' = [input EXCEPT !.held = @ + 1]
     \/ child = "exited" /\ descendant # "alive" /\ UNCHANGED input
  /\ call' = NoCall
  /\ UNCHANGED <<child, descendant, pipe, written, threads, record, stream>>

CloseInput ==
  /\ call.op = "idle"
  /\ input.end = "open"
  /\ input' = [input EXCEPT !.end = "closed"]
  /\ UNCHANGED <<child, descendant, pipe, written, threads, record, stream, call>>

TakeStream(k) ==
  /\ call.op = "idle"
  /\ ~stream[k].taken
  /\ stream' = [stream EXCEPT ![k].taken = TRUE]
  /\ UNCHANGED <<outside, threads, record, call>>

(* Mutant: the end of the child is taken for the end of the stream. *)
Received_until_exit(k) ==
  \/ /\ chunks[k] # <<>>
     /\ chunks' = [chunks EXCEPT ![k] = Tail(@)]
     /\ stream' = [stream EXCEPT ![k].received = Append(@, Head(chunks[k]))]
  \/ /\ chunks[k] = <<>>
     /\ child = "exited"
     /\ stream' = [stream EXCEPT ![k].ended = TRUE]
     /\ UNCHANGED chunks

(* What a pull of a stream receives: the next chunk, or nil once the sender is
   gone. *)
Received(k) ==
  \/ /\ chunks[k] # <<>>
     /\ chunks' = [chunks EXCEPT ![k] = Tail(@)]
     /\ stream' = [stream EXCEPT ![k].received = Append(@, Head(chunks[k]))]
  \/ /\ chunks[k] = <<>>
     /\ Finished(k)
     /\ stream' = [stream EXCEPT ![k].ended = TRUE]
     /\ UNCHANGED chunks

(* stream_result without waiting: an empty channel leaves the promise pending. *)
StreamPoll(k) ==
  /\ call.op = "idle"
  /\ stream[k].taken
  /\ Received(k)
  /\ UNCHANGED <<outside, reader, record, call>>

(* The promise being dereferenced settles: the exit is recorded, or this pull
   is the one that receives. *)
DerefReturns ==
  /\ call.op = "idle"
  /\ \/ call.waits = "exit" /\ record.exit /\ UNCHANGED <<chunks, stream>>
     \/ call.waits \in Kinds /\ Received(call.waits)
  /\ call' = NoCall
  /\ UNCHANGED <<outside, reader, record>>

(* kill: the child only; a child that has been waited for is left alone. *)
Kill ==
  /\ call.op = "idle"
  /\ ~record.exit
  /\ child # "exited"
  /\ child' = "exited"
  /\ UNCHANGED <<descendant, input, pipe, written, threads, record, stream, call>>

Calls ==
  \/ Poll \/ Deref("exit") \/ Write \/ CloseInput \/ Kill
  \/ \E k \in Kinds : TakeStream(k) \/ StreamPoll(k) \/ Deref(k)

CallStep ==
  \/ JoinStdout \/ JoinStderr \/ WriteReturns \/ DerefReturns
  \/ call.waits = "exit" /\ Poll

Next ==
  \/ Calls
  \/ CallStep
  \/ Child
  \/ Descendant
  \/ \E k \in Kinds : Reader(k) \/ ReadFails(k)

Spec == Init /\ [][Next]_vars

(* The threads run, and a child blocked on a pipe goes on once it can.  What
   it does then is its own affair: it may run for ever.  Nothing is assumed of
   the descendant, of read errors, or of calls being made. *)
FairSpec ==
  /\ Spec
  /\ WF_vars(CallStep)
  /\ WF_vars(GetInput)
  /\ \A k \in Kinds : WF_vars(Output(k)) /\ WF_vars(Reader(k))

----------------------------------------------------------------------------
(* Properties *)

(* A poll that goes on to join the readers finds both ended, so it does not
   wait for a descendant that still holds a pipe: finish(handle, false) never
   blocks, and with it neither alive? nor the turns of a deref. *)
PollNeverBlocks ==
  /\ call.op = "join-stdout" => \A k \in Kinds : reader[k].at \in {"finished", "panicked"}
  /\ call.op = "join-stderr" => reader["stderr"].at \in {"finished", "panicked"}

(* The output that finish returns once the exit is recorded. *)
Reported(k) == IF record[k] = NotRead THEN <<>> ELSE record[k]

(* The first n chunks written, and the beginnings of that. *)
First(n) == [i \in 1 .. n |-> i]
InOrder(s, n) == Len(s) <= n /\ s = First(Len(s))

(* Everything that was written to a pipe, by the child or by a descendant that
   outlived it, is in the output reported with the exit status, and a stream
   delivers the same chunks in order, each once, and nil only after the last;
   taking a stream and asking for the exit do not disturb each other.  What
   loses the rest of an output is a read error; what loses all of it is a
   reader that panicked, and a panic on stdout loses stderr with it. *)
OutputIsComplete ==
  \A k \in Kinds :
    /\ (record.exit /\ call.op \notin {"join-stdout", "join-stderr"}) =>
         /\ InOrder(Reported(k), written[k])
         /\ reader[k].failed \/ reader["stdout"].at = "panicked" \/ Reported(k) = First(written[k])
    /\ InOrder(stream[k].received, written[k])
    /\ stream[k].ended => stream[k].received = reader[k].bytes
    /\ stream[k].ended /\ ~reader[k].failed => stream[k].received = First(written[k])

(* The child waits for input that is neither sent nor ended. *)
Starved == child = "reading" /\ input.held = 0 /\ input.end = "open"

(* A blocking call, a write or the deref of a promise, returns although pipes
   are bounded and the child blocks on them: the readers drain both outputs at
   once, so neither a write to a child that is itself writing nor a deref can
   deadlock.  What can keep a call for ever is a child that runs for ever and
   neither reads nor exits, one that waits for an input left open, and a
   descendant that holds the pipes. *)
BlockingCallsReturn ==
  \/ []<>(call = NoCall)
  \/ <>[](child = "running")
  \/ <>[]Starved
  \/ <>[](descendant = "alive")

============================================================================
