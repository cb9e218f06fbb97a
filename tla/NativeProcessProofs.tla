------------------------ MODULE NativeProcessProofs ------------------------
(***************************************************************************)
(* For pipes of any capacity and any amount of output: a poll never blocks *)
(* and no output is lost, repeated or reported early (native_process.rs).  *)
(***************************************************************************)
EXTENDS NativeProcess, TLAPS

(* The chunks n+1, n+2, ... in order. *)
From(n, s) == \A i \in 1 .. Len(s) : s[i] = n + i

(* Of w chunks written, b have been read and p are in the pipe; of those read,
   a stream has received r and c are in its channel. *)
Counted(b, p, w, r, c) ==
  /\ From(0, b) /\ From(Len(b), p) /\ Len(b) + Len(p) = w
  /\ From(0, r) /\ From(Len(r), c) /\ Len(r) + Len(c) = Len(b)

Flow(k) == Counted(reader[k].bytes, pipe[k], written[k], stream[k].received, chunks[k])

(* A reader ends with an empty pipe unless it failed, a stream with an empty
   channel, and what is recorded is all that the reader collected. *)
Ends(k) ==
  /\ reader[k].at # "reading" => reader[k].failed \/ pipe[k] = <<>>
  /\ reader[k].at = "panicked" => reader[k].failed
  /\ stream[k].ended => reader[k].at # "reading" /\ chunks[k] = <<>>
  /\ record[k] # NotRead => reader[k].at # "reading" /\ record[k] = reader[k].bytes

(* A reader is joined once, by the poll that recorded the exit, and leaves its
   output in the record unless it, or the reader of stdout before it, panicked. *)
Joins ==
  /\ ~record.exit => call.op \notin {"join-stdout", "join-stderr"}
  /\ ~record.exit \/ call.op = "join-stdout" => \A k \in Kinds : reader[k].at # "joined"
  /\ call.op = "join-stderr" => reader["stderr"].at # "joined" /\ record.stdout # NotRead
  /\ record.exit /\ call.op \notin {"join-stdout", "join-stderr"} =>
       \A k \in Kinds : record[k] # NotRead \/ reader["stdout"].at = "panicked" \/ reader[k].at = "panicked"

ProcessInv ==
  /\ TypeOK
  /\ Joins
  /\ PollNeverBlocks
  /\ \A k \in Kinds : Flow(k) /\ Ends(k)

----------------------------------------------------------------------------
(* Sequences of chunks *)

(* The length of a sequence of chunks. *)
LEMMA LenChunks ==
  ASSUME NEW s \in Chunks
  PROVE  Len(s) \in Nat /\ (s = <<>> <=> Len(s) = 0)
BY DEF Chunks

(* The mark of an output not recorded is no output. *)
LEMMA NotReadIsNoOutput == NotRead \notin Chunks
<1>1. NotRead[1] = 0 /\ Len(NotRead) = 1
  BY DEF NotRead
<1>2. ASSUME NEW s \in Seq(1 .. MaxOutput), Len(s) = 1 PROVE s[1] # 0
  <2>1. 1 \in 1 .. Len(s)
    BY <1>2
  <2>2. s[1] \in 1 .. MaxOutput
    BY <2>1, ProcessConstants
  <2> QED BY <2>2, ProcessConstants
<1> QED BY <1>1, <1>2, Zenon DEF Chunks

(* Appending the next chunk. *)
LEMMA AppendChunk ==
  ASSUME NEW n \in Nat, NEW s \in Chunks, From(n, s), NEW e \in 1 .. MaxOutput,
         e = n + Len(s) + 1
  PROVE  Append(s, e) \in Chunks /\ Len(Append(s, e)) = Len(s) + 1 /\ From(n, Append(s, e))
BY ProcessConstants DEF Chunks, From

(* Taking the first chunk. *)
LEMMA TailChunk ==
  ASSUME NEW n \in Nat, NEW s \in Chunks, From(n, s), s # <<>>
  PROVE  /\ Head(s) = n + 1 /\ Head(s) \in 1 .. MaxOutput
         /\ Tail(s) \in Chunks /\ Len(Tail(s)) = Len(s) - 1 /\ From(n + 1, Tail(s))
BY ProcessConstants DEF Chunks, From

(* Chunks in order from the first are determined by their number. *)
LEMMA FromIsFirst ==
  ASSUME NEW s \in Chunks, NEW n \in Nat, From(0, s), Len(s) <= n
  PROVE  InOrder(s, n) /\ (Len(s) = n => s = First(n))
<1>1. s \in Seq(1 .. MaxOutput) /\ Len(s) \in Nat
  BY DEF Chunks
<1>2. s = First(Len(s))
  BY <1>1 DEF From, First
<1> QED BY <1>2, Zenon DEF InOrder

(* A chunk is written. *)
LEMMA CountedOutput ==
  ASSUME NEW b \in Chunks, NEW p \in Chunks, NEW w \in Nat, NEW r \in Chunks, NEW c \in Chunks,
         Counted(b, p, w, r, c), w + 1 \in 1 .. MaxOutput
  PROVE  Append(p, w + 1) \in Chunks /\ Counted(b, Append(p, w + 1), w + 1, r, c)
<1>1. Len(b) \in Nat /\ Len(p) \in Nat
  BY LenChunks, Zenon
<1>2. w + 1 = Len(b) + Len(p) + 1 /\ From(Len(b), p)
  BY <1>1, Zenon DEF Counted
<1>3. /\ Append(p, w + 1) \in Chunks /\ Len(Append(p, w + 1)) = Len(p) + 1
      /\ From(Len(b), Append(p, w + 1))
  BY <1>1, <1>2, AppendChunk, Zenon
<1> QED BY <1>1, <1>2, <1>3 DEF Counted

(* A chunk is read and sent to the channel. *)
LEMMA CountedRead ==
  ASSUME NEW b \in Chunks, NEW p \in Chunks, NEW w \in Nat, NEW r \in Chunks, NEW c \in Chunks,
         Counted(b, p, w, r, c), p # <<>>
  PROVE  /\ Tail(p) \in Chunks /\ Append(b, Head(p)) \in Chunks /\ Append(c, Head(p)) \in Chunks
         /\ Counted(Append(b, Head(p)), Tail(p), w, r, Append(c, Head(p)))
<1>1. Len(b) \in Nat /\ Len(p) \in Nat /\ Len(r) \in Nat /\ Len(c) \in Nat
  BY LenChunks, Zenon
<1>2. /\ Head(p) = Len(b) + 1 /\ Head(p) \in 1 .. MaxOutput
      /\ Tail(p) \in Chunks /\ Len(Tail(p)) = Len(p) - 1 /\ From(Len(b) + 1, Tail(p))
  BY <1>1, TailChunk, Zenon DEF Counted
<1>3. Head(p) = 0 + Len(b) + 1 /\ Head(p) = Len(r) + Len(c) + 1
  BY <1>1, <1>2 DEF Counted
<1>4. /\ Append(b, Head(p)) \in Chunks /\ Len(Append(b, Head(p))) = Len(b) + 1
      /\ From(0, Append(b, Head(p)))
  BY <1>1, <1>2, <1>3, AppendChunk, Zenon DEF Counted
<1>5. /\ Append(c, Head(p)) \in Chunks /\ Len(Append(c, Head(p))) = Len(c) + 1
      /\ From(Len(r), Append(c, Head(p)))
  BY <1>1, <1>2, <1>3, AppendChunk, Zenon DEF Counted
<1> QED BY <1>1, <1>2, <1>4, <1>5 DEF Counted

(* A chunk is received. *)
LEMMA CountedReceive ==
  ASSUME NEW b \in Chunks, NEW p \in Chunks, NEW w \in Nat, NEW r \in Chunks, NEW c \in Chunks,
         Counted(b, p, w, r, c), c # <<>>
  PROVE  /\ Tail(c) \in Chunks /\ Append(r, Head(c)) \in Chunks
         /\ Counted(b, p, w, Append(r, Head(c)), Tail(c))
<1>1. Len(r) \in Nat /\ Len(c) \in Nat /\ Len(b) \in Nat
  BY LenChunks, Zenon
<1>2. /\ Head(c) = Len(r) + 1 /\ Head(c) \in 1 .. MaxOutput
      /\ Tail(c) \in Chunks /\ Len(Tail(c)) = Len(c) - 1 /\ From(Len(r) + 1, Tail(c))
  BY <1>1, TailChunk, Zenon DEF Counted
<1>3. Head(c) = 0 + Len(r) + 1
  BY <1>1, <1>2
<1>4. /\ Append(r, Head(c)) \in Chunks /\ Len(Append(r, Head(c))) = Len(r) + 1
      /\ From(0, Append(r, Head(c)))
  BY <1>1, <1>2, <1>3, AppendChunk, Zenon DEF Counted
<1> QED BY <1>1, <1>2, <1>4 DEF Counted

----------------------------------------------------------------------------
(* Updates of a reader and of a stream *)

(* The fields that hold chunks. *)
LEMMA ChunkFields ==
  ASSUME TypeOK, NEW k \in Kinds
  PROVE  /\ reader[k].bytes \in Chunks /\ stream[k].received \in Chunks
         /\ pipe[k] \in Chunks /\ chunks[k] \in Chunks /\ written[k] \in 0 .. MaxOutput
<1>1. reader[k] \in ReaderStates /\ stream[k] \in StreamStates
  BY Zenon DEF TypeOK
<1>2. reader[k].bytes \in Chunks
  BY <1>1, Zenon DEF ReaderStates
<1>3. stream[k].received \in Chunks
  BY <1>1, Zenon DEF StreamStates
<1> QED BY <1>2, <1>3, Zenon DEF TypeOK

(* A reader collects bytes. *)
LEMMA ReaderBytes ==
  ASSUME NEW f \in [Kinds -> ReaderStates], NEW k \in Kinds, NEW b \in Chunks
  PROVE  LET g == [f EXCEPT ![k].bytes = b]
         IN  /\ g \in [Kinds -> ReaderStates]
             /\ g[k].bytes = b /\ g[k].at = f[k].at
             /\ \A j \in Kinds : j # k => g[j] = f[j]
<1> DEFINE g == [f EXCEPT ![k].bytes = b]
           v == [f[k] EXCEPT !.bytes = b]
<1>1. f[k] \in ReaderStates
  BY Zenon
<1>2. v \in ReaderStates /\ v.bytes = b /\ v.at = f[k].at
  BY <1>1, Zenon DEF ReaderStates
<1>3. g = [f EXCEPT ![k] = v]
  BY Zenon
<1> HIDE DEF g, v
<1>4. g[k] = v /\ g \in [Kinds -> ReaderStates] /\ \A j \in Kinds : j # k => g[j] = f[j]
  BY <1>2, <1>3, Zenon
<1> QED BY <1>2, <1>4, Zenon DEF g

(* A stream receives a chunk. *)
LEMMA StreamReceived ==
  ASSUME NEW f \in [Kinds -> StreamStates], NEW k \in Kinds, NEW s \in Chunks
  PROVE  LET g == [f EXCEPT ![k].received = s]
         IN  /\ g \in [Kinds -> StreamStates]
             /\ g[k].received = s /\ g[k].ended = f[k].ended
             /\ \A j \in Kinds : j # k => g[j] = f[j]
<1> DEFINE g == [f EXCEPT ![k].received = s]
           v == [f[k] EXCEPT !.received = s]
<1>1. f[k] \in StreamStates
  OBVIOUS
<1>2. v \in StreamStates /\ v.received = s /\ v.ended = f[k].ended
  BY <1>1, Zenon DEF StreamStates
<1>3. g = [f EXCEPT ![k] = v]
  BY Zenon
<1> HIDE DEF g, v
<1>4. g[k] = v /\ g \in [Kinds -> StreamStates] /\ \A j \in Kinds : j # k => g[j] = f[j]
  BY <1>2, <1>3, Zenon
<1> QED BY <1>2, <1>4, Zenon DEF g

----------------------------------------------------------------------------
(* The inductive invariant *)

(* spawn establishes it. *)
LEMMA InitProcessInv == Init => ProcessInv
<1> SUFFICES ASSUME Init PROVE ProcessInv
  BY Zenon
<1>1. TypeOK
  BY ProcessConstants
  DEF Init, TypeOK, ReaderStates, RecordStates, StreamStates, CallStates, Chunks, NoCall, NotRead, Kinds
<1>2. Joins /\ PollNeverBlocks
  BY Zenon DEF Init, Joins, PollNeverBlocks, NoCall
<1>3. ASSUME NEW k \in Kinds PROVE Flow(k) /\ Ends(k)
  BY <1>3 DEF Init, Flow, Counted, From, Ends, Kinds, NotRead
<1> QED BY <1>1, <1>2, <1>3, Zenon DEF ProcessInv

(* A chunk moves from the channel to whoever pulls the stream, or the stream
   ends. *)
LEMMA ReceivedInv ==
  ASSUME ProcessInv, NEW k \in Kinds, Received(k), UNCHANGED <<outside, reader, record>>
  PROVE  /\ chunks' \in [Kinds -> Chunks]
         /\ stream' \in [Kinds -> StreamStates]
         /\ \A j \in Kinds : Flow(j)' /\ Ends(j)'
<1> USE DEF ProcessInv
<1> DEFINE r == stream[k].received
<1>0. /\ r \in Chunks /\ chunks[k] \in Chunks /\ pipe[k] \in Chunks /\ written[k] \in Nat
      /\ reader[k].bytes \in Chunks /\ Flow(k) /\ Ends(k)
  BY ChunkFields
<1>a. stream \in [Kinds -> StreamStates] /\ chunks \in [Kinds -> Chunks]
  BY Zenon DEF TypeOK
<1>b. /\ reader' = reader /\ record' = record /\ pipe' = pipe /\ written' = written
      /\ \A j \in Kinds : Flow(j) /\ Ends(j)
  BY Zenon DEF outside
<1>1. CASE chunks[k] # <<>> /\ chunks' = [chunks EXCEPT ![k] = Tail(@)]
           /\ stream' = [stream EXCEPT ![k].received = Append(@, Head(chunks[k]))]
  <2> DEFINE t == Tail(chunks[k])
             s == Append(r, Head(chunks[k]))
  <2>1. t \in Chunks /\ s \in Chunks /\ Counted(reader[k].bytes, pipe[k], written[k], s, t)
    BY <1>0, <1>1, CountedReceive, Zenon DEF Flow
  <2>2. chunks' = [chunks EXCEPT ![k] = t] /\ stream' = [stream EXCEPT ![k].received = s]
    BY <1>1, Zenon
  <2> HIDE DEF t, s
  <2>3. /\ stream' \in [Kinds -> StreamStates]
        /\ stream'[k].received = s /\ stream'[k].ended = stream[k].ended
        /\ \A j \in Kinds : j # k => stream'[j] = stream[j]
    BY <1>a, <2>1, <2>2, StreamReceived
  <2>4. /\ chunks' \in [Kinds -> Chunks] /\ chunks'[k] = t
        /\ \A j \in Kinds : j # k => chunks'[j] = chunks[j]
    BY <1>a, <2>1, <2>2, Zenon
  <2>5. ASSUME NEW j \in Kinds, j # k PROVE Flow(j)' /\ Ends(j)'
    BY <1>b, <2>3, <2>4, <2>5, Zenon DEF Flow, Ends
  <2>6. Flow(k)'
    BY <1>b, <2>1, <2>3, <2>4, Zenon DEF Flow
  <2>7. Ends(k)'
    BY <1>0, <1>1, <1>b, <2>3, Zenon DEF Ends
  <2> QED BY <2>3, <2>4, <2>5, <2>6, <2>7, Zenon
<1>2. CASE chunks[k] = <<>> /\ Finished(k) /\ stream' = [stream EXCEPT ![k].ended = TRUE]
           /\ UNCHANGED chunks
  <2>1. /\ stream' \in [Kinds -> StreamStates] /\ stream'[k].received = r
        /\ \A j \in Kinds : j # k => stream'[j] = stream[j]
    <3> DEFINE v == [stream[k] EXCEPT !.ended = TRUE]
    <3>1. stream[k] \in StreamStates
      BY <1>a, Zenon
    <3>2. v \in StreamStates /\ v.received = r
      BY <3>1, Zenon DEF StreamStates
    <3>3. stream' = [stream EXCEPT ![k] = v]
      BY <1>2, Zenon
    <3> HIDE DEF v
    <3> QED BY <1>a, <3>2, <3>3, Zenon
  <2>2. ASSUME NEW j \in Kinds, j # k PROVE Flow(j)' /\ Ends(j)'
    BY <1>2, <1>b, <2>1, <2>2, Zenon DEF Flow, Ends
  <2>3. Flow(k)'
    BY <1>0, <1>2, <1>b, <2>1, Zenon DEF Flow
  <2>4. Ends(k)'
    BY <1>0, <1>2, <1>b, Zenon DEF Ends, Finished
  <2> QED BY <1>2, <1>a, <2>1, <2>2, <2>3, <2>4, Zenon
<1> QED BY <1>1, <1>2, Zenon DEF Received

(* Every step of the child, the readers and the evaluator keeps it. *)
LEMMA NextProcessInv == ProcessInv /\ [Next]_vars => ProcessInv'
<1> SUFFICES ASSUME ProcessInv, [Next]_vars PROVE ProcessInv'
  BY Zenon
<1> USE ProcessConstants DEF ProcessInv
<1>0. CASE UNCHANGED vars
  BY <1>0 DEF vars, outside, threads, TypeOK, Joins, PollNeverBlocks, Flow, Ends, Kinds
<1>1. ASSUME NEW k \in Kinds, Put(k), child' \in {"running", child} PROVE ProcessInv'
  <2> DEFINE s == Append(pipe[k], written[k] + 1)
  <2>0. /\ reader[k].bytes \in Chunks /\ pipe[k] \in Chunks /\ written[k] \in 0 .. MaxOutput
        /\ stream[k].received \in Chunks /\ chunks[k] \in Chunks /\ Flow(k) /\ Ends(k)
    BY ChunkFields, Zenon
  <2>a. written[k] \in Nat /\ written[k] + 1 \in 1 .. MaxOutput
    <3>1. written[k] < MaxOutput
      BY <1>1, Zenon DEF Put
    <3> QED BY <2>0, <3>1
  <2>b. /\ s \in Chunks
        /\ Counted(reader[k].bytes, s, written[k] + 1, stream[k].received, chunks[k])
    BY <2>0, <2>a, CountedOutput, Zenon DEF Flow
  <2>c. /\ pipe' = [pipe EXCEPT ![k] = s]
        /\ written' = [written EXCEPT ![k] = written[k] + 1]
        /\ reader[k].at = "reading"
    BY <1>1, Zenon DEF Put
  <2> HIDE DEF s
  <2>1. TypeOK'
    <3>1. pipe' \in [Kinds -> Chunks]
      BY <2>b, <2>c, Zenon DEF TypeOK
    <3>2. written' \in [Kinds -> 0 .. MaxOutput]
      BY <2>a, <2>c DEF TypeOK
    <3> QED BY <1>1, <3>1, <3>2, Zenon DEF Put, TypeOK, threads
  <2>2. Joins' /\ PollNeverBlocks'
    BY <1>1, Zenon DEF Put, Joins, PollNeverBlocks, threads
  <2>3. ASSUME NEW j \in Kinds, j # k PROVE Flow(j)' /\ Ends(j)'
    <3>1. pipe'[j] = pipe[j] /\ written'[j] = written[j]
      BY <2>c, <2>3, Zenon DEF TypeOK
    <3> QED BY <1>1, <3>1, Zenon DEF Put, Flow, Ends, threads
  <2>4. Flow(k)' /\ Ends(k)'
    <3>1. pipe'[k] = s /\ written'[k] = written[k] + 1
      BY <2>c, Zenon DEF TypeOK
    <3>2. /\ reader' = reader /\ stream' = stream /\ chunks' = chunks /\ record' = record
      BY <1>1, Zenon DEF Put, threads
    <3>3. Flow(k)'
      BY <2>b, <3>1, <3>2, Zenon DEF Flow
    <3>4. Ends(k)'
      BY <2>0, <2>c, <3>2, Zenon DEF Ends
    <3> QED BY <3>3, <3>4, Zenon
  <2> QED BY <2>1, <2>2, <2>3, <2>4, Zenon
<1>2. ASSUME NEW k \in Kinds, AskOutput(k) PROVE ProcessInv'
  <2>1. TypeOK'
    BY <1>2, Zenon DEF AskOutput, TypeOK, outside, threads, Kinds
  <2>2. Joins' /\ PollNeverBlocks'
    BY <1>2, Zenon DEF AskOutput, Joins, PollNeverBlocks, outside, threads
  <2>3. ASSUME NEW j \in Kinds PROVE Flow(j)' /\ Ends(j)'
    BY <1>2, Zenon DEF AskOutput, Flow, Ends, outside, threads
  <2> QED BY <2>1, <2>2, <2>3, Zenon
<1>3. ASSUME NEW k \in Kinds, Output(k) PROVE ProcessInv'
  <2>1. CASE Put(k)
    BY <1>1, <1>3, <2>1, Zenon DEF Output
  <2>2. CASE UNCHANGED <<descendant, input, pipe, written, threads, record, stream, call>>
    <3>1. TypeOK'
      BY <1>3, <2>2, Zenon DEF Output, TypeOK, threads
    <3>2. Joins' /\ PollNeverBlocks'
      BY <2>2, Zenon DEF Joins, PollNeverBlocks, threads
    <3>3. ASSUME NEW j \in Kinds PROVE Flow(j)' /\ Ends(j)'
      BY <2>2, Zenon DEF Flow, Ends, threads
    <3> QED BY <3>1, <3>2, <3>3
  <2> QED BY <1>3, <2>1, <2>2, Zenon DEF Output
<1>4. ASSUME NEW k \in Kinds, DescendantOutput(k) PROVE ProcessInv'
  BY <1>1, <1>4, Zenon DEF DescendantOutput
<1>5. CASE AskInput
  <2>1. TypeOK'
    BY <1>5, Zenon DEF AskInput, TypeOK, outside, threads, Kinds
  <2>2. Joins' /\ PollNeverBlocks'
    BY <1>5, Zenon DEF AskInput, Joins, PollNeverBlocks, outside, threads
  <2>3. ASSUME NEW j \in Kinds PROVE Flow(j)' /\ Ends(j)'
    BY <1>5, Zenon DEF AskInput, Flow, Ends, outside, threads
  <2> QED BY <2>1, <2>2, <2>3, Zenon
<1>6. CASE GetInput
  <2>1. TypeOK'
    <3>1. input' \in [end: {"open", "closed", "eof"}, held: 0 .. Capacity]
      <4>1. input.held \in 0 .. Capacity
        BY Zenon DEF TypeOK
      <4>2. CASE input.held > 0 /\ input' = [input EXCEPT !.held = @ - 1]
        <5>1. input.held - 1 \in 0 .. Capacity
          BY <4>1, <4>2
        <5> QED BY <4>2, <5>1, Zenon DEF TypeOK
      <4>3. CASE input' = [input EXCEPT !.end = "eof"]
        BY <4>3, Zenon DEF TypeOK
      <4> QED BY <1>6, <4>2, <4>3, Zenon DEF GetInput
    <3> QED BY <1>6, <3>1, Zenon DEF GetInput, TypeOK, threads
  <2>2. Joins' /\ PollNeverBlocks'
    BY <1>6, Zenon DEF GetInput, Joins, PollNeverBlocks, threads
  <2>3. ASSUME NEW j \in Kinds PROVE Flow(j)' /\ Ends(j)'
    BY <1>6, Zenon DEF GetInput, Flow, Ends, threads
  <2> QED BY <2>1, <2>2, <2>3
<1>7. CASE Fork
  <2>1. TypeOK'
    BY <1>7, Zenon DEF Fork, TypeOK, outside, threads, Kinds
  <2>2. Joins' /\ PollNeverBlocks'
    BY <1>7, Zenon DEF Fork, Joins, PollNeverBlocks, outside, threads
  <2>3. ASSUME NEW j \in Kinds PROVE Flow(j)' /\ Ends(j)'
    BY <1>7, Zenon DEF Fork, Flow, Ends, outside, threads
  <2> QED BY <2>1, <2>2, <2>3
<1>8. CASE Exit
  <2>1. TypeOK'
    BY <1>8, Zenon DEF Exit, TypeOK, outside, threads, Kinds
  <2>2. Joins' /\ PollNeverBlocks'
    BY <1>8, Zenon DEF Exit, Joins, PollNeverBlocks, outside, threads
  <2>3. ASSUME NEW j \in Kinds PROVE Flow(j)' /\ Ends(j)'
    BY <1>8, Zenon DEF Exit, Flow, Ends, outside, threads
  <2> QED BY <2>1, <2>2, <2>3
<1>9. CASE DescendantExit
  <2>1. TypeOK'
    BY <1>9, Zenon DEF DescendantExit, TypeOK, outside, threads, Kinds
  <2>2. Joins' /\ PollNeverBlocks'
    BY <1>9, Zenon DEF DescendantExit, Joins, PollNeverBlocks, outside, threads
  <2>3. ASSUME NEW j \in Kinds PROVE Flow(j)' /\ Ends(j)'
    BY <1>9, Zenon DEF DescendantExit, Flow, Ends, outside, threads
  <2> QED BY <2>1, <2>2, <2>3
<1>10. ASSUME NEW k \in Kinds, ReadChunk(k) PROVE ProcessInv'
  <2> DEFINE t == Tail(pipe[k])
             b == Append(reader[k].bytes, Head(pipe[k]))
             c == Append(chunks[k], Head(pipe[k]))
  <2>0. /\ reader[k].bytes \in Chunks /\ pipe[k] \in Chunks /\ written[k] \in 0 .. MaxOutput
        /\ stream[k].received \in Chunks /\ chunks[k] \in Chunks /\ Flow(k) /\ Ends(k)
    BY ChunkFields
  <2>a. written[k] \in Nat
    BY <2>0
  <2>b. /\ t \in Chunks /\ b \in Chunks /\ c \in Chunks
        /\ Counted(b, t, written[k], stream[k].received, c)
    BY <1>10, <2>0, <2>a, CountedRead, Zenon DEF ReadChunk, Flow
  <2>c. /\ pipe' = [pipe EXCEPT ![k] = t]
        /\ reader' = [reader EXCEPT ![k].bytes = b]
        /\ chunks' = [chunks EXCEPT ![k] = c]
        /\ reader[k].at = "reading"
    BY <1>10, Zenon DEF ReadChunk
  <2>d. written' = written /\ stream' = stream /\ record' = record /\ call' = call
    BY <1>10, Zenon DEF ReadChunk
  <2> HIDE DEF t, b, c
  <2>e. /\ reader' \in [Kinds -> ReaderStates]
        /\ reader'[k].bytes = b /\ reader'[k].at = "reading"
        /\ \A j \in Kinds : j # k => reader'[j] = reader[j]
    <3>1. reader \in [Kinds -> ReaderStates]
      BY Zenon DEF TypeOK
    <3> QED BY <2>b, <2>c, <3>1, ReaderBytes
  <2>f. /\ pipe' \in [Kinds -> Chunks] /\ chunks' \in [Kinds -> Chunks]
        /\ pipe'[k] = t /\ chunks'[k] = c
        /\ \A j \in Kinds : j # k => pipe'[j] = pipe[j] /\ chunks'[j] = chunks[j]
    <3>1. pipe \in [Kinds -> Chunks] /\ chunks \in [Kinds -> Chunks]
      BY Zenon DEF TypeOK
    <3> QED BY <2>b, <2>c, <3>1, Zenon
  <2>1. TypeOK'
    BY <1>10, <2>e, <2>f, Zenon DEF ReadChunk, TypeOK
  <2>2. Joins' /\ PollNeverBlocks'
    <3>1. \A j \in Kinds : reader'[j].at = reader[j].at
      BY <2>c, <2>e, Zenon
    <3>2. "stdout" \in Kinds /\ "stderr" \in Kinds
      BY Zenon DEF Kinds
    <3> QED BY <2>d, <3>1, <3>2, Zenon DEF Joins, PollNeverBlocks
  <2>3. ASSUME NEW j \in Kinds, j # k PROVE Flow(j)' /\ Ends(j)'
    BY <2>3, <2>d, <2>e, <2>f, Zenon DEF Flow, Ends
  <2>4. Flow(k)'
    BY <2>b, <2>d, <2>e, <2>f, Zenon DEF Flow
  <2>5. Ends(k)'
    BY <2>0, <2>c, <2>d, <2>e, Zenon DEF Ends
  <2> QED BY <2>1, <2>2, <2>3, <2>4, <2>5, Zenon
<1>11. ASSUME NEW k \in Kinds, ReadEnd(k) PROVE ProcessInv'
  <2>a. /\ reader' \in [Kinds -> ReaderStates]
        /\ reader'[k].at = "finished" /\ reader'[k].bytes = reader[k].bytes
        /\ \A j \in Kinds : j # k => reader'[j] = reader[j]
    <3> DEFINE v == [reader[k] EXCEPT !.at = "finished"]
    <3>1. reader \in [Kinds -> ReaderStates] /\ reader[k] \in ReaderStates
      BY Zenon DEF TypeOK
    <3>2. v \in ReaderStates /\ v.at = "finished" /\ v.bytes = reader[k].bytes
      BY <3>1, Zenon DEF ReaderStates
    <3>3. reader' = [reader EXCEPT ![k] = v]
      BY <1>11, Zenon DEF ReadEnd
    <3> HIDE DEF v
    <3> QED BY <3>1, <3>2, <3>3, Zenon
  <2>b. pipe[k] = <<>>
    BY <1>11, Zenon DEF ReadEnd, Closed
  <2>c. /\ pipe' = pipe /\ written' = written /\ stream' = stream /\ chunks' = chunks
        /\ record' = record /\ call' = call /\ reader[k].at = "reading"
    BY <1>11, Zenon DEF ReadEnd, outside
  <2>1. TypeOK'
    BY <1>11, <2>a, Zenon DEF ReadEnd, TypeOK, outside
  <2>2. Joins' /\ PollNeverBlocks'
    <3>1. \A j \in Kinds : reader'[j].at = reader[j].at
                           \/ (reader[j].at = "reading" /\ reader'[j].at = "finished")
      BY <2>a, <2>c, Zenon
    <3>2. "stdout" \in Kinds /\ "stderr" \in Kinds
      BY DEF Kinds
    <3> QED BY <2>c, <3>1, <3>2, Zenon DEF Joins, PollNeverBlocks
  <2>3. ASSUME NEW j \in Kinds PROVE Flow(j)'
    BY <2>a, <2>c, Zenon DEF Flow
  <2>4. ASSUME NEW j \in Kinds, j # k PROVE Ends(j)'
    BY <2>4, <2>a, <2>c, Zenon DEF Ends
  <2>5. Ends(k)'
    BY <2>a, <2>b, <2>c, Zenon DEF Ends
  <2> QED BY <2>1, <2>2, <2>3, <2>4, <2>5, Zenon
<1>12. ASSUME NEW k \in Kinds, ReadFails(k) PROVE ProcessInv'
  <2>0. PICK a \in {"finished", "panicked"} : reader' = [reader EXCEPT ![k].at = a, ![k].failed = TRUE]
    BY <1>12, Zenon DEF ReadFails
  <2>a. /\ reader' \in [Kinds -> ReaderStates]
        /\ reader'[k].at = a /\ reader'[k].bytes = reader[k].bytes /\ reader'[k].failed
        /\ \A j \in Kinds : j # k => reader'[j] = reader[j]
    <3> DEFINE v == [reader[k] EXCEPT !.at = a, !.failed = TRUE]
    <3>1. reader \in [Kinds -> ReaderStates] /\ reader[k] \in ReaderStates
      BY DEF TypeOK
    <3>2. v \in ReaderStates /\ v.at = a /\ v.bytes = reader[k].bytes /\ v.failed
      BY <3>1, Zenon DEF ReaderStates
    <3>3. reader' = [reader EXCEPT ![k] = v]
      BY <2>0, Zenon
    <3> HIDE DEF v
    <3> QED BY <3>1, <3>2, <3>3, Zenon
  <2>c. /\ pipe' = pipe /\ written' = written /\ stream' = stream /\ chunks' = chunks
        /\ record' = record /\ call' = call /\ reader[k].at = "reading"
    BY <1>12, Zenon DEF ReadFails, outside
  <2>1. TypeOK'
    BY <1>12, <2>a, Zenon DEF ReadFails, TypeOK, outside
  <2>2. Joins' /\ PollNeverBlocks'
    <3>1. \A j \in Kinds : reader'[j].at = reader[j].at
                           \/ (reader[j].at = "reading" /\ reader'[j].at \in {"finished", "panicked"})
      BY <2>a, <2>c, Zenon
    <3>2. "stdout" \in Kinds /\ "stderr" \in Kinds
      BY DEF Kinds
    <3> QED BY <2>c, <3>1, <3>2, Zenon DEF Joins, PollNeverBlocks
  <2>3. ASSUME NEW j \in Kinds PROVE Flow(j)'
    BY <2>a, <2>c, Zenon DEF Flow
  <2>4. ASSUME NEW j \in Kinds, j # k PROVE Ends(j)'
    BY <2>4, <2>a, <2>c, Zenon DEF Ends
  <2>5. Ends(k)'
    BY <2>a, <2>c, Zenon DEF Ends
  <2> QED BY <2>1, <2>2, <2>3, <2>4, <2>5
<1>13. CASE Poll
  <2>0. record \in RecordStates /\ record' = [record EXCEPT !.exit = TRUE] /\ call \in CallStates
    BY <1>13, Zenon DEF Poll, TypeOK
  <2>a. /\ record' \in RecordStates /\ record'.exit
        /\ record'.stdout = record.stdout /\ record'.stderr = record.stderr
    BY <2>0, Zenon DEF RecordStates
  <2>b. call' \in CallStates /\ call'.op = "join-stdout"
    BY <1>13, <2>0, Zenon DEF Poll, CallStates
  <2>1. TypeOK'
    BY <1>13, <2>a, <2>b, Zenon DEF Poll, TypeOK, outside, threads
  <2>2. Joins'
    <3>1. reader' = reader /\ \A k \in Kinds : reader[k].at # "joined"
      BY <1>13, Zenon DEF Poll, Joins, threads
    <3> QED BY <2>a, <2>b, <3>1, Zenon DEF Joins
  <2>3. PollNeverBlocks'
    <3>1. \A k \in Kinds : reader'[k].at # "reading" /\ reader'[k].at # "joined"
      BY <1>13, Zenon DEF Poll, Finished, Joins, threads
    <3>2. \A k \in Kinds : reader'[k].at \in {"reading", "finished", "panicked", "joined"}
      BY <2>1, Zenon DEF TypeOK, ReaderStates
    <3> QED BY <2>b, <3>1, <3>2, Zenon DEF PollNeverBlocks
  <2>4. ASSUME NEW j \in Kinds PROVE Flow(j)' /\ Ends(j)'
    <3>1. record'[j] = record[j]
      BY <2>a, Zenon DEF Kinds
    <3> QED BY <1>13, <3>1, Zenon DEF Poll, Flow, Ends, outside, threads
  <2> QED BY <2>1, <2>2, <2>3, <2>4, Zenon
<1>14. ASSUME NEW w \in {"exit"} \cup Kinds, Deref(w) PROVE ProcessInv'
  <2>0. call' \in CallStates /\ call.op = "idle" /\ call'.op = "idle"
    <3>1. call \in CallStates
      BY Zenon DEF TypeOK
    <3> QED BY <1>14, <3>1, Zenon DEF Deref, NoCall, CallStates
  <2>1. TypeOK'
    BY <1>14, <2>0, Zenon DEF Deref, TypeOK, outside, threads
  <2>2. Joins' /\ PollNeverBlocks'
    BY <1>14, <2>0, Zenon DEF Deref, Joins, PollNeverBlocks, threads
  <2>3. ASSUME NEW j \in Kinds PROVE Flow(j)' /\ Ends(j)'
    BY <1>14, Zenon DEF Deref, Flow, Ends, outside, threads
  <2> QED BY <2>1, <2>2, <2>3
<1>16. CASE JoinStdout
  <2>f. call \in CallStates /\ "stdout" \in Kinds /\ "stderr" \in Kinds
    BY Zenon DEF TypeOK, Kinds
  <2>p. CASE reader["stdout"].at = "panicked"
    <3>0. /\ UNCHANGED <<outside, threads, record, stream>> /\ call.op = "join-stdout"
          /\ call' = [call EXCEPT !.op = "idle"]
      BY <1>16, <2>p, Zenon DEF JoinStdout, threads
    <3>1. call' \in CallStates /\ call'.op = "idle"
      BY <2>f, <3>0, Zenon DEF CallStates
    <3>2. TypeOK'
      BY <3>0, <3>1, Zenon DEF TypeOK, outside, threads
    <3>3. Joins' /\ PollNeverBlocks'
      <4>1. record.exit
        BY <3>0, Zenon DEF Joins
      <4> QED BY <2>f, <2>p, <3>0, <3>1, <4>1, Zenon DEF Joins, PollNeverBlocks, threads
    <3>4. ASSUME NEW j \in Kinds PROVE Flow(j)' /\ Ends(j)'
      BY <3>0, Zenon DEF Flow, Ends, outside, threads
    <3> QED BY <3>2, <3>3, <3>4, Zenon
  <2>q. CASE reader["stdout"].at # "panicked"
    <3>0. /\ reader["stdout"].bytes \in Chunks /\ "stdout" \in Kinds /\ "stderr" \in Kinds
          /\ Flow("stdout") /\ Ends("stdout") /\ Flow("stderr") /\ Ends("stderr")
      BY ChunkFields, Zenon DEF Kinds
    <3>a. /\ reader' \in [Kinds -> ReaderStates]
          /\ reader'["stdout"].bytes = reader["stdout"].bytes
          /\ reader'["stdout"].failed = reader["stdout"].failed
          /\ reader'["stdout"].at = "joined" /\ reader'["stderr"] = reader["stderr"]
      <4> DEFINE v == [reader["stdout"] EXCEPT !.at = "joined"]
      <4>1. reader \in [Kinds -> ReaderStates] /\ reader["stdout"] \in ReaderStates
        BY <3>0, Zenon DEF TypeOK
      <4>2. /\ v \in ReaderStates /\ v.at = "joined"
            /\ v.bytes = reader["stdout"].bytes /\ v.failed = reader["stdout"].failed
        BY <4>1, Zenon DEF ReaderStates
      <4>3. reader' = [reader EXCEPT !["stdout"] = v]
        BY <1>16, <2>q, Zenon DEF JoinStdout
      <4> HIDE DEF v
      <4> QED BY <3>0, <4>1, <4>2, <4>3, Zenon
    <3>b. /\ record' \in RecordStates /\ record'.stdout = reader["stdout"].bytes
          /\ record'.stderr = record.stderr /\ record'.exit = record.exit
      <4>1. record \in RecordStates /\ record' = [record EXCEPT !.stdout = reader["stdout"].bytes]
        BY <1>16, <2>q, Zenon DEF JoinStdout, TypeOK
      <4> QED BY <3>0, <4>1, Zenon DEF RecordStates
    <3>c. call' \in CallStates /\ call'.op = "join-stderr"
      <4>1. call \in CallStates
        BY Zenon DEF TypeOK
      <4> QED BY <1>16, <2>q, <4>1, Zenon DEF JoinStdout, CallStates, Kinds
    <3>d. /\ pipe' = pipe /\ written' = written /\ stream' = stream /\ chunks' = chunks
          /\ reader["stdout"].at = "finished" /\ call.op = "join-stdout"
      BY <1>16, <2>q, Zenon DEF JoinStdout, outside
    <3>1. TypeOK'
      BY <1>16, <2>q, <3>a, <3>b, <3>c, Zenon DEF JoinStdout, TypeOK, outside
    <3>2. Joins' /\ PollNeverBlocks'
      <4>1. record.exit /\ reader["stderr"].at # "joined" /\ reader["stderr"].at \in {"finished", "panicked"}
        BY <3>0, <3>d, Zenon DEF Joins, PollNeverBlocks
      <4>2. record'.stdout # NotRead
        BY <3>0, <3>b, NotReadIsNoOutput, Zenon
      <4> QED BY <3>a, <3>b, <3>c, <4>1, <4>2, Zenon DEF Joins, PollNeverBlocks
    <3>3. Flow("stderr")' /\ Ends("stderr")'
      BY <3>0, <3>a, <3>b, <3>d, Zenon DEF Flow, Ends
    <3>4. Flow("stdout")'
      BY <3>0, <3>a, <3>d, Zenon DEF Flow
    <3>5. Ends("stdout")'
      BY <3>0, <3>a, <3>b, <3>d, Zenon DEF Ends
    <3> QED BY <3>1, <3>2, <3>3, <3>4, <3>5, Zenon DEF Kinds
  <2> QED BY <2>p, <2>q, Zenon
<1>17. CASE JoinStderr
  <2>f. call \in CallStates /\ "stdout" \in Kinds /\ "stderr" \in Kinds
    BY Zenon DEF TypeOK, Kinds
  <2>p. CASE reader["stderr"].at = "panicked"
    <3>0. /\ UNCHANGED <<outside, threads, record, stream>> /\ call.op = "join-stderr"
          /\ call' = [call EXCEPT !.op = "idle"]
      BY <1>17, <2>p, Zenon DEF JoinStderr, threads
    <3>1. call' \in CallStates /\ call'.op = "idle"
      BY <2>f, <3>0, Zenon DEF CallStates
    <3>2. TypeOK'
      BY <3>0, <3>1, Zenon DEF TypeOK, outside, threads
    <3>3. Joins' /\ PollNeverBlocks'
      <4>1. record.exit
        BY <3>0, Zenon DEF Joins
      <4> QED BY <2>f, <2>p, <3>0, <3>1, <4>1, Zenon DEF Joins, PollNeverBlocks, threads, Kinds
    <3>4. ASSUME NEW j \in Kinds PROVE Flow(j)' /\ Ends(j)'
      BY <3>0, Zenon DEF Flow, Ends, outside, threads
    <3> QED BY <3>2, <3>3, <3>4, Zenon
  <2>q. CASE reader["stderr"].at # "panicked"
    <3>0. /\ reader["stderr"].bytes \in Chunks /\ "stderr" \in Kinds /\ "stdout" \in Kinds
          /\ Flow("stderr") /\ Ends("stderr") /\ Flow("stdout") /\ Ends("stdout")
      BY ChunkFields, Zenon DEF Kinds
    <3>a. /\ reader' \in [Kinds -> ReaderStates]
          /\ reader'["stderr"].bytes = reader["stderr"].bytes
          /\ reader'["stderr"].failed = reader["stderr"].failed
          /\ reader'["stderr"].at = "joined" /\ reader'["stdout"] = reader["stdout"]
      <4> DEFINE v == [reader["stderr"] EXCEPT !.at = "joined"]
      <4>1. reader \in [Kinds -> ReaderStates] /\ reader["stderr"] \in ReaderStates
        BY <3>0, Zenon DEF TypeOK
      <4>2. /\ v \in ReaderStates /\ v.at = "joined"
            /\ v.bytes = reader["stderr"].bytes /\ v.failed = reader["stderr"].failed
        BY <4>1, Zenon DEF ReaderStates
      <4>3. reader' = [reader EXCEPT !["stderr"] = v]
        BY <1>17, <2>q, Zenon DEF JoinStderr
      <4> HIDE DEF v
      <4> QED BY <3>0, <4>1, <4>2, <4>3, Zenon
    <3>b. /\ record' \in RecordStates /\ record'.stderr = reader["stderr"].bytes
          /\ record'.stdout = record.stdout /\ record'.exit = record.exit
      <4>1. record \in RecordStates /\ record' = [record EXCEPT !.stderr = reader["stderr"].bytes]
        BY <1>17, <2>q, Zenon DEF JoinStderr, TypeOK
      <4> QED BY <3>0, <4>1, Zenon DEF RecordStates
    <3>c. call' \in CallStates /\ call'.op = "idle"
      <4>1. call \in CallStates
        BY DEF TypeOK
      <4> QED BY <1>17, <2>q, <4>1, Zenon DEF JoinStderr, CallStates, Kinds, NoCall
    <3>d. /\ pipe' = pipe /\ written' = written /\ stream' = stream /\ chunks' = chunks
          /\ reader["stderr"].at = "finished" /\ call.op = "join-stderr"
      BY <1>17, <2>q, Zenon DEF JoinStderr, outside
    <3>1. TypeOK'
      BY <1>17, <2>q, <3>a, <3>b, <3>c, Zenon DEF JoinStderr, TypeOK, outside
    <3>2. Joins' /\ PollNeverBlocks'
      <4>1. record.exit /\ record.stdout # NotRead
        BY <3>d, Zenon DEF Joins
      <4>2. record'.stderr # NotRead
        BY <3>0, <3>b, NotReadIsNoOutput, Zenon
      <4>3. \A k \in Kinds : record'[k] # NotRead
        BY <3>b, <4>1, <4>2, Zenon DEF Kinds
      <4> QED BY <3>b, <3>c, <4>1, <4>3, Zenon DEF Joins, PollNeverBlocks
    <3>3. Flow("stdout")' /\ Ends("stdout")'
      BY <3>0, <3>a, <3>b, <3>d, Zenon DEF Flow, Ends
    <3>4. Flow("stderr")'
      BY <3>0, <3>a, <3>d, Zenon DEF Flow
    <3>5. Ends("stderr")'
      BY <3>0, <3>a, <3>b, <3>d, Zenon DEF Ends
    <3> QED BY <3>1, <3>2, <3>3, <3>4, <3>5, Zenon DEF Kinds
  <2> QED BY <2>p, <2>q, Zenon
<1>18. CASE Write
  <2>1. TypeOK'
    <3>1. call' \in CallStates
      BY <1>18, Zenon DEF Write, NoCall, CallStates
    <3> QED BY <1>18, <3>1, Zenon DEF Write, TypeOK, outside, threads
  <2>2. Joins' /\ PollNeverBlocks'
    BY <1>18, Zenon DEF Write, NoCall, Joins, PollNeverBlocks, outside, threads
  <2>3. ASSUME NEW j \in Kinds PROVE Flow(j)' /\ Ends(j)'
    BY <1>18, Zenon DEF Write, Flow, Ends, outside, threads
  <2> QED BY <2>1, <2>2, <2>3
<1>19. CASE WriteReturns
  <2>1. TypeOK'
    <3>1. call' \in CallStates
      BY <1>19, Zenon DEF WriteReturns, NoCall, CallStates, Kinds
    <3> QED BY <1>19, <3>1 DEF WriteReturns, TypeOK, outside, threads
  <2>2. Joins' /\ PollNeverBlocks'
    BY <1>19, Zenon DEF WriteReturns, NoCall, Joins, PollNeverBlocks, outside, threads
  <2>3. ASSUME NEW j \in Kinds PROVE Flow(j)' /\ Ends(j)'
    BY <1>19, Zenon DEF WriteReturns, Flow, Ends, outside, threads
  <2> QED BY <2>1, <2>2, <2>3
<1>20. CASE CloseInput
  <2>1. TypeOK'
    BY <1>20, Zenon DEF CloseInput, TypeOK, outside, threads, Kinds
  <2>2. Joins' /\ PollNeverBlocks'
    BY <1>20, Zenon DEF CloseInput, Joins, PollNeverBlocks, outside, threads
  <2>3. ASSUME NEW j \in Kinds PROVE Flow(j)' /\ Ends(j)'
    BY <1>20, Zenon DEF CloseInput, Flow, Ends, outside, threads
  <2> QED BY <2>1, <2>2, <2>3
<1>21. ASSUME NEW k \in Kinds, TakeStream(k) PROVE ProcessInv'
  <2>a. /\ stream' \in [Kinds -> StreamStates]
        /\ \A j \in Kinds : stream'[j].received = stream[j].received /\ stream'[j].ended = stream[j].ended
    <3> DEFINE v == [stream[k] EXCEPT !.taken = TRUE]
    <3>1. stream \in [Kinds -> StreamStates] /\ stream[k] \in StreamStates
      BY Zenon DEF TypeOK
    <3>2. v \in StreamStates /\ v.received = stream[k].received /\ v.ended = stream[k].ended
      BY <3>1, Zenon DEF StreamStates
    <3>3. stream' = [stream EXCEPT ![k] = v]
      BY <1>21, Zenon DEF TakeStream
    <3> HIDE DEF v
    <3> QED BY <3>1, <3>2, <3>3, Zenon
  <2>1. TypeOK'
    BY <1>21, <2>a, Zenon DEF TakeStream, TypeOK, outside, threads
  <2>2. Joins' /\ PollNeverBlocks'
    BY <1>21, Zenon DEF TakeStream, Joins, PollNeverBlocks, outside, threads
  <2>3. ASSUME NEW j \in Kinds PROVE Flow(j)' /\ Ends(j)'
    BY <1>21, <2>a, Zenon DEF TakeStream, Flow, Ends, outside, threads
  <2> QED BY <2>1, <2>2, <2>3
<1>22. ASSUME NEW k \in Kinds, StreamPoll(k) PROVE ProcessInv'
  <2>1. /\ chunks' \in [Kinds -> Chunks]
        /\ stream' \in [Kinds -> StreamStates]
        /\ \A j \in Kinds : Flow(j)' /\ Ends(j)'
    BY <1>22, ReceivedInv, Zenon DEF StreamPoll
  <2>2. TypeOK'
    BY <1>22, <2>1, Zenon DEF StreamPoll, TypeOK, outside
  <2>3. Joins' /\ PollNeverBlocks'
    BY <1>22, Zenon DEF StreamPoll, Joins, PollNeverBlocks, outside
  <2> QED BY <2>1, <2>2, <2>3, Zenon
<1>24. CASE DerefReturns
  <2>0. /\ UNCHANGED <<outside, reader, record>> /\ call' = NoCall /\ call.op = "idle"
        /\ NoCall \in CallStates /\ NoCall.op = "idle"
    BY <1>24, Zenon DEF DerefReturns, NoCall, CallStates
  <2>1. /\ chunks' \in [Kinds -> Chunks]
        /\ stream' \in [Kinds -> StreamStates]
        /\ \A j \in Kinds : Flow(j)' /\ Ends(j)'
    <3>1. CASE UNCHANGED <<chunks, stream>>
      BY <2>0, <3>1, Zenon DEF TypeOK, Flow, Ends, outside
    <3>2. CASE call.waits \in Kinds /\ Received(call.waits)
      BY <2>0, <3>2, ReceivedInv, Zenon
    <3> QED BY <1>24, <3>1, <3>2, Zenon DEF DerefReturns
  <2>2. TypeOK'
    BY <2>0, <2>1, Zenon DEF TypeOK, outside
  <2>3. Joins' /\ PollNeverBlocks'
    BY <2>0, Zenon DEF Joins, PollNeverBlocks
  <2> QED BY <2>1, <2>2, <2>3, Zenon
<1>25. CASE Kill
  <2>1. TypeOK'
    BY <1>25, Zenon DEF Kill, TypeOK, outside, threads, Kinds
  <2>2. Joins' /\ PollNeverBlocks'
    BY <1>25, Zenon DEF Kill, Joins, PollNeverBlocks, outside, threads
  <2>3. ASSUME NEW j \in Kinds PROVE Flow(j)' /\ Ends(j)'
    BY <1>25, Zenon DEF Kill, Flow, Ends, outside, threads
  <2> QED BY <2>1, <2>2, <2>3
<1>26. CASE Calls
  BY <1>13, <1>14, <1>18, <1>20, <1>25, <1>21, <1>22, <1>26, Zenon DEF Calls
<1>27. CASE CallStep
  BY <1>13, <1>16, <1>17, <1>19, <1>24, <1>27, Zenon DEF CallStep
<1>28. CASE Child
  BY <1>2, <1>3, <1>5, <1>6, <1>7, <1>8, <1>28, Zenon DEF Child
<1>29. CASE Descendant
  BY <1>9, <1>4, <1>29, Zenon DEF Descendant
<1>30. ASSUME NEW k \in Kinds, Reader(k) \/ ReadFails(k) PROVE ProcessInv'
  BY <1>10, <1>11, <1>12, <1>30, Zenon DEF Reader
<1> QED BY <1>0, <1>26, <1>27, <1>28, <1>29, <1>30, Zenon DEF Next

----------------------------------------------------------------------------
(* finish(handle, false) never blocks, whatever the child's descendants hold
   open: when a poll goes on to join the readers, both have ended. *)
THEOREM PollsNeverBlock == Spec => []PollNeverBlocks
<1>1. ProcessInv => PollNeverBlocks
  BY Zenon DEF ProcessInv
<1> QED BY InitProcessInv, NextProcessInv, <1>1, PTL DEF Spec

(* The output reported with the exit status and the chunks a stream delivered
   are all that was written, in order, each once, unless a read failed or a
   reader panicked. *)
THEOREM OutputStaysComplete == Spec => []OutputIsComplete
<1>1. ProcessInv => OutputIsComplete
  <2> SUFFICES ASSUME ProcessInv, NEW k \in Kinds
               PROVE /\ (record.exit /\ call.op \notin {"join-stdout", "join-stderr"}) =>
                          /\ InOrder(Reported(k), written[k])
                          /\ \/ reader[k].failed \/ reader["stdout"].at = "panicked"
                             \/ Reported(k) = First(written[k])
                     /\ InOrder(stream[k].received, written[k])
                     /\ stream[k].ended => stream[k].received = reader[k].bytes
                     /\ stream[k].ended /\ ~reader[k].failed => stream[k].received = First(written[k])
    BY Zenon DEF OutputIsComplete
  <2> DEFINE b == reader[k].bytes
             r == stream[k].received
  <2>1. /\ b \in Chunks /\ r \in Chunks /\ chunks[k] \in Chunks /\ pipe[k] \in Chunks
        /\ written[k] \in Nat /\ Counted(b, pipe[k], written[k], r, chunks[k]) /\ Ends(k)
    BY ProcessConstants, ChunkFields DEF ProcessInv, Flow
  <2>2. /\ Len(b) \in Nat /\ Len(r) \in Nat /\ Len(chunks[k]) \in Nat /\ Len(pipe[k]) \in Nat
        /\ (chunks[k] = <<>> => Len(chunks[k]) = 0) /\ (pipe[k] = <<>> => Len(pipe[k]) = 0)
    BY <2>1, LenChunks, Zenon
  <2> HIDE DEF b, r
  <2>3. /\ Len(b) <= written[k] /\ Len(r) <= Len(b) /\ Len(r) <= written[k]
        /\ From(0, b) /\ From(0, r)
        /\ chunks[k] = <<>> => Len(r) = Len(b)
        /\ pipe[k] = <<>> => Len(b) = written[k]
    BY <2>1, <2>2 DEF Counted
  <2>4. InOrder(b, written[k]) /\ (Len(b) = written[k] => b = First(written[k]))
    BY <2>1, <2>3, FromIsFirst, Zenon
  <2>5. InOrder(r, written[k]) /\ (Len(r) = written[k] => r = First(written[k]))
    BY <2>1, <2>3, FromIsFirst, Zenon
  <2>6. Len(r) = Len(b) => r = b
    <3>1. r \in Seq(1 .. MaxOutput) /\ b \in Seq(1 .. MaxOutput)
      BY <2>1, Zenon DEF Chunks
    <3> QED BY <2>3, <3>1 DEF From
  <2>7. (record.exit /\ call.op \notin {"join-stdout", "join-stderr"}) =>
          /\ InOrder(Reported(k), written[k])
          /\ reader[k].failed \/ reader["stdout"].at = "panicked" \/ Reported(k) = First(written[k])
    <3>1. record[k] # NotRead => InOrder(record[k], written[k]) /\ (reader[k].failed \/ record[k] = First(written[k]))
      BY <2>1, <2>3, <2>4, Zenon DEF Ends, b
    <3>2. InOrder(<<>>, written[k])
      <4>1. <<>> \in Chunks /\ Len(<<>>) = 0 /\ From(0, <<>>) /\ 0 <= written[k]
        BY <2>1 DEF Chunks, From
      <4> QED BY <2>1, <4>1, FromIsFirst, Zenon
    <3>3. (record.exit /\ call.op \notin {"join-stdout", "join-stderr"}) =>
            record[k] # NotRead \/ reader["stdout"].at = "panicked" \/ reader[k].failed
      BY <2>1, Zenon DEF ProcessInv, Joins, Ends
    <3> QED BY <3>1, <3>2, <3>3, Zenon DEF Reported
  <2>8. stream[k].ended => r = b
    BY <2>1, <2>3, <2>6, Zenon DEF Ends
  <2>9. stream[k].ended /\ ~reader[k].failed => r = First(written[k])
    BY <2>1, <2>3, <2>4, <2>8, Zenon DEF Ends
  <2> QED BY <2>5, <2>7, <2>8, <2>9, Zenon DEF b, r
<1> QED BY InitProcessInv, NextProcessInv, <1>1, PTL DEF Spec

=============================================================================
