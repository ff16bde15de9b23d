------------------------------ MODULE PleHandoff ------------------------------
(***************************************************************************)
(* The hand-off of one step's per-layer embedding (PLE) rows between two   *)
(* tensor-parallel ranks: the input-driven GDS connector of rank 0         *)
(* (src/src/vllm_ple_gds_runner.py, same-process reader), the TP2          *)
(* transport of both ranks (src/src/tp_ple_transport.py) and the order in  *)
(* which the model runner calls them.                                      *)
(*                                                                         *)
(* A CUDA stream is a FIFO queue of operations that the device executes    *)
(* asynchronously; the host threads only enqueue.  Every operation that    *)
(* moves data has a beginning and an end, so that two of them can overlap. *)
(* The contents of a buffer are the number of the step whose data it       *)
(* holds; 0 is zeros.                                                      *)
(***************************************************************************)
EXTENDS Integers, Sequences, FiniteSets

CONSTANTS
    MaxStep,      \* forward passes of one behaviour (the bound of the model)
    Serialize,    \* Q38_PLE_SERIALIZE_LARGE_INPUTS
    VerifySteps,  \* Q38_TP_PLE_VERIFY_STEPS
    Dispatch,     \* values of sync_steps that a behaviour may have
    Faults        \* the sets of faults, of "read" and "timeout", a behaviour may meet

ASSUME StepAssumption == MaxStep \in Nat \ {0} /\ VerifySteps \in Nat
ASSUME ModeAssumption == Serialize \in BOOLEAN /\ Dispatch \subseteq BOOLEAN
ASSUME FaultAssumption == Faults \subseteq SUBSET {"read", "timeout"}

Ranks == {0, 1}
Steps == 1..MaxStep
Kinds == {"dummy", "full", "dynamic"}

Main(r) == <<"main", r>>
Tp(r)   == <<"transport", r>>
D2H     == <<"d2h", 0>>
Reader  == <<"reader", 0>>
Error   == <<"error", 0>>
Streams == {Main(0), Main(1), Tp(0), Tp(1), D2H, Reader, Error}

Events == {"input_ready", "d2h_done", "done0", "done1"}
Done(r) == IF r = 0 THEN "done0" ELSE "done1"

VARIABLES
    sync_steps, \* the executor dispatches a step after the previous result
    faults,    \* what may go wrong in this behaviour
    kind,      \* kind[n]: how step n is dispatched (the workload)
    queue,     \* queue[s]: operations enqueued on stream s and not finished
    busy,      \* streams whose first operation has begun
    recorded,  \* recorded[e]: times event e was recorded by the host
    fired,     \* fired[e]: records of e the device has reached
    flag,      \* flag[r]: CpuGpuSemaphore of rank r
    inputs,    \* step whose tokens the stable GPU input buffers hold (rank 0)
    pinned,    \* step whose tokens the pinned host buffers hold
    output,    \* output[r]: step whose PLE rows the output of rank r holds
    got,       \* got[r][n]: what the forward of step n on rank r read
    pc,        \* pc[r]: where the model thread of rank r is
    step,      \* step[r]: the step it is in
    verify,    \* verify[r]: verify_remaining
    digest,    \* digest[r]: the payload digest rank r brings to the gather
    finished,  \* last step whose result rank 0 returned to the executor
    active,    \* _active_sequence (0 is None)
    records,   \* keys of _records
    completed, \* sequences whose record says completed
    released,  \* sequences whose record says released
    mailbox,   \* _request_queue (0 is empty, -1 is the None sentinel)
    enqueued,  \* _metadata_enqueued_sequence
    error,     \* _error is not None
    closed,    \* _closed
    req,       \* where the request thread is
    reqSeq,    \* the request it serves
    rows       \* the step whose row ids it planned

gpu   == <<queue, busy, recorded, fired, flag, inputs, pinned, output, got>>
hosts == <<pc, step, verify, digest, finished>>
conn  == <<active, records, completed, released, mailbox, enqueued, error, closed>>
rqst  == <<req, reqSeq, rows>>
workload == <<sync_steps, faults, kind>>
vars  == <<workload, gpu, hosts, conn, rqst>>

Real(n)   == kind[n] # "dummy"
Serial(n) == Serialize /\ kind[n] = "dynamic"

-----------------------------------------------------------------------------
(* Stream operations.                                                      *)

Op(o, n)      == [op |-> o, n |-> n, ev |-> "none"]
Record(e)     == [op |-> "record", n |-> 0, ev |-> e]
WaitEvent(e)  == [op |-> "wait_event", n |-> recorded[e], ev |-> e]
WaitValue(v)  == Op("wait_value", v)
WriteValue(v) == Op("write_value", v)

Moves == {"stage", "copy", "gather", "zero", "broadcast", "consume"}

Buffers == {"inputs", "pinned", "output0", "output1"}
Out(r) == IF r = 0 THEN "output0" ELSE "output1"

\* The buffers the operation o reads and writes when stream s executes it.
Reads(o, s) ==
    CASE o.op = "copy" -> {"inputs"}
      [] o.op = "consume" -> {Out(s[2])}
      [] o.op = "broadcast" /\ s[2] = 0 -> {"output0"}
      [] OTHER -> {}
Writes(o, s) ==
    CASE o.op = "stage" -> {"inputs"}
      [] o.op = "copy" -> {"pinned"}
      [] o.op \in {"gather", "zero"} -> {Out(s[2])}
      [] o.op = "broadcast" /\ s[2] = 1 -> {"output1"}
      [] OTHER -> {}

Idle(s) == queue[s] = <<>>

\* The queues after the host appends the sequence ops to stream s.
On(s, ops) == [queue EXCEPT ![s] = @ \o ops]

-----------------------------------------------------------------------------
\* A run of the program begins with dummy passes (profiling, graph capture);
\* the first real pass after them is a prefill, dispatched without a graph.
Workloads ==
    {k \in [Steps -> Kinds] :
        /\ k[1] # "full"
        /\ \A n \in Steps \ {1} :
            /\ k[n] = "dummy" => k[n-1] = "dummy"
            /\ k[n-1] = "dummy" => k[n] # "full"}

\* Bounds of the behaviours with faults: steps dispatched in turn, a dummy
\* pass first.
Init ==
    /\ sync_steps \in Dispatch /\ faults \in Faults
    /\ kind \in Workloads
    /\ faults # {} => sync_steps /\ kind[1] = "dummy"
    /\ queue = [s \in Streams |-> <<>>]
    /\ busy = {}
    /\ recorded = [e \in Events |-> 0]
    /\ fired = [e \in Events |-> 0]
    /\ flag = [r \in Ranks |-> 0]
    /\ inputs = 0 /\ pinned = 0
    /\ output = [r \in Ranks |-> 0]
    /\ got = [r \in Ranks |-> [n \in Steps |-> -1]]
    /\ pc = [r \in Ranks |-> "idle"]
    /\ step = [r \in Ranks |-> 0]
    /\ verify = [r \in Ranks |-> VerifySteps]
    /\ digest = [r \in Ranks |-> 0]
    /\ finished = 0
    /\ active = 0 /\ records = {} /\ completed = {} /\ released = {}
    /\ mailbox = 0 /\ enqueued = 0
    /\ error = FALSE /\ closed = FALSE
    /\ req = "get" /\ reqSeq = 0 /\ rows = 0

-----------------------------------------------------------------------------
(* The device.                                                             *)

\* Stream s executes an operation that moves no data.
Execute(s) ==
    /\ ~Idle(s)
    /\ LET o == Head(queue[s]) IN
       /\ o.op \notin Moves
       /\ o.op = "wait_event" => fired[o.ev] >= o.n
       /\ o.op = "wait_value" => flag[s[2]] = o.n
       /\ fired' = IF o.op = "record" THEN [fired EXCEPT ![o.ev] = @ + 1] ELSE fired
       /\ flag' = IF o.op = "write_value" THEN [flag EXCEPT ![s[2]] = o.n] ELSE flag
    /\ queue' = [queue EXCEPT ![s] = Tail(@)]
    /\ UNCHANGED <<workload, busy, recorded, inputs, pinned, output, got, hosts, conn, rqst>>

Moving(s) == ~Idle(s) /\ Head(queue[s]).op \in Moves \ {"broadcast"}

StartMove(s) ==
    /\ Moving(s) /\ s \notin busy
    /\ busy' = busy \cup {s}
    /\ UNCHANGED <<workload, queue, recorded, fired, flag, inputs, pinned, output, got,
                   hosts, conn, rqst>>

FinishMove(s) ==
    /\ Moving(s) /\ s \in busy
    /\ busy' = busy \ {s}
    /\ queue' = [queue EXCEPT ![s] = Tail(@)]
    /\ LET o == Head(queue[s]) IN
       /\ inputs' = IF o.op = "stage" THEN o.n ELSE inputs
       /\ pinned' = IF o.op = "copy" THEN inputs ELSE pinned
       /\ output' = IF o.op \in {"gather", "zero"}
                      THEN [output EXCEPT ![s[2]] = o.n] ELSE output
       /\ got' = IF o.op = "consume"
                   THEN [got EXCEPT ![s[2]][o.n] = output[s[2]]] ELSE got
    /\ UNCHANGED <<workload, recorded, fired, flag, hosts, conn, rqst>>

\* NCCL matches the broadcasts of the two ranks by order.
Broadcasting == \A r \in Ranks : ~Idle(Tp(r)) /\ Head(queue[Tp(r)]).op = "broadcast"

StartBroadcast ==
    /\ Broadcasting /\ Tp(0) \notin busy
    /\ busy' = busy \cup {Tp(0), Tp(1)}
    /\ UNCHANGED <<workload, queue, recorded, fired, flag, inputs, pinned, output, got,
                   hosts, conn, rqst>>

FinishBroadcast ==
    /\ Broadcasting /\ Tp(0) \in busy
    /\ busy' = busy \ {Tp(0), Tp(1)}
    /\ output' = [output EXCEPT ![1] = output[0]]
    /\ queue' = [queue EXCEPT ![Tp(0)] = Tail(@), ![Tp(1)] = Tail(@)]
    /\ UNCHANGED <<workload, recorded, fired, flag, inputs, pinned, got, hosts, conn, rqst>>

Device(s) == Execute(s) \/ StartMove(s) \/ FinishMove(s)
Collective == StartBroadcast \/ FinishBroadcast

-----------------------------------------------------------------------------
(* The model thread of rank r.                                             *)

Goto(r, label) == pc' = [pc EXCEPT ![r] = label]

\* What follows the transport, on rank r.  Mutant: one check too many.
TransferredOnceMore(r) == IF verify[r] >= 0 THEN "verify" ELSE "forward"
Transferred(r) == IF verify[r] > 0 THEN "verify" ELSE "forward"

\* What follows the input hand-off of step n on the owner.  Mutant: the owner
\* goes to the rendezvous without waiting for its own output.
HandedOffUnready(n) == IF Serial(n) THEN "status" ELSE "transport"
HandedOff(n) == IF Serial(n) THEN "ready" ELSE "transport"

\* execute_model starts: prepare_inputs writes the stable input buffers.
Begin(r) ==
    /\ pc[r] = "idle" /\ step[r] < MaxStep
    /\ sync_steps => step[r] <= finished
    /\ step' = [step EXCEPT ![r] = @ + 1]
    /\ LET n == step[r] + 1 IN
       /\ queue' = IF r = 0 THEN On(Main(0), <<Op("stage", n)>>) ELSE queue
       /\ Goto(r, CASE ~Real(n) -> "dummy" [] Serial(n) -> "sync" [] OTHER -> "prepare")
    /\ UNCHANGED <<workload, busy, recorded, fired, flag, inputs, pinned, output, got,
                   verify, digest, finished, conn, rqst>>

\* torch.cuda.current_stream().synchronize() of the serialized path
SyncMain(r) ==
    /\ pc[r] = "sync" /\ Idle(Main(r))
    /\ Goto(r, "prepare")
    /\ UNCHANGED <<workload, gpu, step, verify, digest, finished, conn, rqst>>

\* An exception in prepare_forward of rank 0: the serialized path takes it to
\* the rendezvous, the other path raises it at once.
Raise(n) == IF Serial(n) THEN "status_failed" ELSE "failed"

\* _fail: the first error stays, and the GPU wait of the active sequence is
\* woken with zeros on the error stream unless the failure is of another one.
Woken(mine) == active # 0 /\ mine
Wakeup == On(Error, <<Op("zero", 0), WriteValue(1)>>)

Launch ==
    /\ pc[0] = "prepare"
    /\ LET n == step[0] IN
       \/ /\ error
          /\ Goto(0, Raise(n))
          /\ UNCHANGED <<queue, recorded, active, records, mailbox, error>>
       \/ /\ ~error /\ active = 0
          /\ active' = n
          /\ records' = records \cup {n}
          /\ recorded' = [recorded EXCEPT !["input_ready"] = @ + 1]
          /\ \/ /\ mailbox = 0
                /\ mailbox' = n
                /\ queue' = On(Main(0), <<Record("input_ready")>>)
                /\ Goto(0, "handoff")
                /\ UNCHANGED error
             \/ /\ mailbox # 0
                /\ error' = TRUE
                /\ queue' = [queue EXCEPT ![Main(0)] = Append(@, Record("input_ready")),
                                          ![Error] = Wakeup[Error]]
                /\ Goto(0, Raise(n))
                /\ UNCHANGED mailbox
    /\ UNCHANGED <<workload, busy, fired, flag, inputs, pinned, output, got, step, verify,
                   digest, finished, completed, released, enqueued, closed, rqst>>

\* _wait_metadata_enqueued, then the main stream waits for the copies.  A later
\* sequence than the awaited one would be an identity mismatch; none is enqueued.
Handoff ==
    /\ pc[0] = "handoff"
    /\ LET n == step[0] IN
       \/ error /\ Goto(0, Raise(n)) /\ UNCHANGED queue
       \/ /\ ~error /\ enqueued = n
          /\ queue' = On(Main(0), <<WaitEvent("d2h_done")>>)
          /\ Goto(0, HandedOff(n))
    /\ UNCHANGED <<workload, busy, recorded, fired, flag, inputs, pinned, output, got, step,
                   verify, digest, finished, conn, rqst>>

HandoffTimeout ==
    /\ "timeout" \in faults
    /\ pc[0] = "handoff" /\ ~error /\ enqueued # step[0]
    /\ error' = TRUE
    /\ queue' = IF Woken(TRUE) THEN Wakeup ELSE queue
    /\ Goto(0, Raise(step[0]))
    /\ UNCHANGED <<workload, busy, recorded, fired, flag, inputs, pinned, output, got, step,
                   verify, digest, finished, active, records, completed, released,
                   mailbox, enqueued, closed, rqst>>

\* wait_for_output_ready
Ready ==
    /\ pc[0] = "ready"
    /\ \/ error /\ Goto(0, "status_failed")
       \/ ~error /\ step[0] \in completed /\ Goto(0, "status")
       \/ "timeout" \in faults /\ step[0] \notin completed /\ Goto(0, "status_failed")
    /\ UNCHANGED <<workload, gpu, step, verify, digest, finished, conn, rqst>>

\* Rank 1 has no owner: it goes straight to the rendezvous or the transport.
PrepareRemote ==
    /\ pc[1] = "prepare"
    /\ Goto(1, IF Serial(step[1]) THEN "status" ELSE "transport")
    /\ UNCHANGED <<workload, gpu, step, verify, digest, finished, conn, rqst>>

\* The CPU rendezvous of the serialized path, on (sequence, shape, failure).
GatherStatus ==
    /\ pc[0] \in {"status", "status_failed"} /\ pc[1] = "status"
    /\ pc' = IF pc[0] = "status" /\ step[0] = step[1]
               THEN [r \in Ranks |-> "transport"]
               ELSE [r \in Ranks |-> "failed"]
    /\ UNCHANGED <<workload, gpu, step, verify, digest, finished, conn, rqst>>

\* Mutant: the owner's broadcast does not wait for the reset of the previous
\* step, which d2h_done stands behind on the main stream.
TransferOpsUnordered(r, n) ==
    IF r = 0
      THEN <<WaitValue(1), Op("broadcast", n), Record(Done(0))>>
      ELSE <<WaitValue(0), Op("broadcast", n), WriteValue(1), Record(Done(1))>>
TransferOps(r, n) ==
    IF r = 0
      THEN <<WaitEvent("d2h_done"), WaitValue(1), Op("broadcast", n), Record(Done(0))>>
      ELSE <<WaitValue(0), Op("broadcast", n), WriteValue(1), Record(Done(1))>>

Transfer(r) ==
    /\ pc[r] = "transport"
    /\ queue' = On(Tp(r), TransferOps(r, step[r]))
    /\ recorded' = [recorded EXCEPT ![Done(r)] = @ + 1]
    /\ Goto(r, IF Serial(step[r]) THEN "drain" ELSE Transferred(r))
    /\ UNCHANGED <<workload, busy, fired, flag, inputs, pinned, output, got, step, verify,
                   digest, finished, conn, rqst>>

\* Both ranks finish the transfer of a serialized step before either goes on.
\* Mutant: without the synchronization of the transport stream.
DrainUnwaited(r) ==
    /\ pc[r] = "drain"
    /\ Goto(r, "drained")
    /\ UNCHANGED <<workload, gpu, step, verify, digest, finished, conn, rqst>>
Drain(r) ==
    /\ pc[r] = "drain" /\ Idle(Tp(r))
    /\ Goto(r, "drained")
    /\ UNCHANGED <<workload, gpu, step, verify, digest, finished, conn, rqst>>

GatherDrained ==
    /\ \A r \in Ranks : pc[r] = "drained"
    /\ pc' = IF step[0] = step[1] THEN [r \in Ranks |-> Transferred(r)]
                                  ELSE [r \in Ranks |-> "failed"]
    /\ UNCHANGED <<workload, gpu, step, verify, digest, finished, conn, rqst>>

\* The cross-rank check of the first steps: the digests are host copies taken
\* through the main stream after the transfer.
Verify(r) ==
    /\ pc[r] = "verify" /\ Idle(Tp(r)) /\ Idle(Main(r))
    /\ digest' = [digest EXCEPT ![r] = output[r]]
    /\ Goto(r, "verifying")
    /\ UNCHANGED <<workload, gpu, step, verify, finished, conn, rqst>>

GatherVerify ==
    /\ \A r \in Ranks : pc[r] = "verifying"
    /\ IF digest[0] = digest[1] /\ step[0] = step[1]
         THEN /\ pc' = [r \in Ranks |-> "forward"]
              /\ verify' = [r \in Ranks |-> verify[r] - 1]
         ELSE /\ pc' = [r \in Ranks |-> "failed"]
              /\ UNCHANGED verify
    /\ UNCHANGED <<workload, gpu, step, digest, finished, conn, rqst>>

\* signal_dummy_outputs
SignalDummy(r) ==
    /\ pc[r] = "dummy"
    /\ LET n == step[r] IN
       \/ /\ r = 0 /\ error
          /\ Goto(r, "failed")
          /\ UNCHANGED <<queue, active, records, completed>>
       \/ /\ r = 0 => ~error /\ active = 0
          /\ queue' = On(Main(r), <<Op("zero", 0), WriteValue(1)>>)
          /\ IF r = 0 THEN /\ active' = n
                           /\ records' = records \cup {n}
                           /\ completed' = completed \cup {n}
                      ELSE UNCHANGED <<active, records, completed>>
          /\ Goto(r, "forward")
    /\ UNCHANGED <<workload, busy, recorded, fired, flag, inputs, pinned, output, got, step,
                   verify, digest, finished, released, mailbox, enqueued, error, closed,
                   rqst>>

\* The model is launched: ple_offload_wait spins on the flag, then reads.
Forward(r) ==
    /\ pc[r] = "forward"
    /\ queue' = On(Main(r), <<WaitValue(1), Op("consume", step[r])>>)
    /\ Goto(r, "release")
    /\ UNCHANGED <<workload, busy, recorded, fired, flag, inputs, pinned, output, got, step,
                   verify, digest, finished, conn, rqst>>

\* Mutants: the reset does not wait for the broadcast; the flag is not reset.
ReleaseOpsEarly(r, n) == <<WriteValue(0)>>
ReleaseOpsUnreset(r, n) == IF Real(n) THEN <<WaitEvent(Done(r))>> ELSE <<>>
ReleaseOps(r, n) ==
    (IF Real(n) THEN <<WaitEvent(Done(r))>> ELSE <<>>) \o <<WriteValue(0)>>

\* _finalize_record_locked: records after step n was marked, when done and rel say
\* completed and released.  Mutants: either mark is enough; nothing is dropped.
FinalizedEither(n, done, rel) == IF n \in done \cup rel THEN records \ {n} ELSE records
FinalizedNever(n, done, rel) == records
Finalized(n, done, rel) == IF n \in done \cap rel THEN records \ {n} ELSE records

\* release_outputs raises the first error.  Mutant: it returns.
OutcomeOpen == "result"
Outcome == IF error THEN "failed" ELSE "result"

\* release_outputs: the reset is enqueued before the connector's record changes.
Release(r) ==
    /\ pc[r] = "release"
    /\ queue' = On(Main(r), ReleaseOps(r, step[r]))
    /\ Goto(r, IF r = 0 THEN "released" ELSE "idle")
    /\ UNCHANGED <<workload, busy, recorded, fired, flag, inputs, pinned, output, got, step,
                   verify, digest, finished, conn, rqst>>

ReleaseRecord ==
    /\ pc[0] = "released"
    /\ released' = released \cup {active}
    /\ records' = Finalized(active, completed, released')
    /\ active' = 0
    /\ Goto(0, Outcome)
    /\ UNCHANGED <<workload, gpu, step, verify, digest, finished, completed, mailbox,
                   enqueued, error, closed, rqst>>

\* Rank 0 returns the result of the step; with sync_steps the executor has it
\* only when the main stream has produced it.
Result ==
    /\ pc[0] = "result"
    /\ sync_steps => Idle(Main(0))
    /\ finished' = step[0]
    /\ Goto(0, "idle")
    /\ UNCHANGED <<workload, gpu, step, verify, digest, conn, rqst>>

\* shutdown: the device is synchronized, then the connector closes.
Close ==
    /\ pc[0] = "idle" /\ step[0] = MaxStep /\ active = 0
    /\ \A s \in Streams : s[2] = 0 => Idle(s)
    /\ closed' = TRUE
    /\ mailbox = 0 /\ mailbox' = -1
    /\ Goto(0, "closing")
    /\ UNCHANGED <<workload, gpu, step, verify, digest, finished, active, records, completed,
                   released, enqueued, error, rqst>>

Join ==
    /\ pc[0] = "closing" /\ req = "stopped"
    /\ Goto(0, "closed")
    /\ UNCHANGED <<workload, gpu, step, verify, digest, finished, conn, rqst>>

Owner == Launch \/ Handoff \/ Ready \/ ReleaseRecord \/ Result \/ Close \/ Join

Host(r) ==
    \/ Begin(r) \/ SyncMain(r) \/ Transfer(r) \/ Drain(r) \/ Verify(r)
    \/ SignalDummy(r) \/ Forward(r) \/ Release(r)
    \/ r = 0 /\ Owner
    \/ r = 1 /\ PrepareRemote

Rendezvous == GatherStatus \/ GatherDrained \/ GatherVerify

-----------------------------------------------------------------------------
(* The request thread of rank 0.                                           *)

Get ==
    /\ req = "get" /\ mailbox # 0
    /\ mailbox' = 0
    /\ IF mailbox = -1
         THEN req' = "stopped" /\ UNCHANGED reqSeq
         ELSE req' = "stage" /\ reqSeq' = mailbox
    /\ UNCHANGED <<workload, gpu, hosts, active, records, completed, released, enqueued,
                   error, closed, rows>>

StageCopies ==
    /\ req = "stage"
    /\ queue' = On(D2H, <<WaitEvent("input_ready"), Op("copy", 0), Record("d2h_done")>>)
    /\ recorded' = [recorded EXCEPT !["d2h_done"] = @ + 1]
    /\ req' = "notify"
    /\ UNCHANGED <<workload, busy, fired, flag, inputs, pinned, output, got, hosts, conn,
                   reqSeq, rows>>

Notify ==
    /\ req = "notify"
    /\ enqueued' = reqSeq
    /\ req' = "sync"
    /\ UNCHANGED <<workload, gpu, hosts, active, records, completed, released, mailbox,
                   error, closed, reqSeq, rows>>

SyncCopies ==
    /\ req = "sync" /\ fired["d2h_done"] = recorded["d2h_done"]
    /\ req' = "plan"
    /\ UNCHANGED <<workload, gpu, hosts, conn, reqSeq, rows>>

Plan ==
    /\ req = "plan"
    /\ rows' = pinned
    /\ req' = IF reqSeq \in records THEN "produce" ELSE "fail"
    /\ UNCHANGED <<workload, gpu, hosts, conn, reqSeq>>

\* _produce_in_process: the reader waits for the reset of the previous step.
Produce ==
    /\ req = "produce"
    /\ queue' = On(Reader, <<WaitValue(0), Op("gather", rows), WriteValue(1)>>)
    /\ req' = "complete"
    /\ UNCHANGED <<workload, busy, recorded, fired, flag, inputs, pinned, output, got, hosts,
                   conn, reqSeq, rows>>

\* An exception of the reader, before or after it launched the gather.
ReadFails ==
    /\ "read" \in faults
    /\ req = "produce"
    /\ \E ops \in {<<>>, <<Op("gather", rows)>>} :
          queue' = On(Reader, <<WaitValue(0)>> \o ops)
    /\ req' = "fail"
    /\ UNCHANGED <<workload, busy, recorded, fired, flag, inputs, pinned, output, got, hosts,
                   conn, reqSeq, rows>>

\* The reader stream is synchronized; the result is a "completed" message.
Complete ==
    /\ req = "complete" /\ Idle(Reader)
    /\ IF reqSeq \in records \ completed
         THEN /\ completed' = completed \cup {reqSeq}
              /\ records' = Finalized(reqSeq, completed', released)
              /\ req' = "get"
         ELSE req' = "fail" /\ UNCHANGED <<completed, records>>
    /\ UNCHANGED <<workload, gpu, hosts, active, released, mailbox, enqueued, error, closed,
                   reqSeq, rows>>

\* _fail(reqSeq) under the condition, then the wake-up it decided on.
Fail ==
    /\ req = "fail"
    /\ error' = TRUE
    /\ req' = IF Woken(reqSeq = active) THEN "wake" ELSE "get"
    /\ UNCHANGED <<workload, gpu, hosts, active, records, completed, released, mailbox,
                   enqueued, closed, reqSeq, rows>>

Wake ==
    /\ req = "wake"
    /\ queue' = Wakeup
    /\ req' = "get"
    /\ UNCHANGED <<workload, busy, recorded, fired, flag, inputs, pinned, output, got, hosts,
                   conn, reqSeq, rows>>

Request ==
    \/ Get \/ StageCopies \/ Notify \/ SyncCopies \/ Plan \/ Produce \/ Complete
    \/ Fail \/ Wake

-----------------------------------------------------------------------------
\* The program has stopped: closed, or a worker raised and the engine fails.
Stopped == pc[0] \in {"closed", "failed"} /\ UNCHANGED vars

Next ==
    \/ \E s \in Streams : Device(s)
    \/ Collective
    \/ \E r \in Ranks : Host(r)
    \/ Rendezvous
    \/ Request
    \/ HandoffTimeout
    \/ ReadFails
    \/ Stopped

\* Streams make progress by themselves and no thread holds the others up: each
\* one that can act eventually does.  Faults are never forced.
Fairness ==
    /\ \A s \in Streams : WF_vars(Device(s))
    /\ WF_vars(Collective)
    /\ \A r \in Ranks : WF_vars(Host(r))
    /\ WF_vars(Rendezvous)
    /\ WF_vars(Request)

Spec == Init /\ [][Next]_vars /\ Fairness

-----------------------------------------------------------------------------
(* Properties.                                                             *)

Contents == 0..MaxStep
Ops == [op : Moves \cup {"record", "wait_event", "wait_value", "write_value"},
        n : 0..(MaxStep + 1), ev : Events \cup {"none"}]
Labels == {"idle", "sync", "prepare", "handoff", "ready", "status", "status_failed",
           "transport", "drain", "drained", "verify", "verifying", "dummy", "forward",
           "release", "released", "result", "closing", "closed", "failed"}

\* Every variable has its type; queues hold stream operations only.  Metadata of
\* a finished step is dropped: at most two records are alive.
TypeOK ==
    /\ sync_steps \in Dispatch /\ faults \in Faults
    /\ kind \in Workloads
    /\ \A s \in Streams : \A i \in DOMAIN queue[s] : queue[s][i] \in Ops
    /\ busy \subseteq Streams
    /\ recorded \in [Events -> 0..MaxStep] /\ fired \in [Events -> 0..MaxStep]
    /\ flag \in [Ranks -> {0, 1}]
    /\ inputs \in Contents /\ pinned \in Contents
    /\ output \in [Ranks -> Contents]
    /\ got \in [Ranks -> [Steps -> Contents \cup {-1}]]
    /\ pc \in [Ranks -> Labels]
    /\ step \in [Ranks -> Contents] /\ verify \in [Ranks -> 0..VerifySteps]
    /\ digest \in [Ranks -> Contents] /\ finished \in Contents
    /\ active \in Contents /\ enqueued \in Contents /\ reqSeq \in Contents
    /\ rows \in Contents /\ mailbox \in Contents \cup {-1}
    /\ records \subseteq Steps /\ Cardinality(records) <= 2
    /\ completed \subseteq Steps /\ released \subseteq Steps
    /\ error \in BOOLEAN /\ closed \in BOOLEAN
    /\ req \in {"get", "stage", "notify", "sync", "plan", "produce", "complete", "fail",
                "wake", "stopped"}

\* No two accesses to the same buffer overlap when one of them writes it: the
\* stable inputs are not overwritten while they are copied, the pinned copy
\* not while the request thread plans from it, an output not while a forward
\* or the broadcast reads it.  An error gives the output up.
RaceFree ==
    ~error =>
        /\ \A s, t \in busy : s # t =>
              LET o == Head(queue[s])
                  p == Head(queue[t])
              IN  Writes(o, s) \cap (Reads(p, t) \cup Writes(p, t)) = {}
        /\ req = "plan" => \A s \in busy : "pinned" \notin Writes(Head(queue[s]), s)

\* The forward of step n, on either rank, reads the rows of step n (zeros for a
\* dummy step): never those of an earlier or a later generation.
RightGeneration ==
    ~error =>
        \A r \in Ranks, n \in Steps :
            got[r][n] # -1 => got[r][n] = (IF Real(n) THEN n ELSE 0)

\* The receiver of a serialized step is launched only when the rows of that step
\* are complete on rank 0 ("rank 1 must not launch a spinning receiver while rank
\* 0 is still in CUDA/cuFile producer operations"), whatever fails.
ReceiverAfterProducer ==
    \A i \in DOMAIN queue[Tp(1)] :
        LET o == queue[Tp(1)][i] IN
        o.op = "broadcast" /\ Serial(o.n) => o.n \in completed /\ Idle(Reader)

\* When a rank starts the dynamic model calls of a serialized step, neither rank
\* still has the broadcast of that step ahead of it.
CommunicationOver ==
    \A r, t \in Ranks :
        pc[r] = "forward" /\ Serial(step[r]) =>
            \A i \in DOMAIN queue[Tp(t)] : queue[Tp(t)][i] # Op("broadcast", step[r])

\* The hand-off between the streams, the request thread and the two ranks.
HandoffSafe == RaceFree /\ RightGeneration /\ ReceiverAfterProducer /\ CommunicationOver

\* Fail closed: a step whose result reaches the executor was computed from its
\* own rows on rank 0, also when reads fail and error wake-ups are sent.
ResultsHonest ==
    sync_steps => \A n \in 1..finished : got[0][n] = (IF Real(n) THEN n ELSE 0)

\* Unless something failed, nothing in the protocol raises: no full mailbox, no
\* vanished record, no duplicate completion, no rank that differs from the other.
NoSpuriousError ==
    faults = {} => ~error /\ \A r \in Ranks : pc[r] # "failed"

FailClosed == ResultsHonest /\ NoSpuriousError

\* Without faults every step of the workload finishes on both ranks, the
\* connector closes and its thread stops.
EveryStepFinishes ==
    (faults = {}) ~> (finished = MaxStep /\ pc[0] = "closed" /\ got[1][MaxStep] # -1)

\* "Unblock a GPU wait with zero data": after a failure the main stream of rank
\* 0 does not stay blocked in front of the PLE consumer.
ErrorUnblocksConsumer ==
    error ~> (Idle(Main(0)) \/ Head(queue[Main(0)]) # WaitValue(1))
=============================================================================
