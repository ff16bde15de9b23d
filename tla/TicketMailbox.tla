---------------------------- MODULE TicketMailbox ----------------------------
(***************************************************************************)
(* The ticket mailbox of the first pipeline rank, GdsPleRunnerConnector of *)
(* src/src/vllm_ple_gds_runner.py, with what feeds it: the CPU token       *)
(* shadow, the pinned ring of sampled tokens, the sample control worker,   *)
(* the producer thread or the IPC reader process, and the hooks in the     *)
(* model runner that issue, consume and release tickets (speculation off). *)
(*                                                                         *)
(* A request that decodes alone gets a prefetch: its slot is reserved when *)
(* the step before is dispatched and its row is read as soon as the token  *)
(* sampled by that step has reached the CPU.  Any other batch is planned   *)
(* from the shadow and gets a ticket.  The token at position p of          *)
(* generation g of a request is <<g, p>>; the rows of a batch are, for     *)
(* each of its requests, all tokens up to the last scheduled one.          *)
(***************************************************************************)
EXTENDS Integers, Sequences, FiniteSets, Functions, SequencesExt

CONSTANTS
    Requests,     \* request ids, 1..n
    Slots,        \* output slots, 0..n (queue_depth)
    PipelineSize, \* get_pp_group().world_size
    PromptLen,    \* tokens of a prompt, scheduled in one step
    MaxLen,       \* max_seq_len of every request
    MaxSteps,     \* steps of one behaviour (the bound of the model)
    Opening,      \* batches that the first step may have (a bound)
    Modes,        \* values of use_ipc_process that a behaviour may have
    Late,         \* subset of {"landing", "completion", "signal"}: moments at
                  \* which a slot is given away too early, and which may occur
    Faults,       \* subset of {"read", "timeout"}
    FaultSteps,   \* steps in which faults strike (a bound)
    None,         \* no value
    Torn          \* rows of which only a part is there

ASSUME SetAssumption ==
    Requests \subseteq Nat /\ Slots \subseteq Nat /\ IsFiniteSet(Requests)
ASSUME SizeAssumption ==
    /\ {PipelineSize, PromptLen, MaxLen, MaxSteps} \subseteq Nat \ {0}
    /\ FaultSteps \in Nat /\ Opening \subseteq SUBSET Requests
ASSUME ModeAssumption == Modes \subseteq BOOLEAN
ASSUME LateAssumption == Late \subseteq {"landing", "completion", "signal"}
ASSUME FaultAssumption == Faults \subseteq {"read", "timeout"}
ASSUME NoneAssumption ==   \* None is no error and no entry of the shadow
    /\ None \notin {"shadow", "corrupt", "read", "message"}
    /\ None \notin [gen : Nat, tokens : Seq(Nat \X Nat)]
ASSUME AbsentAssumption ==   \* nor an error of the model thread, a slot, a ticket, a
    /\ None \notin {"worker", "underflow", "full", "computed", "late", "diverged", "producer",
                     "no ticket", "not consuming", "overrun", "join", "active"}
    /\ None \notin Nat   \* prefetch, rows, or a read of the child
    /\ None \notin [seq : Nat, req : Requests, gen : Nat, start : Nat]
    /\ \A R \in SUBSET Requests :
          LET row == [R -> Seq(Nat \X Nat)]
          IN  None \notin row \cup [phase : {"read", "stream"},
                                    cmd : [slot : Slots, rows : row, done : Nat]]

Ring == 0..PipelineSize   \* depth = world_size + 1

VARIABLES
    ipc,       \* use_ipc_process
    \* CpuTokenShadow and the PP handler
    shadow,    \* shadow[r]: [gen, tokens] or None
    nextGen,   \* _next_generation
    idxGen,    \* req_idx_gen_np, by request
    ring,      \* ring[i]: [used, fired] of PpPinnedSampleBridge
    nextRing,  \* its _next
    recvs,     \* PPHandler.queue: receives of the last PipelineSize steps
    \* the scheduler's view
    computed,  \* computed[r]: position at which the next step of r starts
    lastStep,  \* lastStep[r]: the last step r was in, 0 before its first
    \* model thread
    pc, step, batch, removing, expected, active,
    \* connector
    slot,      \* slot[s]: fields of TicketSlot
    nextDone,  \* _next_done_value
    nextSeq,   \* _next_prefetch_sequence
    pending,   \* _pending: slots of tickets to produce
    ppc,       \* producer thread: None or the slot it is reading for
    \* sample control worker
    jobs,      \* its _pending
    wpc, job, include, plan,   \* plan: the planned rows, or the exception of the read
    \* IPC child
    cmds, cpc, results,
    \* device
    main,      \* operations on the main stream
    bcast,     \* receives posted on the broadcast stream
    arrived,   \* the last step whose receive is done
    executed,  \* the last step whose forward ran
    data,      \* data[s]: rows in the output of slot s
    writing,   \* writing[s]: rows a producer stream is writing there, or None
    flag,      \* flag[s]: done_flag
    consumed,  \* consumed[s]: consumer_done is done, or behind main or a copy
    buffer,    \* consumer_buffer
    ran,       \* what the last forward read
    \* errors
    raised,    \* what stopped the model thread, or None
    werr       \* _error of the control worker, or None

tokens  == <<shadow, nextGen, idxGen, ring, nextRing, recvs>>
sched   == <<computed, lastStep>>
model   == <<pc, step, batch, removing, expected, active>>
conn    == <<slot, nextDone, nextSeq, pending, ppc>>
worker  == <<jobs, wpc, job, include, plan>>
child   == <<cmds, cpc, results>>
device  == <<main, bcast, arrived, executed, data, writing, flag, consumed, buffer, ran>>
errors  == <<raised, werr>>
vars    == <<ipc, tokens, sched, model, conn, worker, child, device, errors>>

-----------------------------------------------------------------------------
(* Rows and slots.                                                         *)

History(g, n) == [i \in 1..n |-> <<g, i - 1>>]

\* The rows the model input of batch b asks for.
Wanted(b) == [r \in DOMAIN b |-> History(b[r].gen, b[r].start + b[r].len)]

Busy == {"queued", "producing", "ready", "consuming", "releasing", "error"}

FreeSlot ==
    [state |-> "free", ticket |-> None, prefetch |-> None, rows |-> None,
     discard |-> FALSE, submitted |-> FALSE, completed |-> FALSE, done |-> 0]

\* Mutant: only the state is reset.
ResetState(x) == [x EXCEPT !.state = "free"]

\* _reset_slot_locked keeps the done value.
Reset(x) == [FreeSlot EXCEPT !.done = x.done]

\* Mutant: the producer's stream is not asked.
ProducerDoneAlways(s) == TRUE

\* producer_done.query(): an event that was never recorded is done, and the
\* IPC child records none in this process.
ProducerDone(s) == writing[s] = None

\* Mutant: the child's second message is not waited for.
ReapableEarly(s) ==
    \/ slot[s].state = "releasing" /\ consumed[s] = "done"
    \/ slot[s].discard /\ slot[s].state \in {"ready", "error"}

\* _reap_locked
Reapable(s) ==
    \/ /\ slot[s].state = "releasing"
       /\ consumed[s] = "done"
       /\ ipc => slot[s].completed
    \/ /\ slot[s].discard
       /\ slot[s].state \in {"ready", "error"}
       /\ IF ipc THEN slot[s].completed ELSE ProducerDone(s)
Reaped == [s \in Slots |-> IF Reapable(s) THEN Reset(slot[s]) ELSE slot[s]]

FreeSlots(m) == {s \in Slots : m[s].state = "free"}
FirstOf(S) == CHOOSE s \in S : \A t \in S : s <= t

\* An error in the model thread ends the step; the engine stops.
Raise(why) == raised' = why /\ pc' = "failed"

\* _record_error keeps the first one.
Recorded(why) == IF werr = None THEN why ELSE werr

-----------------------------------------------------------------------------
Init ==
    /\ ipc \in Modes
    /\ shadow = [r \in Requests |-> None]
    /\ nextGen = 1
    /\ idxGen = [r \in Requests |-> 0]
    /\ ring = [i \in Ring |-> [used |-> FALSE, fired |-> FALSE]]
    /\ nextRing = 0
    /\ recvs = [i \in 1..PipelineSize |-> None]
    /\ computed = [r \in Requests |-> 0]
    /\ lastStep = [r \in Requests |-> 0]
    /\ pc = "idle" /\ step = 0 /\ batch = <<>> /\ removing = <<>>
    /\ expected = None /\ active = None
    /\ slot = [s \in Slots |-> FreeSlot]
    /\ nextDone = 1 /\ nextSeq = 1 /\ pending = <<>> /\ ppc = None
    /\ jobs = <<>> /\ wpc = "idle" /\ job = None /\ include = {} /\ plan = None
    /\ cmds = <<>> /\ cpc = None /\ results = <<>>
    /\ main = <<>> /\ bcast = <<>> /\ arrived = 0 /\ executed = 0
    /\ data = [s \in Slots |-> None]
    /\ writing = [s \in Slots |-> None]
    /\ flag = [s \in Slots |-> 0]
    /\ consumed = [s \in Slots |-> "done"]
    /\ buffer = None
    /\ ran = [step |-> 0, rows |-> <<>>, want |-> <<>>]
    /\ raised = None /\ werr = None

-----------------------------------------------------------------------------
(* The model thread, one step after the other.                             *)

Live == {r \in Requests : shadow[r] # None}

\* A request is scheduled again once the token it needs is on its way.
Schedulable(r, k) ==
    r \in Live => lastStep[r] + PipelineSize <= k /\ computed[r] < MaxLen

\* execute_model: update_pp_decode_requests, which looks at the worker's
\* error, waits on the device for the tokens of PipelineSize steps ago and
\* begins to finish requests; the scheduler's choice of batch is external.
Schedule(b, gone) ==
    /\ pc = "idle" /\ step < MaxSteps
    /\ step' = step + 1
    /\ IF werr # None
       THEN Raise("worker") /\ UNCHANGED <<batch, removing, main, recvs>>
       ELSE /\ b \cap gone = {} /\ gone \subseteq Live
            /\ b \cup gone # {}
            /\ \A r \in b : Schedulable(r, step')
            /\ step = 0 => b \in Opening
            /\ batch' = [r \in b |->
                  [gen |-> IF r \in Live THEN shadow[r].gen ELSE 0,
                   start |-> IF r \in Live THEN computed[r] ELSE 0,
                   len |-> IF r \in Live THEN 1 ELSE PromptLen]]
            /\ removing' = [r \in gone |-> "free"]
            /\ recvs' = Append(Tail(recvs), None)
            /\ main' = IF Head(recvs) = None THEN main
                       ELSE IF \A r \in Head(recvs).need : idxGen[r] # Head(recvs).genAt[r]
                       THEN main
                       ELSE Append(main, [op |-> "await", n |-> Head(recvs).n])
            /\ pc' = "remove"
            /\ UNCHANGED raised
    /\ UNCHANGED <<ipc, shadow, nextGen, idxGen, ring, nextRing, sched, expected, active,
                   conn, worker, child, bcast, arrived, executed, data, writing, flag, consumed, buffer, ran, werr>>

Removing(r, phase) ==
    /\ pc = "remove" /\ r \in DOMAIN removing /\ removing[r] = phase
    /\ \A q \in DOMAIN removing \ {r} : removing[q] = "free"

\* original_remove_request: on_req_idx_freed
FreeIndex(r) ==
    /\ Removing(r, "free")
    /\ idxGen' = [idxGen EXCEPT ![r] = @ + 1]
    /\ removing' = [removing EXCEPT ![r] = "discard"]
    /\ UNCHANGED <<ipc, shadow, nextGen, ring, nextRing, recvs, sched, pc, step, batch,
                   expected, active, conn, worker, child, device, errors>>

\* The IPC child has submitted but not completed its prefetch, and no step has
\* claimed it.
BeingWritten(r) ==
    \E s \in Slots : /\ ipc /\ slot[s].prefetch # None
                     /\ slot[s].prefetch.req = r
                     /\ slot[s].state = "ready" /\ ~slot[s].completed

\* discard_prefetches
Discarded(x, s, r) ==
    IF x.prefetch = None \/ x.discard THEN x
    ELSE IF x.prefetch.req # r \/ x.prefetch.gen # shadow[r].gen THEN x
    ELSE IF x.state \in {"ready", "error"} /\ ProducerDone(s) THEN Reset(x)
    ELSE [x EXCEPT !.discard = TRUE]
Discard(r) ==
    /\ Removing(r, "discard")
    /\ "landing" \in Late \/ ~BeingWritten(r)
    /\ slot' = [s \in Slots |-> Discarded(Reaped[s], s, r)]
    /\ removing' = [removing EXCEPT ![r] = "forget"]
    /\ UNCHANGED <<ipc, tokens, sched, pc, step, batch, expected, active,
                   nextDone, nextSeq, pending, ppc, worker, child, device, errors>>

\* shadow.remove
Forget(r) ==
    /\ Removing(r, "forget")
    /\ shadow' = [shadow EXCEPT ![r] = None]
    /\ removing' = Restrict(removing, DOMAIN removing \ {r})
    /\ computed' = [computed EXCEPT ![r] = 0]
    /\ lastStep' = [lastStep EXCEPT ![r] = 0]
    /\ UNCHANGED <<ipc, nextGen, idxGen, ring, nextRing, recvs, pc, step, batch,
                   expected, active, conn, worker, child, device, errors>>

New == {r \in DOMAIN batch : shadow[r] = None}

\* _shadow_add_requests: generations in the order of the new requests.
AddedShadow ==
    [r \in Requests |->
        IF r \in New
        THEN LET g == nextGen + Cardinality({q \in New : q < r})
             IN  [gen |-> g, tokens |-> History(g, PromptLen)]
        ELSE shadow[r]]

\* A request that decodes alone in an unpadded batch.
Alone(b) == Cardinality(DOMAIN b) = 1 /\ \A r \in DOMAIN b : b[r].len = 1

\* find_prefetch: the oldest reservation must be this step's.
Candidates ==
    {slot[s].prefetch : s \in {t \in Slots :
        /\ slot[t].prefetch # None /\ ~slot[t].discard
        /\ slot[t].state \in {"queued", "producing", "ready"}}}
Oldest == CHOOSE p \in Candidates : \A q \in Candidates : p.seq <= q.seq

Issue(sh, b) ==
    LET free == FreeSlots(Reaped)
        s    == FirstOf(free)
    IN  IF \E r \in DOMAIN b : b[r].start + b[r].len > Len(sh[r].tokens)
        THEN Raise("underflow") /\ UNCHANGED <<slot, nextDone, pending, expected>>
        ELSE IF free = {}
        THEN /\ Raise("full")
             /\ slot' = Reaped /\ UNCHANGED <<nextDone, pending, expected>>
        ELSE /\ slot' = [Reaped EXCEPT ![s] =
                    [FreeSlot EXCEPT !.state = "queued", !.ticket = step,
                        !.submitted = Reaped[s].submitted, !.done = nextDone,
                        !.rows = [r \in DOMAIN b |->
                                    SubSeq(sh[r].tokens, 1, b[r].start + b[r].len)]]]
             /\ nextDone' = nextDone + 1
             /\ pending' = Append(pending, s)
             /\ expected' = [ticket |-> step]
             /\ pc' = "acquire"
             /\ UNCHANGED raised

\* add_requests, update_requests and the hook of prepare_inputs: find the
\* prefetch or plan and submit a ticket.
Prepare ==
    /\ pc = "remove" /\ removing = <<>>
    /\ shadow' = AddedShadow
    /\ nextGen' = nextGen + Cardinality(New)
    /\ LET b == [r \in DOMAIN batch |-> [batch[r] EXCEPT !.gen = shadow'[r].gen]]
           alone == CHOOSE r \in DOMAIN b : TRUE
       IN  /\ batch' = b
           /\ IF DOMAIN b = {}
              THEN pc' = "idle" /\ UNCHANGED <<expected, slot, nextDone, pending, raised>>
              ELSE IF \E r \in DOMAIN b : b[r].start > Len(shadow'[r].tokens)
              THEN Raise("computed") /\ UNCHANGED <<expected, slot, nextDone, pending>>
              ELSE IF werr # None
              THEN Raise("worker") /\ UNCHANGED <<expected, slot, nextDone, pending>>
              ELSE IF ~Alone(b) THEN Issue(shadow', b)
              ELSE /\ UNCHANGED <<slot, nextDone, pending>>
                   /\ IF Candidates = {} THEN Raise("late") /\ UNCHANGED expected
                      ELSE IF Oldest.req # alone \/ Oldest.gen # b[alone].gen
                              \/ Oldest.start # b[alone].start
                      THEN Raise("diverged") /\ UNCHANGED expected
                      ELSE /\ expected' = [prefetch |-> Oldest]
                           /\ pc' = "acquire"
                           /\ UNCHANGED raised
    /\ UNCHANGED <<ipc, idxGen, ring, nextRing, recvs, sched, step, removing, active,
                   nextSeq, ppc, worker, child, device, werr>>

IsPrefetch == "prefetch" \in DOMAIN expected
HeldBy(s) ==
    IF IsPrefetch THEN slot[s].prefetch = expected.prefetch
                  ELSE slot[s].ticket = expected.ticket

\* Mutant: the wait is for the next done value.
TakeNext(s) == [op |-> "copy", n |-> s, done |-> slot[s].done + 1]

\* Wait for the producer on the device, then copy the slot's rows.
Take(s) == [op |-> "copy", n |-> s, done |-> slot[s].done]

\* consume: waits for READY.  consume_prefetch: claims the slot at once.
AcquireSlot(s) ==
    /\ slot[s].state \in IF IsPrefetch THEN {"queued", "producing", "ready"} ELSE {"ready"}
    /\ slot' = [slot EXCEPT ![s].state = "consuming"]
    /\ active' = s
    /\ IF IsPrefetch THEN pc' = "await" /\ UNCHANGED main
                     ELSE pc' = "launch" /\ main' = Append(main, Take(s))
    /\ UNCHANGED raised
Acquire ==
    /\ pc = "acquire"
    /\ \/ \E s \in Slots : HeldBy(s) /\ AcquireSlot(s)
       \/ /\ \A s \in Slots : HeldBy(s) => slot[s].state = "error"
          /\ Raise(IF \E s \in Slots : HeldBy(s) THEN "producer" ELSE "no ticket")
          /\ UNCHANGED <<slot, active, main>>
    /\ UNCHANGED <<ipc, tokens, sched, step, batch, removing, expected, nextDone, nextSeq,
                   pending, ppc, worker, child, bcast, arrived, executed, data, writing,
                   flag, consumed, buffer, ran, werr>>

\* consume_prefetch: submission_ready.wait
Submitted ==
    /\ pc = "await" /\ slot[active].submitted
    /\ IF slot[active].state = "error"
       THEN Raise("producer") /\ UNCHANGED main
       ELSE pc' = "launch" /\ main' = Append(main, Take(active)) /\ UNCHANGED raised
    /\ UNCHANGED <<ipc, tokens, sched, step, batch, removing, expected, active, conn,
                   worker, child, bcast, arrived, executed, data, writing, flag, consumed,
                   buffer, ran, werr>>

Fault(kind) == kind \in Faults /\ step <= FaultSteps

\* Either wait expires; the execute_model hook releases what was acquired.
Expire ==
    /\ Fault("timeout")
    /\ \/ pc = "acquire" /\ ~IsPrefetch
       \/ pc = "await" /\ ~slot[active].submitted
    /\ Raise("late")
    /\ IF active = None \/ slot[active].state # "consuming"
       THEN UNCHANGED <<slot, active, main, consumed>>
       ELSE /\ slot' = [slot EXCEPT ![active].state = "releasing"]
            /\ consumed' = [consumed EXCEPT ![active] = "main"]
            /\ main' = Append(main, [op |-> "done", n |-> active])
            /\ active' = None
    /\ UNCHANGED <<ipc, tokens, sched, step, batch, removing, expected, nextDone, nextSeq,
                   pending, ppc, worker, child, bcast, arrived, executed, data, writing,
                   flag, buffer, ran, werr>>

\* The forward is enqueued and the finally clause calls release().
Launch ==
    /\ pc = "launch"
    /\ LET held == slot[active].state = "consuming"
       IN  /\ main' = Append(main, [op |-> "forward", n |-> step, want |-> Wanted(batch),
                                     slot |-> IF held THEN active ELSE None])
           /\ IF ~held
              THEN Raise("not consuming") /\ UNCHANGED <<slot, consumed, active>>
              ELSE /\ slot' = [slot EXCEPT ![active].state = "releasing"]
                   /\ consumed' = [consumed EXCEPT ![active] = "main"]
                   /\ active' = None
                   /\ pc' = "receive"
                   /\ UNCHANGED raised
    /\ UNCHANGED <<ipc, tokens, sched, step, batch, removing, expected, nextDone, nextSeq,
                   pending, ppc, worker, child, bcast, arrived, executed, data, writing,
                   flag, buffer, ran, werr>>

-----------------------------------------------------------------------------
(* sample_tokens: the receive of sampled tokens is posted and a control job *)
(* submitted.                                                               *)

\* compute_need_sampled_mask
Needed(b) == {r \in DOMAIN b : b[r].start + b[r].len + 1 < MaxLen}

Job(b, s, seq) ==
    [ring |-> nextRing, need |-> Needed(b), step |-> step,
     rows |-> b,
     genAt |-> [r \in DOMAIN b |-> idxGen[r]],
     slot |-> s,
     prefetch |-> seq]

\* The scheduler counts the tokens of the step as computed.
Advance ==
    /\ computed' = [r \in Requests |->
            IF r \in DOMAIN batch THEN batch[r].start + batch[r].len ELSE computed[r]]
    /\ lastStep' = [r \in Requests |-> IF r \in DOMAIN batch THEN step ELSE lastStep[r]]

\* The control worker has unlocked, and not yet set submission_ready.
Signalling(s) == wpc \in {"signal", "failed"} /\ job.slot = s

\* PpSampleControlWorker.submit with reserve_prefetch for a lone request.
Submit ==
    LET free  == FreeSlots(Reaped)
        s     == FirstOf(free)
        alone == CHOOSE r \in DOMAIN batch : TRUE
        p     == [seq |-> nextSeq, req |-> alone, gen |-> batch[alone].gen,
                  start |-> Len(shadow[alone].tokens)]
    IN  IF werr # None
        THEN Raise("worker") /\ UNCHANGED <<slot, nextDone, nextSeq, jobs>>
        ELSE IF Cardinality(DOMAIN batch) > 1
        THEN /\ jobs' = Append(jobs, Job(batch, None, None))
             /\ pc' = "idle"
             /\ UNCHANGED <<slot, nextDone, nextSeq, raised>>
        ELSE IF free = {}
        THEN Raise("full") /\ slot' = Reaped /\ UNCHANGED <<nextDone, nextSeq, jobs>>
        ELSE /\ "signal" \in Late \/ ~Signalling(s)
             /\ slot' = [Reaped EXCEPT ![s] =
                    [FreeSlot EXCEPT !.state = "queued", !.prefetch = p, !.done = nextDone]]
             /\ nextDone' = nextDone + 1
             /\ nextSeq' = nextSeq + 1
             /\ jobs' = Append(jobs, Job(batch, s, p))
             /\ pc' = "idle"
             /\ UNCHANGED raised

Receive ==
    /\ pc = "receive"
    /\ Advance
    /\ IF Needed(batch) = {}
       THEN /\ pc' = "idle"
            /\ UNCHANGED <<ring, nextRing, recvs, bcast, slot, nextDone, nextSeq, jobs, raised>>
       ELSE /\ recvs' = [recvs EXCEPT ![PipelineSize] =
                    [n |-> step, need |-> Needed(batch),
                     genAt |-> [r \in DOMAIN batch |-> idxGen[r]]]]
            /\ nextRing' = (nextRing + 1) % (PipelineSize + 1)
            /\ IF ring[nextRing].used
               THEN Raise("overrun")
                    /\ UNCHANGED <<ring, bcast, slot, nextDone, nextSeq, jobs>>
               ELSE /\ ring' = [ring EXCEPT ![nextRing] = [used |-> TRUE, fired |-> FALSE]]
                    /\ bcast' = Append(bcast, [n |-> step, ring |-> nextRing])
                    /\ Submit
    /\ UNCHANGED <<ipc, shadow, nextGen, idxGen, step, batch, removing, expected, active,
                   pending, ppc, wpc, job, include, plan, child,
                   main, arrived, executed, data, writing, flag, consumed, buffer, ran, werr>>

-----------------------------------------------------------------------------
(* The sample control worker.                                              *)

WorkerFails(why) ==
    /\ werr' = Recorded(why)
    /\ wpc' = "idle" /\ job' = None /\ include' = {} /\ plan' = None

WorkerDone == wpc' = "idle" /\ job' = None /\ include' = {} /\ plan' = None

\* The oldest job: bridge.wait, then the rows whose index was not freed since
\* the receive.
WorkerWaits ==
    /\ wpc = "idle" /\ jobs # <<>> /\ ring[Head(jobs).ring].fired
    /\ job' = Head(jobs) /\ jobs' = Tail(jobs)
    /\ ring' = [ring EXCEPT ![Head(jobs).ring].used = FALSE]
    /\ include' = {r \in Head(jobs).need : idxGen[r] = Head(jobs).genAt[r]}
    /\ wpc' = "append"
    /\ UNCHANGED <<ipc, shadow, nextGen, idxGen, nextRing, recvs, sched, model, conn, plan,
                   child, device, errors>>

\* append_sampled stops at the first row that is unknown or stale.
\* Mutant: the generation is not compared.
StaleId(r) == shadow[r] = None
Stale(r) == IF shadow[r] = None THEN TRUE ELSE shadow[r].gen # job.rows[r].gen
WorkerAppends ==
    /\ wpc = "append"
    /\ LET bad  == {r \in include : Stale(r)}
           good == {r \in include : \A q \in bad : r < q}
       IN  /\ shadow' = [r \in Requests |->
                 IF r \in good
                 THEN [shadow[r] EXCEPT !.tokens =
                          Append(@, <<job.rows[r].gen, job.rows[r].start + job.rows[r].len>>)]
                 ELSE shadow[r]]
           /\ IF bad # {} THEN WorkerFails("shadow")
              ELSE IF job.prefetch = None THEN WorkerDone /\ UNCHANGED werr
              ELSE /\ wpc' = IF include = {} THEN "cancel" ELSE "plan"
                   /\ UNCHANGED <<job, include, plan, werr>>
    /\ UNCHANGED <<ipc, nextGen, idxGen, ring, nextRing, recvs, sched, model, conn, jobs, child,
                   device, raised>>

\* shadow.plan for the reserved position.
WorkerPlans ==
    /\ wpc = "plan"
    /\ LET p == job.prefetch
       IN  IF shadow[p.req] = None THEN WorkerFails("shadow")
           ELSE IF p.start + 1 > Len(shadow[p.req].tokens) THEN WorkerFails("shadow")
           ELSE /\ plan' = [gen |-> shadow[p.req].gen,
                            rows |-> [q \in {p.req} |->
                                        SubSeq(shadow[p.req].tokens, 1, p.start + 1)]]
                /\ wpc' = "produce"
                /\ UNCHANGED <<job, include, werr>>
    /\ UNCHANGED <<ipc, tokens, sched, model, conn, jobs, child, device, raised>>

\* cancel_prefetch
WorkerCancels ==
    /\ wpc = "cancel"
    /\ IF slot[job.slot].prefetch # job.prefetch \/ slot[job.slot].state = "consuming"
       THEN WorkerFails("corrupt") /\ UNCHANGED slot
       ELSE /\ slot' = [slot EXCEPT ![job.slot] = Reset(@)]
            /\ WorkerDone /\ UNCHANGED werr
    /\ UNCHANGED <<ipc, tokens, sched, model, nextDone, nextSeq, pending, ppc, jobs, child,
                   device, raised>>

\* produce_prefetch up to the read, which begins here or in the child.
WorkerProduces ==
    /\ wpc = "produce"
    /\ LET s == job.slot
       IN  IF slot[s].prefetch # job.prefetch \/ slot[s].state \notin {"queued", "consuming"}
           THEN WorkerFails("corrupt") /\ UNCHANGED <<slot, data>>
           ELSE IF plan.gen # job.prefetch.gen
           THEN WorkerFails("shadow") /\ UNCHANGED <<slot, data>>
           ELSE /\ slot' = [slot EXCEPT ![s].state = IF @ = "queued" THEN "producing" ELSE @]
                /\ data' = IF ipc THEN data ELSE [data EXCEPT ![s] = Torn]
                /\ wpc' = "read"
                /\ UNCHANGED <<job, include, plan, werr>>
    /\ UNCHANGED <<ipc, tokens, sched, model, nextDone, nextSeq, pending, ppc, jobs, child,
                   main, bcast, arrived, executed, writing, flag, consumed, buffer, ran, raised>>

\* The except clause zeroes the output, before it takes the lock.
ReadBreaks(why) ==
    /\ writing' = [writing EXCEPT ![job.slot] = <<>>]
    /\ wpc' = "fail" /\ plan' = [error |-> why]
    /\ UNCHANGED <<job, include, slot, consumed>>

\* The last look at the slot before the command for the child.
WorkerChecks ==
    /\ wpc = "read" /\ ipc
    /\ LET x == slot[job.slot]
       IN  IF x.prefetch # job.prefetch \/ x.state \notin {"producing", "consuming"}
           THEN ReadBreaks("corrupt")
           ELSE wpc' = "send" /\ UNCHANGED <<job, include, plan, slot, writing, consumed>>
    /\ UNCHANGED <<ipc, tokens, sched, model, nextDone, nextSeq, pending, ppc, jobs, child,
                   main, bcast, arrived, executed, data, flag, buffer, ran, errors>>

\* dispatch, outside the lock.
WorkerSends ==
    /\ wpc = "send"
    /\ cmds' = Append(cmds, [slot |-> job.slot, rows |-> plan.rows, done |-> slot[job.slot].done])
    /\ WorkerDone
    /\ UNCHANGED <<ipc, tokens, sched, model, conn, jobs, cpc, results, device, errors>>

\* The read in this process ends; its copy to the slot is enqueued, and the
\* consumer's event of a discarded slot is recorded behind that copy.
WorkerReads ==
    /\ wpc = "read" /\ ~ipc
    /\ LET s == job.slot
           x == slot[s]
       IN  IF ~x.discard /\ x.state \notin {"producing", "consuming"}
           THEN ReadBreaks("corrupt")
           ELSE /\ slot' = [slot EXCEPT ![s].state = IF x.discard THEN "releasing"
                                                   ELSE IF @ = "producing" THEN "ready" ELSE @]
                /\ writing' = [writing EXCEPT ![s] = plan.rows]
                /\ consumed' = [consumed EXCEPT ![s] = IF x.discard THEN "copy" ELSE @]
                /\ wpc' = "signal"
                /\ UNCHANGED <<job, include, plan>>
    /\ UNCHANGED <<ipc, tokens, sched, model, nextDone, nextSeq, pending, ppc, jobs, child,
                   main, bcast, arrived, executed, data, flag, buffer, ran, errors>>

\* It fails.
WorkerReadFails ==
    /\ wpc = "read" /\ ~ipc /\ Fault("read")
    /\ ReadBreaks("read")
    /\ UNCHANGED <<ipc, tokens, sched, model, nextDone, nextSeq, pending, ppc, jobs, child,
                   main, bcast, arrived, executed, data, flag, buffer, ran, errors>>

\* The error is handed to the consumer.
WorkerReports ==
    /\ wpc = "fail"
    /\ slot' = [slot EXCEPT ![job.slot].state = "error"]
    /\ wpc' = "failed"
    /\ UNCHANGED <<ipc, tokens, sched, model, nextDone, nextSeq, pending, ppc, jobs, job, include,
                   plan, child, device, errors>>

\* submission_ready.set(), outside the lock: the slot may have moved on.
WorkerSignals ==
    /\ wpc \in {"signal", "failed"}
    /\ slot' = [slot EXCEPT ![job.slot].submitted = TRUE]
    /\ IF wpc = "signal" THEN WorkerDone /\ UNCHANGED werr ELSE WorkerFails(plan.error)
    /\ UNCHANGED <<ipc, tokens, sched, model, nextDone, nextSeq, pending, ppc, jobs, child,
                   device, raised>>

-----------------------------------------------------------------------------
(* The producer thread of tickets.                                         *)

ProducerTakes ==
    /\ ppc = None /\ pending # <<>>
    /\ pending' = Tail(pending)
    /\ LET s == Head(pending)
       IN  IF slot[s].state # "queued" \/ slot[s].ticket = None
           THEN /\ slot' = [slot EXCEPT ![s].state = "error"]
                /\ UNCHANGED <<ppc, cmds, data>>
           ELSE /\ slot' = [slot EXCEPT ![s].state = "producing"]
                /\ IF ipc
                   THEN /\ cmds' = Append(cmds, [slot |-> s, rows |-> slot[s].rows,
                                                 done |-> slot[s].done])
                        /\ UNCHANGED <<ppc, data>>
                   ELSE /\ ppc' = s
                        /\ data' = [data EXCEPT ![s] = Torn]
                        /\ UNCHANGED cmds
    /\ UNCHANGED <<ipc, tokens, sched, model, nextDone, nextSeq, worker, cpc, results,
                   main, bcast, arrived, executed, writing, flag, consumed, buffer, ran, errors>>

ProducerReads ==
    /\ ppc # None
    /\ slot' = [slot EXCEPT ![ppc].state = "ready"]
    /\ writing' = [writing EXCEPT ![ppc] = slot[ppc].rows]
    /\ ppc' = None
    /\ UNCHANGED <<ipc, tokens, sched, model, nextDone, nextSeq, pending, worker, child,
                   main, bcast, arrived, executed, data, flag, consumed, buffer, ran, errors>>

ProducerReadFails ==
    /\ ppc # None /\ Fault("read")
    /\ slot' = [slot EXCEPT ![ppc].state = "error"]
    /\ ppc' = None
    /\ UNCHANGED <<ipc, tokens, sched, model, nextDone, nextSeq, pending, worker, child,
                   device, errors>>

\* The copy of an in-process read reaches the slot.
Land(s) ==
    /\ writing[s] # None
    /\ data' = [data EXCEPT ![s] = writing[s]]
    /\ writing' = [writing EXCEPT ![s] = None]
    /\ consumed' = [consumed EXCEPT ![s] = IF @ = "copy" THEN "done" ELSE @]
    /\ UNCHANGED <<ipc, tokens, sched, model, conn, worker, child, main, bcast, arrived,
                   executed, flag, buffer, ran, errors>>

-----------------------------------------------------------------------------
(* The IPC reader process and the thread that handles its results.         *)

Message(kind, c) == [type |-> kind, slot |-> c.slot, done |-> c.done]

ChildTakes ==
    /\ cpc = None /\ cmds # <<>>
    /\ cpc' = [phase |-> "read", cmd |-> Head(cmds)]
    /\ cmds' = Tail(cmds)
    /\ data' = [data EXCEPT ![Head(cmds).slot] = Torn]
    /\ UNCHANGED <<ipc, tokens, sched, model, conn, worker, results, main, bcast, arrived,
                   executed, writing, flag, consumed, buffer, ran, errors>>

ChildReads ==
    /\ cpc # None /\ cpc.phase = "read"
    /\ \/ /\ results' = Append(results, Message("submitted", cpc.cmd))
          /\ cpc' = [cpc EXCEPT !.phase = "stream"]
       \/ /\ Fault("read")
          /\ results' = Append(results, Message("error", cpc.cmd))
          /\ cpc' = None
    /\ UNCHANGED <<ipc, tokens, sched, model, conn, worker, cmds, device, errors>>

\* The child's stream writes the rows, then the done value; the child has
\* synchronized with it.
ChildLands ==
    /\ cpc # None /\ cpc.phase = "stream"
    /\ data' = [data EXCEPT ![cpc.cmd.slot] = cpc.cmd.rows]
    /\ flag' = [flag EXCEPT ![cpc.cmd.slot] = cpc.cmd.done]
    /\ results' = Append(results, Message("completed", cpc.cmd))
    /\ cpc' = None
    /\ UNCHANGED <<ipc, tokens, sched, model, conn, worker, cmds, main, bcast,
                   arrived, executed, writing, consumed, buffer, ran, errors>>

\* _handle_ipc_result: what a message does to the slot it names, or the
\* error it is recorded as.
HasIdentity(x) == (x.ticket # None) # (x.prefetch # None)
Handled(x, kind) ==
    CASE kind = "submitted" ->
            IF x.state \in {"queued", "producing"}
            THEN [x EXCEPT !.state = "ready", !.submitted = TRUE]
            ELSE [x EXCEPT !.submitted = TRUE]
      [] kind = "completed" ->
            IF x.discard /\ x.state \in {"ready", "releasing"} THEN Reset(x)
            ELSE [x EXCEPT !.completed = TRUE]
      [] kind = "error" -> [x EXCEPT !.state = "error", !.submitted = TRUE]
Refused(x, m) ==
    \/ x.done # m.done
    \/ /\ m.type = "submitted"
       /\ \/ ~HasIdentity(x) \/ x.submitted
          \/ /\ x.state \notin {"queued", "producing"}
             /\ x.state # "consuming" \/ x.prefetch = None
    \/ /\ m.type = "completed"
       /\ \/ ~HasIdentity(x) \/ ~x.submitted \/ x.completed
          \/ x.state \notin {"ready", "consuming", "releasing"}
\* Its request is removed, and its copy has yet to reach the consumer's buffer.
BeingCopied(s) == slot[s].discard /\ slot[s].state = "releasing" /\ consumed[s] # "done"
HandleResult ==
    /\ results # <<>>
    /\ results' = Tail(results)
    /\ LET m == Head(results)
           x == slot[m.slot]
       IN  IF Refused(x, m)
           THEN werr' = Recorded("message") /\ UNCHANGED slot
           ELSE /\ "completion" \in Late \/ ~(m.type = "completed" /\ BeingCopied(m.slot))
                /\ slot' = [slot EXCEPT ![m.slot] = Handled(x, m.type)]
                /\ werr' = IF m.type = "error" THEN Recorded("read") ELSE werr
    /\ UNCHANGED <<ipc, tokens, sched, model, nextDone, nextSeq, pending, ppc, worker,
                   cmds, cpc, device, raised>>

-----------------------------------------------------------------------------
(* The main stream and the broadcast stream.                               *)

Posted(n) == n \in {bcast[i].n : i \in DOMAIN bcast}

Await ==
    /\ main # <<>> /\ Head(main).op = "await" /\ ~Posted(Head(main).n)
    /\ main' = Tail(main)
    /\ UNCHANGED <<ipc, tokens, sched, model, conn, worker, child, bcast, arrived, executed,
                   data, writing, flag, consumed, buffer, ran, errors>>

\* Mutant: the copy is not ordered behind the producer.
CopyRowsUnwaited ==
    /\ main # <<>> /\ Head(main).op = "copy"
    /\ buffer' = data[Head(main).n]
    /\ main' = Tail(main)
    /\ UNCHANGED <<ipc, tokens, sched, model, conn, worker, child, bcast, arrived, executed,
                   data, writing, flag, consumed, ran, errors>>

\* The wait on producer_done, or on the done flag, then the copy.
CopyRows ==
    /\ main # <<>> /\ Head(main).op = "copy"
    /\ LET s == Head(main).n
       IN  /\ IF ipc THEN flag[s] = Head(main).done ELSE writing[s] = None
           /\ buffer' = data[s]
    /\ main' = Tail(main)
    /\ UNCHANGED <<ipc, tokens, sched, model, conn, worker, child, bcast, arrived, executed,
                   data, writing, flag, consumed, ran, errors>>

\* The forward, then consumer_done.
Forward ==
    /\ main # <<>> /\ Head(main).op = "forward"
    /\ ran' = [step |-> Head(main).n, rows |-> buffer, want |-> Head(main).want]
    /\ executed' = Head(main).n
    /\ consumed' = IF Head(main).slot = None THEN consumed
                   ELSE [consumed EXCEPT ![Head(main).slot] = "done"]
    /\ main' = Tail(main)
    /\ UNCHANGED <<ipc, tokens, sched, model, conn, worker, child, bcast, arrived,
                   data, writing, flag, buffer, errors>>

ConsumerDone ==
    /\ main # <<>> /\ Head(main).op = "done"
    /\ consumed' = [consumed EXCEPT ![Head(main).n] = "done"]
    /\ main' = Tail(main)
    /\ UNCHANGED <<ipc, tokens, sched, model, conn, worker, child, bcast, arrived, executed,
                   data, writing, flag, buffer, ran, errors>>

\* The last rank samples after the forward; the tokens are copied to the ring.
Sampled ==
    /\ bcast # <<>> /\ Head(bcast).n <= executed
    /\ ring' = [ring EXCEPT ![Head(bcast).ring].fired = TRUE]
    /\ arrived' = Head(bcast).n
    /\ bcast' = Tail(bcast)
    /\ UNCHANGED <<ipc, shadow, nextGen, idxGen, nextRing, recvs, sched, model, conn, worker, child,
                   main, executed, data, writing, flag, consumed, buffer, ran, errors>>

-----------------------------------------------------------------------------
(* Shutdown, after the last step or an error: the control worker first, then *)
(* the connector.                                                          *)

Shutdown ==
    /\ pc = "failed" \/ (pc = "idle" /\ step = MaxSteps)
    /\ pc' = "joining"
    /\ UNCHANGED <<ipc, tokens, sched, step, batch, removing, expected, active, conn, worker,
                   child, device, errors>>

\* control_worker.close: join, then raise_if_failed.
JoinWorker ==
    /\ pc = "joining"
    /\ \/ /\ jobs = <<>> /\ wpc = "idle"
          /\ IF werr = None THEN pc' = "closing" /\ UNCHANGED raised
             ELSE pc' = "aborted" /\ raised' = IF raised = None THEN "worker" ELSE raised
       \/ /\ "timeout" \in Faults /\ (jobs # <<>> \/ wpc # "idle")
          /\ pc' = "aborted" /\ raised' = IF raised = None THEN "join" ELSE raised
    /\ UNCHANGED <<ipc, tokens, sched, step, batch, removing, expected, active, conn, worker,
                   child, device, werr>>

\* connector.close, after the producer thread and the child have ended.
CloseConnector ==
    /\ pc = "closing"
    /\ pending = <<>> /\ ppc = None
    /\ IF ipc THEN cmds = <<>> /\ cpc = None /\ results = <<>>
       ELSE \A s \in Slots : slot[s].state \in {"consuming", "releasing"} => consumed[s] = "done"
    /\ slot' = [s \in Slots |-> IF slot[s].state \in {"queued", "producing"}
                               THEN slot[s] ELSE Reset(slot[s])]
    /\ IF \E s \in Slots : slot'[s].state # "free"
       THEN pc' = "aborted" /\ raised' = IF raised = None THEN "active" ELSE raised
       ELSE pc' = "closed" /\ UNCHANGED raised
    /\ UNCHANGED <<ipc, tokens, sched, step, batch, removing, expected, active, nextDone,
                   nextSeq, pending, ppc, worker, child, device, werr>>

-----------------------------------------------------------------------------
ModelThread ==
    \/ \E r \in Requests : FreeIndex(r) \/ Discard(r) \/ Forget(r)
    \/ Prepare \/ Acquire \/ Submitted \/ Launch \/ Receive
    \/ JoinWorker \/ CloseConnector
ControlWorker ==
    \/ WorkerWaits \/ WorkerAppends \/ WorkerPlans
    \/ WorkerCancels \/ WorkerProduces \/ WorkerChecks \/ WorkerSends \/ WorkerReads
    \/ WorkerReports \/ WorkerSignals
Producer == ProducerTakes \/ ProducerReads
Child == ChildTakes \/ ChildReads \/ ChildLands
MainStream == Await \/ CopyRows \/ Forward \/ ConsumerDone

\* Everything but the scheduler's choices, faults and the end.
Work ==
    \/ ModelThread \/ ControlWorker \/ Producer \/ Child \/ HandleResult
    \/ \E s \in Slots : Land(s)
    \/ MainStream \/ Sampled

Next ==
    \/ \E b, gone \in SUBSET Requests : Schedule(b, gone)
    \/ Work
    \/ Expire \/ WorkerReadFails \/ ProducerReadFails
    \/ Shutdown

Spec == Init /\ [][Next]_vars

-----------------------------------------------------------------------------
(* Properties.                                                             *)

Identity == [seq : 1..MaxSteps, req : Requests, gen : 1..MaxSteps * Cardinality(Requests),
             start : 0..MaxLen]

\* Types; a slot in use serves exactly one ticket or one prefetch, and there
\* are never more control jobs than cells of the pinned ring.
TypeOK ==
    /\ \A r \in Live : shadow[r].gen \in 1..nextGen /\ Len(shadow[r].tokens) <= MaxLen + 1
    /\ \A s \in Slots :
          /\ slot[s].state \in Busy \cup {"free"}
          /\ slot[s].prefetch # None => slot[s].prefetch \in Identity
          /\ (slot[s].state # "free") = HasIdentity(slot[s])
          /\ slot[s].done \in 0..nextDone
    /\ active \in Slots \cup {None}
    /\ Len(jobs) <= PipelineSize + 1 /\ Len(pending) <= Cardinality(Slots)
    /\ Len(cmds) + Len(results) <= 3 * Cardinality(Slots)
    /\ executed \in 0..MaxSteps /\ arrived \in 0..executed

\* The rows a forward reads are those of exactly the tokens of its batch: of
\* the right requests, generations and positions, written completely.
RightRows == ran.step > 0 => ran.rows = ran.want

\* The shadow of a request is its token history: no token is missing, comes
\* twice or belongs to another generation of the same id.
ShadowIsHistory ==
    \A r \in Live : shadow[r].tokens = History(shadow[r].gen, Len(shadow[r].tokens))

\* Who writes into a slot: the child's command, the worker's or the
\* producer's read, and copies in flight.
WriterOwns(s) ==
    /\ (cpc # None /\ cpc.cmd.slot = s) =>
          slot[s].state # "free" /\ slot[s].done = cpc.cmd.done
    /\ (wpc \in {"read", "fail"} /\ job.slot = s) => slot[s].prefetch = job.prefetch
    /\ ppc = s => slot[s].ticket # None
    /\ writing[s] # None => slot[s].state # "free"

\* A slot is not given to another batch while a read for its last one may
\* still write into it.
DiscardedSlotAlive == pc # "closed" => \A s \in Slots : WriterOwns(s)

\* The consistency checks of the connector never fire: no slot in a state its
\* owner does not expect, no message of the child for a slot that moved on,
\* no slot left at shutdown.
NoInternalError ==
    /\ raised \notin {"no ticket", "not consuming", "active"}
    /\ raised = None => werr \notin {"corrupt", "message"}

\* Without an error nobody waits for ever: while a step is under way, the
\* device has work or the shutdown has not ended, some thread, process or
\* stream can move without a timeout.  Every behaviour being finite, each then
\* ends with all work done.
NoStandstill ==
    \/ raised # None \/ werr # None
    \/ pc \in {"idle", "closed"} /\ main = <<>> /\ bcast = <<>> /\ jobs = <<>>
    \/ ENABLED Work

\* What no fault excuses: an error of the connector's own making, a standstill.
NeverStuck == NoInternalError /\ NoStandstill
=============================================================================
