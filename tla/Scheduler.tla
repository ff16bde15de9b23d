------------------------------ MODULE Scheduler ------------------------------
(***************************************************************************)
(* The scheduler, src/src/vllm/v1/core/sched/scheduler.py: how requests    *)
(* move between waiting, running and preempted, how many tokens a step     *)
(* gives to each, which KV blocks they hold, and what the output of a step *)
(* does to a request that was preempted, reset or aborted meanwhile.       *)
(*                                                                         *)
(* One call of schedule() or update_from_output() is a chain of actions,   *)
(* one per turn of the code's loops; the calls from outside (add, abort,   *)
(* pause, reset) happen between calls.  flight holds the steps handed to   *)
(* the worker and not yet reported, oldest first.  The overrides of        *)
(* AsyncScheduler, the KV cache manager, the engine loop and the connector *)
(* are not in this repository and are modelled from how this file uses     *)
(* them.  Policy FCFS, no prefix caching, no encoder inputs or LoRA.       *)
(***************************************************************************)
EXTENDS Integers, Sequences, FiniteSets, Functions, SequencesExt

CONSTANTS
    Requests,
    Loaders,       \* number of requests of a behaviour that has a connector
    Modes,         \* configurations a behaviour may have, see below
    Prompts,       \* possible prompt lengths
    MaxTokens,     \* sampling_params.max_tokens of every request
    MaxModelLen,
    PoolBlocks,    \* KV blocks, and KV blocks of a behaviour with a connector
    LoaderBlocks,
    BlockSize,
    Budget,        \* max_num_scheduled_tokens
    Threshold,     \* long_prefill_token_threshold, 0: none
    MaxRunning,    \* max_num_seqs
    Stages,        \* steps in flight in mode "pipeline"
    Drafts,        \* num_spec_tokens of the modes that speculate
    Lookahead,     \* num_prefill_lookahead of mode "mtp"
    MaxCalls       \* aborts, pauses and resets of one behaviour (the bound)

(* mtp:      one step at a time, drafts, mamba cache mode "align"          *)
(* pipeline: Stages steps in flight, no drafts, synchronous scheduler      *)
(* async:    two steps in flight, drafts, AsyncScheduler                   *)
(* transfer: as async without drafts, with a KV consumer connector that    *)
(*           recomputes failed loads                                       *)
(* strict:   as transfer; failed loads fail the request, and the connector *)
(*           requires delivery                                             *)
ASSUME ModeAssumption ==
    Modes \subseteq {"mtp", "pipeline", "async", "transfer", "strict"}
ASSUME SizeAssumption ==
    /\ Prompts \subseteq Nat \ {0}
    /\ Loaders \in 0..Cardinality(Requests)
    /\ {MaxTokens, MaxModelLen, BlockSize, Budget, MaxRunning, Stages}
         \subseteq Nat \ {0}
    /\ {Threshold, Drafts, Lookahead, MaxCalls} \subseteq Nat
    /\ \A p \in Prompts : p < MaxModelLen
ASSUME VerificationFits ==     \* a verification row fits a step
    /\ Drafts < Budget
    /\ Threshold > 0 => Drafts < Threshold
ASSUME PoolAssumption ==       \* check_enough_kv_cache_memory
    {PoolBlocks, LoaderBlocks} \subseteq {n \in Nat : n * BlockSize >= MaxModelLen}

VARIABLES
    mode, prompt,
    req,        \* the fields of Request, with the blocks it holds
    running, waiting, skipped,
    prefills,   \* _inflight_prefills
    recvd, failed,    \* finished_recving_kv_req_ids, failed_recving_kv_req_ids
    pool,       \* free blocks, deferred_frees, and sched_step_seq - processed_step_seq
    pause, pc,
    plan,       \* locals of schedule()
    flight,     \* steps scheduled and not processed
    step,       \* rows left of the output being processed
    worker,     \* the model runner's token counts of a request
    out,        \* positions of the tokens delivered to the client
    calls       \* calls left

queues == <<running, waiting, skipped>>
transfers == <<prefills, recvd, failed>>
vars == <<mode, prompt, req, queues, transfers, pool, pause, pc, plan, flight,
          step, worker, out, calls>>

Async     == mode \in {"async", "transfer", "strict"}
Transfers == mode \in {"transfer", "strict"}     \* connector, defer_block_free
Depth     ==                                     \* max_concurrent_batches
    IF mode = "mtp" THEN 1 ELSE IF mode = "pipeline" THEN Stages ELSE 2
NumBlocks == IF Transfers THEN LoaderBlocks ELSE PoolBlocks
K         == IF mode \in {"mtp", "async"} THEN Drafts ELSE 0

Fresh == [status |-> "new", tokens |-> 0, computed |-> 0, holders |-> 0,
          spec |-> 0, flying |-> 0, stale |-> 0, drop |-> FALSE,
          chunk |-> FALSE, again |-> FALSE, seq |-> 0, blocks |-> <<>>]
NoPlan == [at |-> 1, budget |-> 0, rows |-> <<>>, victims |-> {},
           prefill |-> FALSE, ran |-> FALSE, skips |-> <<>>, loads |-> {}]
NoWork == [total |-> 0, computed |-> 0]

With(status) == {r \in Requests : req[r].status = status}
Over    == With("gone") \cup With("finished")
Loading == {r \in With("remote") : r \notin recvd} \cup With("finished")

Init ==
    /\ mode \in Modes /\ prompt \in [Requests -> Prompts]
    /\ \E S \in SUBSET Requests :
          /\ IF Transfers THEN Cardinality(S) = Loaders ELSE S = Requests
          /\ req = [r \in Requests |->
                      IF r \in S THEN Fresh ELSE [Fresh EXCEPT !.status = "gone"]]
    /\ running = <<>> /\ waiting = <<>> /\ skipped = <<>>
    /\ prefills = {} /\ recvd = {} /\ failed = {}
    /\ pool = [free |-> [b \in 1..NumBlocks |-> b], deferred |-> <<>>, ahead |-> 0]
    /\ pause = "none" /\ pc = "idle"
    /\ plan = NoPlan /\ flight = <<>> /\ step = <<>>
    /\ worker = [r \in Requests |-> NoWork]
    /\ out = [r \in Requests |-> <<>>]
    /\ calls = MaxCalls

-----------------------------------------------------------------------------
(* Blocks and preemption.                                                  *)

\* Mutant: deferred blocks are fenced by the step before the last one.
FenceEarly(r) ==
    IF Transfers /\ req[r].seq > 0
    THEN IF req[r].blocks = <<>> THEN pool
         ELSE [pool EXCEPT !.deferred = Append(@, [fence  |-> pool.ahead - 1,
                                                   blocks |-> req[r].blocks])]
    ELSE [pool EXCEPT !.free = @ \o Reverse(req[r].blocks)]

\* The request's own writes end when last_sched_seq is processed.
FreeRequestBlocks(r) ==
    IF Transfers /\ req[r].seq > 0
    THEN IF req[r].blocks = <<>> THEN pool
         ELSE [pool EXCEPT !.deferred = Append(@, [fence  |-> pool.ahead,
                                                   blocks |-> req[r].blocks])]
    ELSE [pool EXCEPT !.free = @ \o Reverse(req[r].blocks)]

\* _drain_deferred_frees: up to the first entry whose fence is still ahead
Drained(p) ==
    LET done == Max({0} \cup {k \in DOMAIN p.deferred :
                               \A i \in 1..k : p.deferred[i].fence <= 0})
        back == [i \in 1..done |-> Reverse(p.deferred[i].blocks)]
    IN  [p EXCEPT !.free = @ \o FlattenSeq(back),
                  !.deferred = SubSeq(@, done + 1, Len(@))]

Needed(q, upto) ==
    LET full == (Min({upto, MaxModelLen}) + BlockSize - 1) \div BlockSize
    IN  Max({0, full - Len(q.blocks)})

\* popleft_n of the free list
Allocated(r, q, n) ==
    /\ req' = [req EXCEPT ![r] =
                  [q EXCEPT !.blocks = @ \o SubSeq(pool.free, 1, n)]]
    /\ pool' = [pool EXCEPT !.free = SubSeq(@, n + 1, Len(@))]

Preempted(q, drop) ==
    [q EXCEPT !.status = "preempted", !.computed = 0, !.spec = 0,
              !.drop = drop \/ (@ /\ q.stale > 0),
              !.stale = q.flying, !.holders = 0, !.again = TRUE,
              !.blocks = <<>>]

PreemptLast(drop) ==
    LET v == Last(running)
    IN  /\ req' = [req EXCEPT ![v] = Preempted(@, drop)]
        /\ pool' = FreeRequestBlocks(v)
        /\ prefills' = prefills \ {v}
        /\ running' = Front(running)
        /\ waiting' = <<v>> \o waiting

-----------------------------------------------------------------------------
(* The number of tokens a step gives to a request.                         *)

\* Mutant: a chunk ends wherever the budget ends.
AlignedNowhere(q, p, start, n) == n

\* _mamba_block_aligned_split, without partial and shared prefix hits
Aligned(q, p, start, n) ==
    LET prefillEnd == Max({p, q.tokens - 1})
        last  == Max({0, q.tokens - (q.tokens % BlockSize) - BlockSize}) \* use_eagle
        limit == IF Threshold > 0 THEN Min({Budget, Threshold}) ELSE Budget
        floor == ((start + n) \div BlockSize) * BlockSize
        end   == IF start + n < prefillEnd /\ (floor > start \/ BlockSize <= limit)
                 THEN floor ELSE start + n
        next  == IF start % BlockSize = 0 THEN 0
                 ELSE (start \div BlockSize + 1) * BlockSize
        stops == {s \in {next, last} : start < s /\ s < end}
    IN  IF start >= prefillEnd THEN n ELSE Max({0, Min(stops \cup {end}) - start})

\* _reserve_prefill_lookahead
Reserved(q, start, n) ==
    LET remaining == q.tokens - start - n
        ahead == IF mode = "mtp" THEN Lookahead ELSE IF mode = "async" THEN 1 ELSE 0
    IN  Max({0, IF 0 < remaining /\ remaining < ahead
                THEN n - (ahead - remaining) ELSE n})

Clipped(q, p, start, n) ==
    Reserved(q, start, IF mode = "mtp" THEN Aligned(q, p, start, n) ELSE n)

Capped(n) == IF 0 < Threshold /\ Threshold < n THEN Threshold ELSE n

\* No further step is needed: the steps in flight reach max_tokens.
Satisfied(r) ==
    /\ req[r].holders > 0
    /\ req[r].computed + 2 - req[r].holders >= prompt[r] + MaxTokens

\* Mutant: drafts are not shed near the model length.
Untrimmed(q) == q

\* Near the model length a synchronous decode sheds drafts.
Trimmed(q) ==
    LET slots == MaxModelLen - q.computed - 1
    IN  IF ~Async /\ ~q.chunk /\ slots > 0 THEN [q EXCEPT !.spec = Min({@, slots - 1})]
        ELSE q

RunningTokens(q, p) ==
    LET verify == IF q.spec > 0 /\ ~q.chunk THEN q.spec + 1 ELSE 0
        want   == Max({verify, q.tokens + q.spec + q.holders - q.computed})
        n      == Clipped(q, p, q.computed,
                          Min({Capped(want), plan.budget, MaxModelLen - q.computed - 1}))
    IN  IF n < verify THEN 0 ELSE n

-----------------------------------------------------------------------------
(* schedule()                                                              *)

Unfinished ==
    CASE pause = "all" -> {}
      [] pause = "new" -> ToSet(running)
      [] OTHER -> ToSet(running) \cup ToSet(waiting) \cup ToSet(skipped)

Begin ==
    /\ pc = "idle" /\ Len(flight) < Depth
    /\ Unfinished # {} \/ With("finished") # {}
    /\ pc' = "running"
    /\ plan' = [NoPlan EXCEPT !.budget = IF pause = "all" THEN 0 ELSE Budget]
    /\ UNCHANGED <<mode, prompt, req, queues, transfers, pool, pause, flight,
                   step, worker, out, calls>>

Current == running[plan.at]
RunningLeft == pc = "running" /\ plan.at <= Len(running) /\ plan.budget > 0

SkipRunning ==
    /\ RunningLeft
    /\ LET q == Trimmed(req[Current])
       IN  /\ Satisfied(Current) \/ RunningTokens(q, prompt[Current]) = 0
           /\ req' = IF Satisfied(Current) THEN req ELSE [req EXCEPT ![Current] = q]
    /\ plan' = [plan EXCEPT !.at = @ + 1]
    /\ UNCHANGED <<mode, prompt, queues, transfers, pool, pause, pc, flight, step,
                   worker, out, calls>>

Row(r, n, drafts, pad, fresh) ==
    [r |-> r, n |-> n, drafts |-> drafts, pad |-> pad, fresh |-> fresh,
     blocks |-> IF Transfers THEN ToSet(req'[r].blocks) ELSE {}]

ScheduleRunning ==
    /\ RunningLeft /\ ~Satisfied(Current)
    /\ LET r == Current
           q == Trimmed(req[r])
           n == RunningTokens(q, prompt[r])
           more == Needed(q, q.computed + n + K)
           drafts == Max({0, Min({q.spec, n + q.computed - q.tokens - q.holders})})
       IN  /\ n > 0 /\ more <= Len(pool.free)
           /\ Allocated(r, [q EXCEPT !.spec = 0], more)
           /\ plan' = [plan EXCEPT
                 !.at = @ + 1, !.budget = @ - n, !.ran = TRUE,
                 !.prefill = @ \/ q.chunk,
                 !.rows = Append(@, Row(r, n, drafts, FALSE, NoWork))]
    /\ UNCHANGED <<mode, prompt, queues, transfers, pause, pc, flight, step,
                   worker, out, calls>>

\* Its blocks do not fit: the last running request is preempted, and when
\* that is the request itself the loop ends.
PreemptRunning ==
    /\ RunningLeft /\ ~Satisfied(Current)
    /\ LET q == Trimmed(req[Current])
           n == RunningTokens(q, prompt[Current])
       IN  n > 0 /\ Needed(q, q.computed + n + K) > Len(pool.free)
    /\ PreemptLast(mode = "strict")
    /\ plan' = [plan EXCEPT !.victims = @ \cup {Last(running)}]
    /\ pc' = IF Last(running) = Current THEN "finish" ELSE pc
    /\ UNCHANGED <<mode, prompt, skipped, recvd, failed, pause, flight, step,
                   worker, out, calls>>

RunningDone ==
    /\ pc = "running" /\ ~RunningLeft
    /\ pc' = IF plan.victims = {} /\ pause = "none" THEN "waiting" ELSE "finish"
    /\ UNCHANGED <<mode, prompt, req, queues, transfers, pool, pause, plan, flight,
                   step, worker, out, calls>>

-----------------------------------------------------------------------------
(* The waiting queues: skipped_waiting before waiting.                     *)

WaitingLeft ==
    /\ pc = "waiting" /\ plan.budget > 0 /\ Len(running) < MaxRunning
    /\ skipped \o waiting # <<>>
Candidate == Head(skipped \o waiting)

PopCandidate ==
    IF skipped # <<>> THEN skipped' = Tail(skipped) /\ waiting' = waiting
    ELSE waiting' = Tail(waiting) /\ skipped' = skipped

\* Mutant: a preempted request resumes before its output in flight is in.
MustSkipLoads(r) == req[r].status = "remote" /\ r \notin recvd

MustSkip(r) == \/ req[r].status = "remote" /\ r \notin recvd
               \/ req[r].status # "remote" /\ req[r].stale > 0 /\ ~req[r].drop

SkipWaiting ==
    /\ WaitingLeft /\ MustSkip(Candidate)
    /\ PopCandidate
    /\ plan' = [plan EXCEPT !.skips = Append(@, Candidate)]
    /\ UNCHANGED <<mode, prompt, req, running, transfers, pool, pause, pc, flight,
                   step, worker, out, calls>>

\* _update_waiting_for_remote_kv and back to WAITING or PREEMPTED
Promote ==
    /\ WaitingLeft /\ Candidate \in recvd
    /\ LET r == Candidate
           q == [req[r] EXCEPT !.status = IF req[r].again THEN "preempted" ELSE "waiting"]
       IN  CASE r \in failed /\ q.computed = 0 ->
                    /\ req' = [req EXCEPT ![r] = [q EXCEPT !.blocks = <<>>]]
                    /\ pool' = [pool EXCEPT !.free = @ \o Reverse(q.blocks)]
             [] r \in failed /\ q.computed > 0 ->
                    req' = [req EXCEPT ![r] = q] /\ pool' = pool
             [] OTHER ->
                    /\ req' = [req EXCEPT ![r] =
                                 [q EXCEPT !.computed = Min({@, q.tokens - 1})]]
                    /\ pool' = pool
    /\ recvd' = recvd \ {Candidate} /\ failed' = failed \ {Candidate}
    /\ UNCHANGED <<mode, prompt, queues, prefills, pause, pc, plan, flight, step,
                   worker, out, calls>>

Admissible == WaitingLeft /\ ~MustSkip(Candidate) /\ Candidate \notin recvd

\* Blocks the requests still prefilling or loading have yet to allocate
ReservedBlocks ==
    MapThenSumSet(LAMBDA r : Needed(req[r], req[r].tokens), prefills)

Matched(r) == IF Transfers /\ req[r].computed = 0
              THEN {e \in {BlockSize, req[r].tokens} : e <= req[r].tokens} ELSE {}
LoadFits(r, ext) ==
    Max({Needed(req[r], ext), Needed(req[r], req[r].tokens)}) + ReservedBlocks
      <= Len(pool.free)

\* The connector has ext tokens of the request and loads them meanwhile.
Load ==
    /\ Admissible
    /\ \E ext \in Matched(Candidate) :
          /\ LoadFits(Candidate, ext)
          /\ Allocated(Candidate, [req[Candidate] EXCEPT !.status = "remote",
                                                         !.computed = ext],
                       Needed(req[Candidate], ext))
    /\ PopCandidate
    /\ prefills' = prefills \cup {Candidate}
    /\ plan' = [plan EXCEPT !.skips = Append(@, Candidate),
                            !.loads = @ \cup {Candidate}]
    /\ UNCHANGED <<mode, prompt, running, recvd, failed, pause, pc, flight, step,
                   worker, out, calls>>

\* A new decode among decodes is padded to the width of a verification row.
Padded(q) == K > 0 /\ q.tokens - q.computed = 1 /\ plan.ran /\ ~plan.prefill
PadFits(q) == K < plan.budget /\ q.computed + 1 + K <= MaxModelLen

WaitingTokens(q, p) ==
    LET want == Min({Capped(IF Padded(q) THEN 1 + K ELSE q.tokens - q.computed),
                     plan.budget})
        n    == Clipped(q, p, q.computed, want)
    IN  IF Padded(q) /\ 0 < n /\ n < 1 + K THEN 1 ELSE n

AdmitFits(q, n) ==
    Max({Needed(q, q.computed + n + K), Needed(q, q.tokens)}) <= Len(pool.free)

CanAdmit(q, p) ==
    /\ Padded(q) => PadFits(q)
    /\ WaitingTokens(q, p) > 0
    /\ AdmitFits(q, WaitingTokens(q, p))

Admit ==
    /\ Admissible
    /\ LET r == Candidate
           q == req[r]
           n == WaitingTokens(q, prompt[r])
           pad == Padded(q) /\ n = 1 + K
       IN  /\ CanAdmit(q, prompt[r])
           /\ Allocated(r, [q EXCEPT !.status = "running"], Needed(q, q.computed + n + K))
           /\ plan' = [plan EXCEPT
                 !.budget = @ - n,
                 !.rows = Append(@, Row(r, n, IF pad THEN K ELSE 0, pad,
                                        [total |-> q.tokens, computed |-> q.computed]))]
           /\ prefills' = IF q.computed + n < q.tokens THEN prefills \cup {r} ELSE prefills
    /\ PopCandidate
    /\ running' = Append(running, Candidate)
    /\ UNCHANGED <<mode, prompt, recvd, failed, pause, pc, flight, step, worker,
                   out, calls>>

\* The loop ends: nothing is left, or the next request cannot be admitted.
WaitingDone ==
    /\ pc = "waiting"
    /\ \/ ~WaitingLeft
       \/ Admissible /\ ~CanAdmit(req[Candidate], prompt[Candidate])
       \/ Admissible /\ \E ext \in Matched(Candidate) : ~LoadFits(Candidate, ext)
    /\ skipped' = plan.skips \o skipped
    /\ pc' = "finish"
    /\ UNCHANGED <<mode, prompt, req, running, waiting, transfers, pool, pause, plan,
                   flight, step, worker, out, calls>>

-----------------------------------------------------------------------------
(* The end of schedule(): _update_after_schedule, with the override of     *)
(* AsyncScheduler that gives every decode placeholders for its output.     *)

Advanced(q, row) ==
    LET computed == q.computed + row.n
        chunk    == computed < q.tokens + q.holders
        base     == [q EXCEPT !.computed = computed, !.flying = @ + row.n,
                              !.chunk = chunk,
                              !.seq = IF Transfers THEN pool.ahead + 1 ELSE 0]
    IN  IF Async /\ ~chunk
        THEN [base EXCEPT !.holders = @ + 1 + row.drafts, !.spec = K]
        ELSE base

Finish ==
    /\ pc = "finish" /\ pc' = "idle"
    /\ LET rows == plan.rows
           of(r) == {i \in DOMAIN rows : rows[i].r = r}
       IN  /\ req' = [r \in Requests |->
                        IF of(r) = {} THEN req[r]
                        ELSE Advanced(req[r], rows[CHOOSE i \in of(r) : TRUE])]
           /\ prefills' = {r \in prefills : of(r) = {} \/ req'[r].chunk}
           /\ pool' = IF Transfers /\ rows # <<>> THEN [pool EXCEPT !.ahead = @ + 1]
                      ELSE pool
           /\ flight' = Append(flight, [rows |-> rows, loads |-> plan.loads])
    /\ plan' = NoPlan
    /\ UNCHANGED <<mode, prompt, queues, recvd, failed, pause, step, worker, out, calls>>

-----------------------------------------------------------------------------
(* finish_requests and _free_request                                       *)

\* An asynchronous load still writes the blocks of a request that is finished
\* before its load is reported: they are kept until then.
Gone(r) ==
    /\ req' = [req EXCEPT ![r] = [Fresh EXCEPT !.status = "gone"]]
    /\ pool' = FreeRequestBlocks(r)
    /\ worker' = [worker EXCEPT ![r] = NoWork]

\* Mutant: what the connector reported of the request is kept.
DequeuedOnly(r) ==
    /\ prefills' = prefills \ {r} /\ UNCHANGED <<recvd, failed>>
    /\ running' = RemoveFirst(running, r)
    /\ waiting' = RemoveFirst(waiting, r) /\ skipped' = RemoveFirst(skipped, r)

Dequeued(r) ==
    /\ prefills' = prefills \ {r} /\ recvd' = recvd \ {r} /\ failed' = failed \ {r}
    /\ running' = RemoveFirst(running, r)
    /\ waiting' = RemoveFirst(waiting, r) /\ skipped' = RemoveFirst(skipped, r)

Closed(r) ==
    /\ IF req[r].status = "remote" /\ r \notin recvd
       THEN req' = [req EXCEPT ![r].status = "finished"] /\ UNCHANGED <<pool, worker>>
       ELSE Gone(r)
    /\ Dequeued(r)

-----------------------------------------------------------------------------
(* update_from_output()                                                    *)

Less(q) == [q EXCEPT !.seq = Max({0, @ - 1})]

Collect ==
    /\ pc = "idle" /\ flight # <<>>
    /\ pc' = "output"
    /\ flight' = Tail(flight)
    /\ step' = Head(flight).rows
    /\ IF Transfers /\ Head(flight).rows # <<>>
       THEN /\ pool' = Drained([pool EXCEPT
                  !.ahead = @ - 1,
                  !.deferred = [i \in DOMAIN @ |-> [@[i] EXCEPT !.fence = @ - 1]]])
            /\ req' = [r \in Requests |-> Less(req[r])]
       ELSE UNCHANGED <<pool, req>>
    /\ UNCHANGED <<mode, prompt, queues, transfers, pause, plan, worker, out, calls>>

\* What the model runner did with a row: it samples when the row reaches the
\* end of the tokens it knows, one token more than it accepts drafts.
Runner(row) == IF row.fresh = NoWork THEN worker[row.r] ELSE row.fresh
Samples(row) == Runner(row).computed + row.n - row.drafts >= Runner(row).total
Ran(row, a) ==
    LET w == Runner(row)
    IN  IF Samples(row)
        THEN [total |-> w.total + a + 1, computed |-> w.computed + row.n - (row.drafts - a)]
        ELSE [w EXCEPT !.computed = @ + row.n]

Drained1(q, row) ==
    [q EXCEPT !.flying = @ - row.n, !.stale = IF @ > 0 THEN @ - row.n ELSE 0]

\* Mutant: a rejected draft keeps its placeholder.
RejectedKept(q, row, a, stale) ==
    LET back == IF stale \/ ~Samples(row) THEN 0 ELSE row.drafts - a
    IN  [q EXCEPT !.computed = IF @ > 0 THEN @ - back ELSE @]

\* A rejected draft takes back its position, unless the output is stale.
Rejected(q, row, a, stale) ==
    LET back == IF stale \/ ~Samples(row) THEN 0 ELSE row.drafts - a
    IN  [q EXCEPT !.computed = IF @ > 0 THEN @ - back ELSE @,
                  !.holders  = IF @ > 0 THEN @ - back ELSE @]

\* The tokens delivered out of gen sampled ones, and whether the request stops
\* at the last: at a stop token, max_tokens or the model length.
Deliveries(r, gen) ==
    LET limit == Min({prompt[r] + MaxTokens, MaxModelLen}) - req[r].tokens
    IN  {d \in (1..gen) \X BOOLEAN :
            /\ d[1] <= limit
            /\ d[1] = limit => d[2]
            /\ d[1] < gen => d[2]}

Ignored(q) == q.status \in {"gone", "finished"} \/ (q.stale > 0 /\ q.drop)

SkipRow ==
    /\ pc = "output" /\ step # <<>>
    /\ LET row == Head(step)
           q   == req[row.r]
       IN  /\ Ignored(q)
           /\ req' = IF q.status = "gone" THEN req
                     ELSE [req EXCEPT ![row.r] = Drained1(q, row)]
           /\ \E a \in 0..(IF row.pad THEN 0 ELSE row.drafts) :
                 worker' = IF q.status = "gone" THEN worker
                           ELSE [worker EXCEPT ![row.r] = Ran(row, a)]
    /\ step' = Tail(step)
    /\ UNCHANGED <<mode, prompt, queues, transfers, pool, pause, pc, plan, flight,
                   out, calls>>

\* The synchronous scheduler takes the runner's drafts after the step.
Drafted(q) == IF Async \/ K = 0 THEN q
              ELSE [q EXCEPT !.spec = IF q.chunk THEN 0 ELSE K]

UpdateRow ==
    /\ pc = "output" /\ step # <<>>
    /\ LET row == Head(step)
           r   == row.r
           q   == req[r]
           stale == q.stale > 0
       IN  /\ ~Ignored(q)
           /\ \E a \in 0..(IF row.pad THEN 0 ELSE row.drafts) :
                 LET base == Rejected(Drained1(q, row), row, a, stale)
                     gen  == IF Samples(row) THEN a + 1 ELSE 0
                     first == Runner(row).total
                 IN  IF gen = 0
                     THEN /\ req' = [req EXCEPT ![r] = Drafted(base)]
                          /\ worker' = [worker EXCEPT ![r] = Ran(row, a)]
                          /\ UNCHANGED <<queues, transfers, pool, out>>
                     ELSE \E d \in Deliveries(r, gen) :
                          /\ out' = [out EXCEPT ![r] = @ \o [i \in 1..d[1] |-> first + i]]
                          /\ IF d[2] THEN Closed(r)
                             ELSE /\ req' = [req EXCEPT ![r] = Drafted(
                                       [base EXCEPT !.tokens = @ + d[1],
                                          !.holders = IF Async /\ ~stale THEN @ - d[1]
                                                      ELSE @])]
                                  /\ worker' = [worker EXCEPT ![r] = Ran(row, a)]
                                  /\ UNCHANGED <<queues, transfers, pool>>
    /\ step' = Tail(step)
    /\ UNCHANGED <<mode, prompt, pause, pc, plan, flight, calls>>

\* The connector's part of an output: a load that is over (one per output in
\* the model), well or with an invalid block at which the computed tokens end.
Reportable == Loading \ UNION {flight[i].loads : i \in DOMAIN flight}
Cuts(q) == {i * BlockSize : i \in 0..((q.computed - 1) \div BlockSize)}

OutputOver == pc = "output" /\ step = <<>> /\ pc' = "idle"

EndUpdate ==
    /\ OutputOver
    /\ UNCHANGED <<mode, prompt, req, queues, transfers, pool, pause, plan, flight,
                   step, worker, out, calls>>

LoadDone(r) ==
    /\ OutputOver /\ r \in Reportable
    /\ IF req[r].status = "remote"
       THEN recvd' = recvd \cup {r} /\ UNCHANGED <<req, pool, worker>>
       ELSE recvd' = recvd /\ Gone(r)
    /\ UNCHANGED <<mode, prompt, queues, prefills, failed, pause, plan, flight, step,
                   out, calls>>

LoadFails(r) ==
    /\ OutputOver /\ r \in Reportable /\ req[r].status = "remote"
    /\ IF mode = "strict"
       THEN Gone(r) /\ Dequeued(r)
       ELSE /\ \E cut \in Cuts(req[r]) : req' = [req EXCEPT ![r].computed = cut]
            /\ recvd' = recvd \cup {r} /\ failed' = failed \cup {r}
            /\ UNCHANGED <<queues, prefills, pool, worker>>
    /\ UNCHANGED <<mode, prompt, pause, plan, flight, step, out, calls>>

-----------------------------------------------------------------------------
(* Calls from outside, between two calls of the engine loop.               *)

Between == pc = "idle" /\ (Depth = 1 => flight = <<>>)

AddRequest(r) ==
    /\ Between /\ req[r].status = "new"
    /\ req' = [req EXCEPT ![r] = [Fresh EXCEPT !.status = "waiting",
                                              !.tokens = prompt[r]]]
    /\ waiting' = Append(waiting, r)
    /\ UNCHANGED <<mode, prompt, running, skipped, transfers, pool, pause, pc, plan,
                   flight, step, worker, out, calls>>

Abort(r) ==
    /\ Between /\ calls > 0 /\ r \notin Over \cup With("new")
    /\ Closed(r)
    /\ calls' = calls - 1
    /\ UNCHANGED <<mode, prompt, pause, pc, plan, flight, step, out>>

SetPauseState ==
    /\ Between
    /\ \/ pause # "none" /\ pause' = "none" /\ calls' = calls
       \/ pause = "none" /\ calls > 0 /\ pause' \in {"new", "all"} /\ calls' = calls - 1
    /\ UNCHANGED <<mode, prompt, req, queues, transfers, pool, pc, plan, flight, step,
                   worker, out>>

\* reset_prefix_cache(reset_running_requests): every running request is
\* preempted, the last one first, and its output in flight will be dropped.
Reset ==
    /\ Between /\ calls > 0
    /\ pc' = "reset" /\ calls' = calls - 1
    /\ UNCHANGED <<mode, prompt, req, queues, transfers, pool, pause, plan, flight,
                   step, worker, out>>

ResetRunning ==
    /\ pc = "reset" /\ running # <<>>
    /\ PreemptLast(TRUE)
    /\ UNCHANGED <<mode, prompt, skipped, recvd, failed, pause, pc, plan, flight, step,
                   worker, out, calls>>

\* The block pool is reset, or RuntimeError goes back to the caller.
ResetDone ==
    /\ pc = "reset" /\ running = <<>>
    /\ pc' = "idle"
    /\ UNCHANGED <<mode, prompt, req, queues, transfers, pool, pause, plan, flight,
                   step, worker, out, calls>>

Done ==
    /\ pc = "idle" /\ flight = <<>> /\ With("gone") = Requests
    /\ UNCHANGED vars

-----------------------------------------------------------------------------
Next ==
    \/ Begin \/ SkipRunning \/ ScheduleRunning \/ PreemptRunning \/ RunningDone
    \/ SkipWaiting \/ Promote \/ Load \/ Admit \/ WaitingDone \/ Finish
    \/ Collect \/ SkipRow \/ UpdateRow \/ EndUpdate
    \/ SetPauseState \/ Reset \/ ResetRunning \/ ResetDone \/ Done
    \/ \E r \in Requests :
          LoadDone(r) \/ LoadFails(r) \/ AddRequest(r) \/ Abort(r)

Spec == Init /\ [][Next]_vars

-----------------------------------------------------------------------------
Positions == 0..(MaxModelLen + K + 1)

(* Every request is in exactly the queue its status names, its counters    *)
(* stay in range, and what it holds as in flight is what is in flight      *)
(* (requests, running, waiting and skipped_waiting; num_in_flight_tokens;  *)
(* the asserts of update_from_output on the stale count).                  *)
RowsOf(r) == SelectSeq(FlattenSeq(<<step>> \o [i \in DOMAIN flight |-> flight[i].rows]),
                       LAMBDA row : row.r = r)
InFlight(r) == FoldSeq(LAMBDA row, sum : row.n + sum, 0, RowsOf(r))
TypeOK ==
    /\ pc \in {"idle", "running", "waiting", "finish", "output", "reset"}
    /\ IsInjective(running \o waiting \o skipped \o plan.skips) \/ pc = "finish"
    /\ ToSet(running) = With("running")
    /\ pc # "waiting" => ToSet(waiting) \cup ToSet(skipped) =
                            With("waiting") \cup With("preempted") \cup With("remote")
    /\ recvd \subseteq With("remote") /\ failed \subseteq recvd
    /\ prefills \subseteq With("running") \cup With("remote") \cup With("waiting")
                             \cup With("preempted")
    /\ \A r \in Requests \ Over :
          /\ {req[r].tokens, req[r].computed, req[r].spec, req[r].holders}
                \subseteq Positions
          /\ req[r].flying = InFlight(r)
          /\ req[r].stale \in 0..req[r].flying

(* The client receives the tokens of a request in order, each position     *)
(* once, however often it was preempted, reset or overtaken by its own     *)
(* output in flight (_preempt_request, the stale and drop rules).          *)
OutputInOrder ==
    \A r \in Requests :
        /\ \A i \in DOMAIN out[r] : out[r][i] = prompt[r] + i
        /\ r \notin Over \cup With("new") => req[r].tokens = prompt[r] + Len(out[r])

(* Whenever a running request has nothing in flight, scheduler and model   *)
(* runner agree on its tokens and on how many are computed; a row never    *)
(* runs past the tokens the runner knows, so a row with drafts verifies    *)
(* all of them (placeholders, rejected drafts, padded and trimmed rows).   *)
RunnerAgrees ==
    /\ \A r \in With("running") : pc = "idle" /\ req[r].flying = 0 =>
          /\ worker[r] = [total |-> req[r].tokens, computed |-> req[r].computed]
          /\ req[r].holders = 0
    /\ step # <<>> => LET row == Head(step) IN
          req[row.r].status # "gone" =>
             /\ Runner(row).computed + row.n - row.drafts <= Runner(row).total
             /\ row.drafts > 0 => Samples(row) /\ row.n > row.drafts

(* A KV block is free, waiting for its fence or held by one request; with  *)
(* a connector no block of a step in flight is free or held by another     *)
(* request, whose load is not ordered behind that step (defer_block_free); *)
(* a request holds blocks for all it has computed.                         *)
Held == FlattenSeq(<<pool.free>> \o [i \in DOMAIN pool.deferred |-> pool.deferred[i].blocks])
BlocksSafe ==
    /\ IsInjective(Held)
    /\ \A r \in Requests :
          /\ IsInjective(req[r].blocks)
          /\ ToSet(req[r].blocks) \cap ToSet(Held) = {}
          /\ \A s \in Requests \ {r} :
                ToSet(req[r].blocks) \cap ToSet(req[s].blocks) = {}
          /\ pc = "idle" => req[r].computed <= BlockSize * Len(req[r].blocks)
    /\ UNION {ToSet(req[r].blocks) : r \in Requests} \cup ToSet(Held) = 1..NumBlocks
    /\ \A i \in DOMAIN flight : \A row \in ToSet(flight[i].rows) :
          /\ row.blocks \cap ToSet(pool.free) = {}
          /\ \A s \in Requests \ {row.r} : row.blocks \cap ToSet(req[s].blocks) = {}

(* In mode "align" a chunk that does not reach the end of the prefill ends *)
(* on a block boundary, unless a block is wider than a chunk may be        *)
(* (_mamba_block_aligned_split), and never within the drafter's lookahead  *)
(* of the end (_reserve_prefill_lookahead).                                *)
ChunksAligned ==
    pc = "finish" /\ mode = "mtp" => \A row \in ToSet(plan.rows) :
        LET q == req[row.r]
            end == q.computed + row.n
        IN  end < Max({prompt[row.r], q.tokens - 1}) =>
               /\ end % BlockSize = 0 \/ BlockSize > Budget
                    \/ (Threshold > 0 /\ BlockSize > Threshold)
               /\ q.tokens - end >= Lookahead

(* The rows of a step are ones the runner and the Mamba states can serve.  *)
RowsSound == RunnerAgrees /\ ChunksAligned

(* A step that starts with nothing in flight, no load under way and some   *)
(* request to serve schedules something (the guards that put a request off *)
(* to a later step: full verification, blocks, reservation, lookahead).    *)
(* Two exceptions the code has: a request whose load failed as a whole is  *)
(* still in _inflight_prefills, so that its own reservation stands against *)
(* its second try although the comment on reserved_blocks speaks of "other *)
(* in-flight reservations"; and, under AsyncScheduler, one whose           *)
(* placeholders reach past the model length ("Async placeholders need      *)
(* separate handling").                                                    *)
Stalled ==
    /\ pc = "finish" /\ flight = <<>> /\ pause = "none" /\ plan.victims = {}
    /\ plan.rows = <<>> /\ Loading = {}
    /\ running \o waiting \o skipped # <<>>
SelfReserved == {r \in prefills : req[r].status \notin {"running", "remote"}}
PastTheEnd == {r \in With("running") :
                  Async /\ req[r].computed + req[r].spec + 2 > MaxModelLen}
NoStall == Stalled => SelfReserved \cup PastTheEnd # {}
=============================================================================
