------------------------------ MODULE WorkerPool ------------------------------
(***************************************************************************)
(* The worker threads of the persistent GDS reader (src/csrc/ple_gds/       *)
(* ple_gds_persistent.cpp: start_workers, worker_loop, sync_mt_read,        *)
(* stop_workers) and the host lanes of Q38_PLE_HOST_READ, which the next    *)
(* read refills while the copies of the last one may still be queued.       *)
(*                                                                          *)
(* read and close hold output_binding_mutex_, so one caller is modelled.    *)
(* The ranges of a read that lie in one worker's lane are counted; a lane   *)
(* holds <<n, k>> when the first k ranges of read n are in it.              *)
(***************************************************************************)
EXTENDS Integers, FiniteSets

CONSTANTS
    Workers,    \* worker threads, one lane each
    MaxRanges,  \* ranges of one read in one lane (bound)
    MaxReads    \* reads of one behaviour (bound)

ASSUME WorkerAssumption == IsFiniteSet(Workers) /\ Workers # {}
ASSUME BoundAssumption == MaxRanges \in Nat \ {0} /\ MaxReads \in Nat

VARIABLES
    pc,        \* the caller
    read,      \* number of reads begun
    share,     \* share[w]: ranges of the current read in the lane of w
    active_ranges,     \* the read whose ranges are published (0 is nullptr)
    work_generation,
    workers_pending,
    work_failed,
    work_ios,
    stopping_workers,
    wpc,       \* wpc[w]: worker w
    observed,  \* observed_generation of w
    done,      \* done[w]: ranges w has read for this generation (local_ios)
    host_used, \* host_used[w]: ranges in the prefix that read() copies
    lane,      \* lane[w]: contents of the host lane
    copies,    \* queued copies <<read, worker, ranges>> from a lane to the slot
    host_copy_recorded,
    host_copy_done,    \* the copies the event stands behind
    failing,   \* reads one of whose ranges failed
    result     \* result[n]: how read n ended

request == <<read, share>>
mutexed == <<active_ranges, work_generation, workers_pending, work_failed, work_ios,
             stopping_workers>>
threads == <<wpc, observed, done, host_used, lane>>
device  == <<copies, host_copy_recorded, host_copy_done>>
history == <<failing, result>>
vars    == <<pc, request, mutexed, threads, device, history>>

Reads == 1..MaxReads

Init ==
    /\ pc = "starting"
    /\ read = 0 /\ share = [w \in Workers |-> 0]
    /\ active_ranges = 0 /\ work_generation = 0 /\ workers_pending = 0
    /\ work_failed = FALSE /\ work_ios = 0 /\ stopping_workers = FALSE
    /\ wpc = [w \in Workers |-> "init"]
    /\ observed = [w \in Workers |-> 0]
    /\ done = [w \in Workers |-> 0] /\ host_used = [w \in Workers |-> 0]
    /\ lane = [w \in Workers |-> <<0, 0>>]
    /\ copies = {} /\ host_copy_recorded = FALSE /\ host_copy_done = {}
    /\ failing = {} /\ result = [n \in Reads |-> "none"]

\* The ranges in the lanes of the workers ws, and how many the read has.
Due(ws) == {r \in ws \X (1..MaxRanges) : r[2] <= share[r[1]]}
Total   == Cardinality(Due(Workers))

-----------------------------------------------------------------------------
(* The caller.                                                             *)

\* start_workers: the constructor fails, after stopping the workers, when one of
\* them could not open its file or allocate its lane.
Started ==
    /\ pc = "starting" /\ \A w \in Workers : wpc[w] # "init"
    /\ IF \E w \in Workers : wpc[w] = "broken"
         THEN pc' = "join" /\ stopping_workers' = TRUE
         ELSE pc' = "idle" /\ UNCHANGED stopping_workers
    /\ UNCHANGED <<request, active_ranges, work_generation, workers_pending, work_failed,
                   work_ios, threads, device, history>>

\* read in mode sync_mt, with at least one range.
Begin ==
    /\ pc = "idle" /\ read < MaxReads
    /\ read' = read + 1
    /\ share' \in [Workers -> 0..MaxRanges]
    /\ \E w \in Workers : share'[w] > 0
    /\ pc' = "fence"
    /\ UNCHANGED <<mutexed, threads, device, history>>

\* The lanes are refilled only after the copies of the previous read.
Fence ==
    /\ pc = "fence"
    /\ host_copy_recorded => host_copy_done \cap copies = {}
    /\ pc' = "post"
    /\ UNCHANGED <<request, mutexed, threads, device, history>>

\* Mutant: the failure of the previous read is not cleared.
PostStale ==
    /\ pc = "post"
    /\ active_ranges' = read /\ work_generation' = work_generation + 1
    /\ workers_pending' = Cardinality(Workers)
    /\ work_ios' = 0
    /\ pc' = "await"
    /\ UNCHANGED <<request, work_failed, stopping_workers, threads, device, history>>
Post ==
    /\ pc = "post"
    /\ active_ranges' = read /\ work_generation' = work_generation + 1
    /\ workers_pending' = Cardinality(Workers)
    /\ work_failed' = FALSE /\ work_ios' = 0
    /\ pc' = "await"
    /\ UNCHANGED <<request, stopping_workers, threads, device, history>>

Ended(how) == pc' = "idle" /\ result' = [result EXCEPT ![read] = how]

\* The predicate of work_done_cv_.  Mutant: the first failure ends the wait.
AllDoneOrFailed == workers_pending = 0 \/ work_failed
AllDone == workers_pending = 0

Collect ==
    /\ pc = "await" /\ AllDone
    /\ active_ranges' = 0
    /\ IF work_failed \/ work_ios # Total
         THEN Ended("failed")
         ELSE pc' = "copy" /\ UNCHANGED result
    /\ UNCHANGED <<request, work_generation, workers_pending, work_failed, work_ios,
                   stopping_workers, threads, device, failing>>

\* The used prefix of every lane is copied on the stream of the caller, then
\* host_copy_done is recorded.
Prefixes == {<<read, w, host_used[w]>> : w \in {v \in Workers : host_used[v] > 0}}

Copy ==
    /\ pc = "copy"
    /\ copies' = copies \cup Prefixes
    /\ host_copy_recorded' = TRUE /\ host_copy_done' = Prefixes
    /\ Ended("ok")
    /\ UNCHANGED <<request, mutexed, threads, failing>>

\* Enqueueing fails after some of the copies; they finish before the error leaves.
\* Mutant: the error leaves at once.
CopyFailsLoose ==
    /\ pc = "copy"
    /\ \E some \in SUBSET Prefixes : copies' = copies \cup some
    /\ Ended("failed")
    /\ failing' = failing \cup {read}
    /\ UNCHANGED <<request, mutexed, threads, host_copy_recorded, host_copy_done>>
CopyFails ==
    /\ pc = "copy"
    /\ \E some \in SUBSET Prefixes : copies' = copies \cup some
    /\ pc' = "drain"
    /\ failing' = failing \cup {read}
    /\ UNCHANGED <<request, mutexed, threads, host_copy_recorded, host_copy_done, result>>

Drain ==
    /\ pc = "drain" /\ copies = {}
    /\ Ended("failed")
    /\ UNCHANGED <<request, mutexed, threads, device, failing>>

\* close: the queued copies, then the workers.
Close ==
    /\ pc = "idle"
    /\ pc' = "closing"
    /\ UNCHANGED <<request, mutexed, threads, device, history>>

StopWorkers ==
    /\ pc = "closing"
    /\ host_copy_recorded => host_copy_done \cap copies = {}
    /\ stopping_workers' = TRUE
    /\ pc' = "join"
    /\ UNCHANGED <<request, active_ranges, work_generation, workers_pending, work_failed,
                   work_ios, threads, device, history>>

Join ==
    /\ pc = "join" /\ \A w \in Workers : wpc[w] \in {"exited", "broken"}
    /\ pc' = "closed"
    /\ UNCHANGED <<request, mutexed, threads, device, history>>

Caller == Started \/ Fence \/ Post \/ Collect \/ Copy \/ Drain \/ StopWorkers \/ Join

-----------------------------------------------------------------------------
(* Worker w.                                                               *)

Goto(w, label) == wpc' = [wpc EXCEPT ![w] = label]

Initialize(w) ==
    /\ wpc[w] = "init"
    /\ Goto(w, "wait") \/ Goto(w, "broken")
    /\ UNCHANGED <<pc, request, mutexed, observed, done, host_used, lane, device, history>>

\* The worker leaves work_cv_ with a new generation, or to free its lane and end.
\* Mutant: it leaves the wait whenever work is published.
WakeAgain(w) ==
    /\ wpc[w] = "wait"
    /\ IF stopping_workers
         THEN Goto(w, "exited") /\ UNCHANGED observed
         ELSE /\ active_ranges # 0
              /\ observed' = [observed EXCEPT ![w] = work_generation]
              /\ Goto(w, "start")
    /\ UNCHANGED <<pc, request, mutexed, done, host_used, lane, device, history>>
Wake(w) ==
    /\ wpc[w] = "wait"
    /\ IF stopping_workers
         THEN Goto(w, "exited") /\ UNCHANGED observed
         ELSE /\ work_generation # observed[w]
              /\ observed' = [observed EXCEPT ![w] = work_generation]
              /\ Goto(w, "start")
    /\ UNCHANGED <<pc, request, mutexed, done, host_used, lane, device, history>>

Start(w) ==
    /\ wpc[w] = "start"
    /\ done' = [done EXCEPT ![w] = 0]
    /\ IF active_ranges = 0
         THEN /\ work_failed' = TRUE /\ Goto(w, "finish")
              /\ UNCHANGED host_used
         ELSE /\ host_used' = [host_used EXCEPT ![w] = 0] /\ Goto(w, "work")
              /\ UNCHANGED work_failed
    /\ UNCHANGED <<pc, request, active_ranges, work_generation, workers_pending, work_ios,
                   stopping_workers, observed, lane, device, history>>

\* One range of the lane is read, unless another worker has failed.
ReadRange(w) ==
    /\ wpc[w] = "work" /\ ~work_failed /\ done[w] < share[w]
    /\ done' = [done EXCEPT ![w] = @ + 1]
    /\ lane' = [lane EXCEPT ![w] = <<read, done[w] + 1>>]
    /\ UNCHANGED <<pc, request, mutexed, wpc, observed, host_used, device, history>>

\* pread fails or is short.  Mutant: the worker skips the range.
RangeSkipped(w) ==
    /\ wpc[w] = "work" /\ ~work_failed /\ done[w] < share[w]
    /\ failing' = failing \cup {read}
    /\ done' = [done EXCEPT ![w] = @ + 1]
    /\ UNCHANGED <<pc, request, mutexed, wpc, observed, host_used, lane, device, result>>
RangeFails(w) ==
    /\ wpc[w] = "work" /\ ~work_failed /\ done[w] < share[w]
    /\ work_failed' = TRUE
    /\ failing' = failing \cup {read}
    /\ host_used' = [host_used EXCEPT ![w] = done[w]]
    /\ Goto(w, "finish")
    /\ UNCHANGED <<pc, request, active_ranges, work_generation, workers_pending, work_ios,
                   stopping_workers, observed, done, lane, device, result>>

RangesOver(w) ==
    /\ wpc[w] = "work" /\ (work_failed \/ done[w] = share[w])
    /\ host_used' = [host_used EXCEPT ![w] = done[w]]
    /\ Goto(w, "finish")
    /\ UNCHANGED <<pc, request, mutexed, observed, done, lane, device, history>>

\* Mutant: a worker that saw a failure does not count itself.
FinishQuiet(w) ==
    /\ wpc[w] = "finish"
    /\ work_ios' = work_ios + done[w]
    /\ workers_pending' = IF work_failed THEN workers_pending ELSE workers_pending - 1
    /\ Goto(w, "wait")
    /\ UNCHANGED <<pc, request, active_ranges, work_generation, work_failed,
                   stopping_workers, observed, done, host_used, lane, device, history>>
Finish(w) ==
    /\ wpc[w] = "finish"
    /\ work_ios' = work_ios + done[w]
    /\ workers_pending' = workers_pending - 1
    /\ Goto(w, "wait")
    /\ UNCHANGED <<pc, request, active_ranges, work_generation, work_failed,
                   stopping_workers, observed, done, host_used, lane, device, history>>

Worker(w) ==
    \/ Initialize(w) \/ Wake(w) \/ Start(w) \/ ReadRange(w) \/ RangeFails(w)
    \/ RangesOver(w) \/ Finish(w)

\* The device executes a queued copy.
CopyDone ==
    /\ \E c \in copies : copies' = copies \ {c}
    /\ UNCHANGED <<pc, request, mutexed, threads, host_copy_recorded, host_copy_done,
                   history>>

Next ==
    \/ Caller \/ Begin \/ CopyFails \/ Close
    \/ \E w \in Workers : Worker(w)
    \/ CopyDone
    \/ pc = "closed" /\ UNCHANGED vars

\* A read that has begun goes on, workers are scheduled, the device copies; nobody
\* has to begin a read, to fail or to close.
Fairness ==
    /\ WF_vars(Caller)
    /\ \A w \in Workers : WF_vars(Worker(w))
    /\ WF_vars(CopyDone)

Spec == Init /\ [][Next]_vars /\ Fairness

-----------------------------------------------------------------------------
(* Properties.                                                             *)

Contents == (0..MaxReads) \X (0..MaxRanges)
Working  == {w \in Workers : wpc[w] \in {"start", "work", "finish"}}

\* Every variable has its type, and workers_pending counts the workers that have
\* not finished this generation, so the caller neither waits for a worker that will
\* not come nor leaves early.
TypeOK ==
    /\ pc \in {"starting", "idle", "fence", "post", "await", "copy", "drain", "closing",
               "join", "closed"}
    /\ read \in 0..MaxReads /\ share \in [Workers -> 0..MaxRanges]
    /\ active_ranges \in 0..MaxReads /\ work_generation \in 0..MaxReads
    /\ work_failed \in BOOLEAN /\ stopping_workers \in BOOLEAN
    /\ work_ios \in 0..(Cardinality(Workers) * MaxRanges)
    /\ wpc \in [Workers -> {"init", "broken", "wait", "start", "work", "finish", "exited"}]
    /\ observed \in [Workers -> 0..MaxReads]
    /\ done \in [Workers -> 0..MaxRanges] /\ host_used \in [Workers -> 0..MaxRanges]
    /\ lane \in [Workers -> Contents]
    /\ copies \subseteq (Reads \X Workers \X (1..MaxRanges))
    /\ host_copy_done \subseteq (Reads \X Workers \X (1..MaxRanges))
    /\ host_copy_recorded \in BOOLEAN
    /\ failing \subseteq Reads /\ result \in [Reads -> {"none", "ok", "failed"}]
    /\ workers_pending =
           Cardinality({w \in Workers : w \in Working \/ observed[w] # work_generation})

\* A worker uses the ranges of the caller (a pointer into its slot) and its lane
\* only while the call that published them waits.
WorkInsideCall ==
    \A w \in Working :
        pc = "await" /\ active_ranges = read /\ observed[w] = work_generation

\* The queued copies still find in their lane what they were queued for, and the
\* lane has not been freed.
LaneIntact ==
    \A c \in copies : lane[c[2]] = <<c[1], c[3]>> /\ wpc[c[2]] # "exited"

\* What is copied to the slot is exactly the read's own ranges, all of them: no
\* prefix of an earlier read and no lane that was not filled.
CopiesComplete ==
    pc = "copy" => Prefixes = {<<read, w, share[w]>> : w \in {v \in Workers : share[v] > 0}}
                   /\ \A p \in Prefixes : lane[p[2]] = <<p[1], p[3]>>

\* From the call that posts the ranges to the copies that empty the lanes.
LanesKept == WorkInsideCall /\ LaneIntact /\ CopiesComplete

\* A read fails exactly when one of its own ranges or copies failed: a failure is
\* neither swallowed nor charged to the next read.
ResultHonest ==
    \A n \in Reads :
        /\ result[n] = "ok" => n \notin failing
        /\ result[n] = "failed" => n \in failing

\* Every read that was posted ends, and stopping the workers ends.
ReadsEnd == pc \in {"fence", "await", "closing", "join"} ~> pc \in {"idle", "closed"}
=============================================================================
