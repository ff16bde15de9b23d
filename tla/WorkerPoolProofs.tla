----------------------------- MODULE WorkerPoolProofs -----------------------------
(***************************************************************************)
(* Proofs about the worker threads of the persistent reader, for every     *)
(* finite set of workers and any number of reads and ranges.               *)
(***************************************************************************)
EXTENDS WorkerPool, TLAPS, FiniteSetTheorems

-----------------------------------------------------------------------------
(* The inductive invariant.                                                *)

\* The workers that have still to count themselves for this generation.
Late == {w \in Workers : w \in Working \/ observed[w] # work_generation}

Types ==
    /\ pc \in {"starting", "idle", "fence", "post", "await", "copy", "drain", "closing",
               "join", "closed"}
    /\ read \in 0..MaxReads /\ share \in [Workers -> 0..MaxRanges]
    /\ active_ranges \in 0..MaxReads /\ work_generation \in 0..MaxReads
    /\ work_failed \in BOOLEAN /\ stopping_workers \in BOOLEAN
    /\ wpc \in [Workers -> {"init", "broken", "wait", "start", "work", "finish", "exited"}]
    /\ observed \in [Workers -> 0..MaxReads]
    /\ done \in [Workers -> 0..MaxRanges] /\ host_used \in [Workers -> 0..MaxRanges]
    /\ lane \in [Workers -> Contents]
    /\ copies \subseteq (Reads \X Workers \X (1..MaxRanges))
    /\ host_copy_done \subseteq (Reads \X Workers \X (1..MaxRanges))
    /\ host_copy_recorded \in BOOLEAN
    /\ failing \subseteq Reads /\ result \in [Reads -> {"none", "ok", "failed"}]

\* One generation per read, published by Post; no worker is ahead of it.
Generation ==
    /\ pc \in {"fence", "post", "await", "copy", "drain"} => read > 0
    /\ work_generation = IF pc \in {"fence", "post"} THEN read - 1 ELSE read
    /\ \A w \in Workers : observed[w] <= work_generation

\* workers_pending and work_ios count the workers that are through.
Count ==
    /\ workers_pending = Cardinality(Late)
    /\ work_ios \in Nat
    /\ work_ios <= (Cardinality(Workers) - workers_pending) * MaxRanges

\* A worker has something to do only while the call that posted it waits.
Published ==
    /\ Late # {} => pc = "await" /\ active_ranges = read
    /\ \A w \in Working : observed[w] = work_generation

\* Workers end only when they are stopped, and then no copy is queued.
Stopped ==
    /\ stopping_workers => pc \in {"join", "closed"}
    /\ \A w \in Workers : wpc[w] = "exited" => stopping_workers

\* The event stands behind every queued copy, except while an error drains
\* them; lanes are filled and freed when there are none.
Covered ==
    /\ pc # "drain" => copies \subseteq host_copy_done
                       /\ (copies # {} => host_copy_recorded)
    /\ pc \in {"starting", "post", "await", "copy", "join", "closed"} => copies = {}

\* A lane holds what its worker has read for this generation, all of it once the
\* worker is through without a failure.
Filled ==
    /\ \A w \in Workers : wpc[w] = "work" =>
          /\ done[w] <= share[w]
          /\ done[w] > 0 => lane[w] = <<read, done[w]>>
    /\ pc \in {"await", "copy"} /\ ~work_failed =>
          \A w \in Workers : w \notin Late \/ wpc[w] = "finish" =>
             /\ host_used[w] = share[w]
             /\ share[w] > 0 => lane[w] = <<read, share[w]>>
    /\ pc = "copy" => ~work_failed

IInv ==
    /\ Types /\ Generation /\ Count /\ Published /\ Stopped /\ Covered /\ Filled
    /\ LaneIntact

-----------------------------------------------------------------------------
(* Counting.                                                               *)

\* The sets that are counted are finite.
LEMMA Finite ==
    /\ IsFiniteSet(Late) /\ Cardinality(Late) \in Nat
    /\ Cardinality(Late) <= Cardinality(Workers)
    /\ Cardinality(Workers) \in Nat
    /\ Cardinality(Late) = 0 => Late = {}
<1>1. Late \subseteq Workers
  BY DEF Late
<1> QED
  BY <1>1, WorkerAssumption, FS_Subset, FS_CardinalityType, FS_EmptySet

\* A worker that counts itself leaves the set and no other does.
LEMMA OneLess ==
    ASSUME NEW w \in Late, Late' = Late \ {w}
    PROVE  Cardinality(Late') = Cardinality(Late) - 1
<1> QED
  BY Finite, FS_RemoveElement

LEMMA Initially == Init => IInv
<1> SUFFICES ASSUME Init PROVE IInv
  OBVIOUS
<1> USE BoundAssumption, WorkerAssumption DEF Init
<1>1. Late = {}
  BY DEF Late, Working
<1>2. Count
  BY <1>1, Finite, FS_EmptySet DEF Count
<1>3. Types
  <2>1. lane \in [Workers -> Contents]
    <3>1. <<0, 0>> \in Contents
      BY DEF Contents
    <3> QED
      BY <3>1
  <2>2. result \in [Reads -> {"none", "ok", "failed"}]
    OBVIOUS
  <2>3. /\ share \in [Workers -> 0..MaxRanges] /\ done \in [Workers -> 0..MaxRanges]
        /\ host_used \in [Workers -> 0..MaxRanges] /\ observed \in [Workers -> 0..MaxReads]
    OBVIOUS
  <2> QED
    BY <2>1, <2>2, <2>3 DEF Types
<1>4. Working = {}
  BY DEF Working
<1>5. Generation /\ Published /\ Stopped
  BY <1>1, <1>4 DEF Generation, Published, Stopped
<1>6. Covered /\ LaneIntact
  BY DEF Covered, LaneIntact
<1>7. Filled
  BY DEF Filled
<1> QED
  BY <1>2, <1>3, <1>5, <1>6, <1>7 DEF IInv

-----------------------------------------------------------------------------
(* The caller.                                                             *)

\* The prefixes that are copied have the type of copies.
LEMMA PrefixType ==
    ASSUME Types, read > 0
    PROVE  Prefixes \subseteq (Reads \X Workers \X (1..MaxRanges))
BY BoundAssumption DEF Types, Prefixes, Reads

\* When all workers are through without failure, the prefixes are the ranges of
\* the read, and the lanes hold them.
LEMMA Complete ==
    ASSUME IInv, pc = "copy"
    PROVE  /\ Prefixes = {<<read, w, share[w]>> : w \in {v \in Workers : share[v] > 0}}
           /\ \A p \in Prefixes : lane[p[2]] = <<p[1], p[3]>>
<1>1. Late = {} /\ ~work_failed
  BY DEF IInv, Published, Filled
<1>2. \A w \in Workers : host_used[w] = share[w]
                         /\ (share[w] > 0 => lane[w] = <<read, share[w]>>)
  BY <1>1 DEF IInv, Filled
<1> QED
  BY <1>2 DEF Prefixes

\* Steps of the caller that leave workers, lanes and copies as they are and
\* neither publish nor retire a generation.
LEMMA CallerMoves ==
    ASSUME IInv, UNCHANGED <<mutexed, threads, device>>
    PROVE  Count' /\ UNCHANGED Late
BY DEF IInv, Count, Late, Working, mutexed, threads

LEMMA CallerKeeps ==
    ASSUME IInv,
           Started \/ Begin \/ Fence \/ Post \/ Collect \/ Copy \/ CopyFails \/ Drain
             \/ Close \/ StopWorkers \/ Join
    PROVE  IInv'
<1> USE BoundAssumption DEF IInv
<1> USE DEF request, mutexed, threads, device, history
<1>1. CASE Started
  <2>1. UNCHANGED Late
    BY <1>1 DEF Started, Late, Working
  <2> QED
    BY <1>1, <2>1 DEF Started, Types, Generation, Count, Published, Stopped, Covered, Filled,
       LaneIntact, Working, Contents, Reads
<1>2. CASE Begin
  <2>1. UNCHANGED Late
    BY <1>2 DEF Begin, Late, Working
  <2>2. Late = {} /\ Working = {}
    BY <1>2 DEF Begin, Published, Late, Working
  <2>3. \A v \in Workers : wpc[v] # "work"
    BY <2>2 DEF Working
  <2>4. Types'
    BY <1>2 DEF Begin, Types
  <2>5. Generation' /\ Count' /\ Stopped' /\ Covered' /\ LaneIntact'
    BY <1>2, <2>1 DEF Begin, Types, Generation, Count, Stopped, Covered, LaneIntact
  <2>6. Published'
    BY <1>2, <2>1, <2>2 DEF Begin, Published, Working
  <2>7. Filled'
    BY <1>2, <2>3 DEF Begin, Filled
  <2> QED
    BY <2>4, <2>5, <2>6, <2>7
<1>3. CASE Fence
  <2>1. UNCHANGED Late
    BY <1>3 DEF Fence, Late, Working
  <2> QED
    BY <1>3, <2>1 DEF Fence, Types, Generation, Count, Published, Stopped, Covered, Filled,
       LaneIntact, Working, Contents, Reads
<1>4. CASE Post
  <2>1. Late = {} /\ Working = {}
    BY <1>4 DEF Post, Published, Late, Working
  <2>2. work_generation' = read /\ work_generation = read - 1
    BY <1>4 DEF Post, Generation, Types
  <2>3. Late' = Workers
    BY <1>4, <2>2 DEF Post, Late, Generation, Types
  <2>4. Count'
    BY <1>4, <2>3, Finite DEF Post, Count
  <2>5. Working' = {}
    BY <1>4, <2>1 DEF Post, Working
  <2>6. \A v \in Workers : wpc[v] # "work" /\ wpc[v] # "finish"
    BY <2>1 DEF Working
  <2>7. Types' /\ Generation'
    <3>1. read \in 0..MaxReads /\ read > 0
      BY <1>4 DEF Post, Types, Generation
    <3>2. Types'
      BY <1>4, <2>2, <3>1 DEF Post, Types, Contents, Reads
    <3>3. \A w \in Workers : observed'[w] <= work_generation'
      BY <1>4, <2>2, <3>1 DEF Post, Types, Generation
    <3> QED
      BY <1>4, <2>2, <3>1, <3>2, <3>3 DEF Post, Generation
  <2>8. Published' /\ Stopped'
    BY <1>4, <2>2, <2>5 DEF Post, Published, Stopped
  <2>9. Covered' /\ LaneIntact'
    BY <1>4 DEF Post, Covered, LaneIntact
  <2>10. Filled'
    BY <1>4, <2>3, <2>6 DEF Post, Filled
  <2> QED
    BY <2>4, <2>7, <2>8, <2>9, <2>10
<1>5. CASE Collect
  <2>1. Late = {}
    BY <1>5, Finite DEF Collect, AllDone, Count
  <2>2. UNCHANGED Late
    BY <1>5 DEF Collect, Late, Working
  <2>3. Count'
    BY <1>5, <2>2 DEF Collect, Count
  <2>4. result' \in [Reads -> {"none", "ok", "failed"}] /\ pc' \in {"idle", "copy"}
    BY <1>5 DEF Collect, Ended, Types
  <2>5. Working = {} /\ Working' = {}
    BY <1>5, <2>1 DEF Collect, Late, Working
  <2>6. Types' /\ Generation' /\ Published' /\ Stopped' /\ Covered' /\ LaneIntact'
    <3>1. Types'
      <4>1. /\ active_ranges' = 0 /\ 0 \in 0..MaxReads
            /\ UNCHANGED <<request, work_generation, work_failed, stopping_workers, threads,
                           device, failing>>
        BY <1>5 DEF Collect
      <4>2. Types
        OBVIOUS
      <4> HIDE DEF IInv
      <4> QED
        BY <2>4, <4>1, <4>2 DEF Types, Contents, Reads
    <3>2. Generation'
      BY <1>5, <2>4 DEF Collect, Generation
    <3>3. Published'
      BY <2>1, <2>2, <2>5 DEF Published
    <3>4. Stopped' /\ Covered'
      BY <1>5, <2>4 DEF Collect, Stopped, Covered
    <3>5. LaneIntact'
      BY <1>5 DEF Collect, LaneIntact
    <3> QED
      BY <3>1, <3>2, <3>3, <3>4, <3>5
  <2>7. Filled'
    BY <1>5, <2>1, <2>2, <2>5 DEF Collect, Ended, Filled, Working
  <2> QED
    BY <2>3, <2>6, <2>7
<1>6. CASE Copy
  <2>1. UNCHANGED Late /\ Late = {} /\ Working = {} /\ Working' = {}
    BY <1>6 DEF Copy, Ended, Late, Working, Published
  <2>2. /\ copies = {} /\ copies' = Prefixes /\ host_copy_done' = Prefixes
        /\ Prefixes \subseteq (Reads \X Workers \X (1..MaxRanges))
    BY <1>6, PrefixType DEF Copy, Covered, Generation
  <2>3. LaneIntact'
    BY <1>6, <2>2, Complete DEF Copy, LaneIntact, Stopped, Ended, Types
  <2>4. result' \in [Reads -> {"none", "ok", "failed"}] /\ pc' = "idle"
    BY <1>6 DEF Copy, Ended, Types
  <2>5. Types' /\ Generation' /\ Count'
    BY <1>6, <2>1, <2>2, <2>4 DEF Copy, Types, Generation, Count, Contents, Reads
  <2> QED
    BY <1>6, <2>1, <2>2, <2>3, <2>4, <2>5 DEF Copy, Published, Stopped, Covered, Filled, Working
<1>7. CASE CopyFails
  <2>1. UNCHANGED Late /\ Late = {} /\ Working = {} /\ Working' = {}
    BY <1>7 DEF CopyFails, Late, Working, Published
  <2>2. /\ copies = {} /\ copies' \subseteq Prefixes
        /\ Prefixes \subseteq (Reads \X Workers \X (1..MaxRanges))
    BY <1>7, PrefixType DEF CopyFails, Covered, Generation
  <2>3. LaneIntact'
    BY <1>7, <2>2, Complete DEF CopyFails, LaneIntact, Stopped, Types
  <2>4. Types' /\ Generation' /\ Count'
    <3>1. copies' \subseteq (Reads \X Workers \X (1..MaxRanges))
      BY <2>2
    <3>2. failing' \subseteq Reads
      BY <1>7 DEF CopyFails, Types, Generation, Reads
    <3>3. Types'
      BY <1>7, <3>1, <3>2 DEF CopyFails, Types, Contents, Reads
    <3>4. Generation' /\ Count'
      BY <1>7, <2>1 DEF CopyFails, Generation, Count
    <3> QED
      BY <3>3, <3>4
  <2> QED
    BY <1>7, <2>1, <2>2, <2>3, <2>4 DEF CopyFails, Published, Stopped, Covered, Filled, Working
<1>8. CASE Drain
  <2>1. UNCHANGED Late /\ Working' = Working
    BY <1>8 DEF Drain, Late, Working
  <2>2. result' \in [Reads -> {"none", "ok", "failed"}] /\ pc' = "idle"
    BY <1>8 DEF Drain, Ended, Types
  <2> QED
    BY <1>8, <2>1, <2>2 DEF Drain, Types, Generation, Count, Published, Stopped, Covered, Filled,
       LaneIntact, Working, Contents, Reads
<1>9. CASE Close
  <2>1. UNCHANGED Late
    BY <1>9 DEF Close, Late, Working
  <2> QED
    BY <1>9, <2>1 DEF Close, Types, Generation, Count, Published, Stopped, Covered, Filled,
       LaneIntact, Working, Contents, Reads
<1>10. CASE StopWorkers
  <2>1. UNCHANGED Late
    BY <1>10 DEF StopWorkers, Late, Working
  <2> QED
    BY <1>10, <2>1 DEF StopWorkers, Types, Generation, Count, Published, Stopped, Covered,
       Filled, LaneIntact, Working, Contents, Reads
<1>11. CASE Join
  <2>1. UNCHANGED Late
    BY <1>11 DEF Join, Late, Working
  <2> QED
    BY <1>11, <2>1 DEF Join, Types, Generation, Count, Published, Stopped, Covered, Filled,
       LaneIntact, Working, Contents, Reads
<1> QED
  BY <1>1, <1>2, <1>3, <1>4, <1>5, <1>6, <1>7, <1>8, <1>9, <1>10, <1>11

-----------------------------------------------------------------------------
(* A worker.                                                               *)

LEMMA WorkerKeeps ==
    ASSUME IInv, NEW w \in Workers, Worker(w)
    PROVE  IInv'
<1> USE BoundAssumption DEF IInv
<1> USE DEF request, mutexed, threads, device, history
<1>1. CASE Initialize(w)
  <2>1. /\ UNCHANGED Late /\ Working' = Working
        /\ wpc' \in [Workers -> {"init", "broken", "wait", "start", "work", "finish", "exited"}]
        /\ \A v \in Workers : wpc'[v] = wpc[v] \/ wpc'[v] \in {"wait", "broken"}
    BY <1>1 DEF Initialize, Goto, Late, Working, Types
  <2>2. Types' /\ Generation' /\ Count' /\ Published'
    BY <1>1, <2>1 DEF Initialize, Types, Generation, Count, Published, Contents, Reads
  <2>3. Stopped' /\ Covered' /\ LaneIntact'
    BY <1>1, <2>1 DEF Initialize, Types, Stopped, Covered, LaneIntact
  <2>4. Filled'
    BY <1>1, <2>1 DEF Initialize, Filled
  <2> QED
    BY <2>2, <2>3, <2>4
<1>2. CASE Wake(w)
  <2>1. CASE stopping_workers
    <3>1. /\ wpc' = [wpc EXCEPT ![w] = "exited"] /\ wpc[w] = "wait"
          /\ UNCHANGED observed /\ copies = {}
      BY <1>2, <2>1 DEF Wake, Goto, Stopped, Covered
    <3>2. /\ UNCHANGED Late /\ Working' = Working
          /\ wpc' \in [Workers -> {"init", "broken", "wait", "start", "work", "finish", "exited"}]
          /\ \A v \in Workers : wpc'[v] = wpc[v] \/ wpc'[v] = "exited"
      BY <1>2, <3>1 DEF Wake, Late, Working, Types
    <3> QED
      BY <1>2, <2>1, <3>1, <3>2 DEF Wake, Types, Generation, Count, Published, Stopped, Covered,
         Filled, LaneIntact, Contents, Reads
  <2>2. CASE ~stopping_workers
    <3>1. /\ wpc' = [wpc EXCEPT ![w] = "start"] /\ wpc[w] = "wait"
          /\ observed' = [observed EXCEPT ![w] = work_generation]
          /\ observed[w] # work_generation
      BY <1>2, <2>2 DEF Wake, Goto
    <3>2. w \in Late /\ pc = "await" /\ active_ranges = read
      BY <3>1 DEF Late, Published
    <3>3. /\ UNCHANGED Late /\ Working' = Working \cup {w}
          /\ wpc' \in [Workers -> {"init", "broken", "wait", "start", "work", "finish", "exited"}]
          /\ observed' \in [Workers -> 0..MaxReads]
          /\ \A v \in Workers : v = w \/ (wpc'[v] = wpc[v] /\ observed'[v] = observed[v])
          /\ wpc'[w] = "start" /\ observed'[w] = work_generation
      BY <1>2, <3>1, <3>2 DEF Wake, Late, Working, Types
    <3>4. Types'
      BY <1>2, <3>3 DEF Wake, Types, Contents, Reads
    <3>5. Generation' /\ Count'
      BY <1>2, <3>3 DEF Wake, Types, Generation, Count
    <3>6. Published'
      BY <1>2, <3>2, <3>3 DEF Wake, Published, Working
    <3>7. Stopped' /\ Covered' /\ LaneIntact'
      BY <1>2, <3>2, <3>3 DEF Wake, Types, Stopped, Covered, LaneIntact
    <3>8. Filled'
      BY <1>2, <3>1, <3>2, <3>3 DEF Wake, Filled
    <3> QED
      BY <3>4, <3>5, <3>6, <3>7, <3>8
  <2> QED
    BY <2>1, <2>2
<1>3. CASE Start(w)
  <2>1. w \in Working /\ w \in Late /\ pc = "await" /\ active_ranges = read /\ read > 0
    BY <1>3 DEF Start, Working, Late, Published, Generation
  <2>2. /\ wpc' = [wpc EXCEPT ![w] = "work"] /\ done' = [done EXCEPT ![w] = 0]
        /\ host_used' = [host_used EXCEPT ![w] = 0] /\ UNCHANGED work_failed
    BY <1>3, <2>1 DEF Start, Goto, Types
  <2>3. /\ UNCHANGED Late /\ Working' = Working
        /\ wpc' \in [Workers -> {"init", "broken", "wait", "start", "work", "finish", "exited"}]
        /\ \A v \in Workers : v = w \/ (wpc'[v] = wpc[v] /\ done'[v] = done[v]
                                        /\ host_used'[v] = host_used[v])
        /\ wpc'[w] = "work" /\ done'[w] = 0
    BY <1>3, <2>1, <2>2 DEF Start, Late, Working, Types
  <2>4. done' \in [Workers -> 0..MaxRanges] /\ host_used' \in [Workers -> 0..MaxRanges]
    BY <2>2 DEF Types
  <2>5. Types' /\ Generation' /\ Count' /\ Published' /\ Stopped' /\ Covered' /\ LaneIntact'
    BY <1>3, <2>1, <2>2, <2>3, <2>4 DEF Start, Types, Generation, Count, Published, Stopped,
       Covered, LaneIntact, Contents, Reads
  <2>6. Filled'
    BY <1>3, <2>1, <2>2, <2>3 DEF Start, Filled, Types
  <2> QED
    BY <2>5, <2>6
<1>4. CASE ReadRange(w)
  <2>1. w \in Working /\ w \in Late /\ pc = "await" /\ read > 0 /\ copies = {}
    BY <1>4 DEF ReadRange, Working, Late, Published, Generation, Covered
  <2>2. /\ done[w] \in 0..MaxRanges /\ share[w] \in 0..MaxRanges /\ done[w] < share[w]
        /\ <<read, done[w] + 1>> \in Contents
    BY <1>4 DEF ReadRange, Types, Contents
  <2>3. /\ UNCHANGED Late /\ Working' = Working
        /\ done' \in [Workers -> 0..MaxRanges] /\ lane' \in [Workers -> Contents]
        /\ \A v \in Workers : v = w \/ (done'[v] = done[v] /\ lane'[v] = lane[v])
        /\ done'[w] = done[w] + 1 /\ lane'[w] = <<read, done[w] + 1>>
    BY <1>4, <2>2 DEF ReadRange, Late, Working, Types
  <2>4. Types' /\ Generation' /\ Count' /\ Published' /\ Stopped' /\ Covered' /\ LaneIntact'
    BY <1>4, <2>1, <2>3 DEF ReadRange, Types, Generation, Count, Published, Stopped,
       Covered, LaneIntact, Reads
  <2>5. Filled'
    BY <1>4, <2>1, <2>2, <2>3 DEF ReadRange, Filled, Types
  <2> QED
    BY <2>4, <2>5
<1>5. CASE RangeFails(w) \/ RangesOver(w)
  <2>1. w \in Working /\ w \in Late /\ pc = "await" /\ read > 0 /\ wpc[w] = "work"
    BY <1>5 DEF RangeFails, RangesOver, Working, Late, Published, Generation
  <2>2. /\ wpc' = [wpc EXCEPT ![w] = "finish"]
        /\ host_used' = [host_used EXCEPT ![w] = done[w]]
        /\ failing' \in {failing, failing \cup {read}} /\ work_failed' \in BOOLEAN
        /\ work_failed => work_failed'
        /\ work_failed' \/ done[w] = share[w]
        /\ UNCHANGED <<pc, request, active_ranges, work_generation, workers_pending, work_ios,
                       stopping_workers, observed, done, lane, device, result>>
    BY <1>5 DEF RangeFails, RangesOver, Goto, Types
  <2>3. /\ UNCHANGED Late /\ Working' = Working
        /\ wpc' \in [Workers -> {"init", "broken", "wait", "start", "work", "finish", "exited"}]
        /\ host_used' \in [Workers -> 0..MaxRanges]
        /\ \A v \in Workers : v = w \/ (wpc'[v] = wpc[v] /\ host_used'[v] = host_used[v])
        /\ wpc'[w] = "finish" /\ host_used'[w] = done[w]
    BY <2>1, <2>2 DEF Late, Working, Types
  <2>4. failing' \subseteq Reads
    BY <2>1, <2>2 DEF Types, Reads
  <2>5. Types' /\ Generation' /\ Count'
    BY <2>1, <2>2, <2>3, <2>4 DEF Types, Generation, Count, Contents, Reads
  <2>6. Published' /\ Stopped' /\ Covered' /\ LaneIntact'
    BY <2>1, <2>2, <2>3 DEF Types, Published, Stopped, Covered, LaneIntact
  <2>7. Filled'
    BY <2>1, <2>2, <2>3 DEF Filled, Types
  <2> QED
    BY <2>5, <2>6, <2>7
<1>6. CASE Finish(w)
  <2>1. w \in Working /\ w \in Late /\ pc = "await" /\ read > 0 /\ wpc[w] = "finish"
        /\ observed[w] = work_generation
    BY <1>6 DEF Finish, Working, Late, Published, Generation
  <2>2. /\ Late' = Late \ {w} /\ Working' = Working \ {w}
        /\ wpc' \in [Workers -> {"init", "broken", "wait", "start", "work", "finish", "exited"}]
        /\ \A v \in Workers : v = w \/ wpc'[v] = wpc[v]
        /\ wpc'[w] = "wait"
    BY <1>6, <2>1 DEF Finish, Goto, Late, Working, Types
  <2>3. Count'
    <3>1. workers_pending' = Cardinality(Late')
      BY <1>6, <2>1, <2>2, OneLess DEF Finish, Count
    <3>2. /\ work_ios' = work_ios + done[w] /\ workers_pending' = workers_pending - 1
          /\ done[w] \in 0..MaxRanges /\ MaxRanges \in Nat
          /\ workers_pending \in Nat /\ Cardinality(Workers) \in Nat
      BY <1>6, Finite DEF Finish, Types, Count
    <3>3. (Cardinality(Workers) - (workers_pending - 1)) * MaxRanges
            = (Cardinality(Workers) - workers_pending) * MaxRanges + MaxRanges
      BY <3>2
    <3>4. (Cardinality(Workers) - workers_pending) * MaxRanges \in Int
      BY <3>2
    <3> QED
      BY <3>1, <3>2, <3>3, <3>4 DEF Count
  <2>4. Types' /\ Generation' /\ Published' /\ Stopped' /\ Covered' /\ LaneIntact'
    BY <1>6, <2>1, <2>2 DEF Finish, Types, Generation, Published, Stopped, Covered,
       LaneIntact, Contents, Reads
  <2>5. Filled'
    BY <1>6, <2>1, <2>2 DEF Finish, Filled
  <2> QED
    BY <2>3, <2>4, <2>5
<1> QED
  BY <1>1, <1>2, <1>3, <1>4, <1>5, <1>6 DEF Worker

LEMMA DeviceKeeps == IInv /\ CopyDone => IInv'
<1> SUFFICES ASSUME IInv, CopyDone PROVE IInv'
  OBVIOUS
<1> USE DEF IInv, request, mutexed, threads, device, history
<1>1. copies' \subseteq copies /\ UNCHANGED Late /\ Working' = Working
  BY DEF CopyDone, Late, Working
<1> QED
  BY <1>1 DEF CopyDone, Types, Generation, Count, Published, Stopped, Covered, Filled,
     LaneIntact, Contents, Reads

LEMMA StepKeeps == IInv /\ [Next]_vars => IInv'
<1> SUFFICES ASSUME IInv, [Next]_vars PROVE IInv'
  OBVIOUS
<1>1. CASE UNCHANGED vars
  <2>1. UNCHANGED Late /\ Working' = Working
    BY <1>1 DEF vars, Late, Working, mutexed, threads
  <2> QED
    BY <1>1, <2>1 DEF vars, request, mutexed, threads, device, history, IInv, Types, Generation,
       Count, Published, Stopped, Covered, Filled, LaneIntact, Contents, Reads
<1> QED
  BY <1>1, CallerKeeps, WorkerKeeps, DeviceKeeps DEF Next, Caller

LEMMA Invariance == Spec => []IInv
<1> QED
  BY Initially, StepKeeps, PTL DEF Spec

-----------------------------------------------------------------------------
(* The properties.                                                         *)

\* Every variable has its type, and workers_pending counts the workers that are
\* not through: the caller of sync_mt_read waits for nobody who will not come.
THEOREM TypeCorrect == Spec => []TypeOK
<1>1. IInv => TypeOK
  <2> SUFFICES ASSUME IInv PROVE TypeOK
    OBVIOUS
  <2>1. work_ios \in 0..(Cardinality(Workers) * MaxRanges)
    <3>1. /\ work_ios \in Nat /\ workers_pending \in Nat /\ Cardinality(Workers) \in Nat
          /\ work_ios <= (Cardinality(Workers) - workers_pending) * MaxRanges
          /\ MaxRanges \in Nat
      BY Finite, BoundAssumption DEF IInv, Count
    <3>2. (Cardinality(Workers) - workers_pending) * MaxRanges
            = Cardinality(Workers) * MaxRanges - workers_pending * MaxRanges
      BY <3>1
    <3>3. workers_pending * MaxRanges \in Nat /\ Cardinality(Workers) * MaxRanges \in Nat
      BY <3>1
    <3> QED
      BY <3>1, <3>2, <3>3
  <2> QED
    BY <2>1 DEF IInv, Types, Count, TypeOK, Late
<1> QED
  BY <1>1, Invariance, PTL

\* No worker works outside the call that posted it, no lane is refilled or freed
\* under a queued copy, and what is copied is the whole of the read
\* (sync_mt_read, read, stop_workers).
THEOREM LanesAreKept == Spec => []LanesKept
<1>1. IInv => LanesKept
  <2> SUFFICES ASSUME IInv PROVE LanesKept
    OBVIOUS
  <2>1. WorkInsideCall
    BY DEF IInv, Published, WorkInsideCall, Late, Working
  <2>2. CopiesComplete
    BY Complete DEF CopiesComplete
  <2> QED
    BY <2>1, <2>2 DEF LanesKept, IInv
<1> QED
  BY <1>1, Invariance, PTL
-----------------------------------------------------------------------------
(* How reads end.                                                          *)

\* The reads in failing are reads of this behaviour, and the current one is among
\* them exactly when the caller has been told or is about to be; a read has no
\* result before it ends.
Failures ==
    /\ failing \subseteq 1..read
    /\ pc \in {"fence", "post"} => read \notin failing
    /\ pc \in {"await", "copy"} => (read \in failing <=> work_failed)
    /\ pc = "drain" => read \in failing
    /\ \A n \in Reads :
          n > read \/ (n = read /\ pc \in {"fence", "post", "await", "copy", "drain"})
             => result[n] = "none"

\* As long as nothing failed, work_ios counts the ranges of the workers that are
\* through, so that the caller finds its total.
Counted ==
    pc = "await" /\ ~work_failed =>
        /\ work_ios = Cardinality(Due(Workers \ Late))
        /\ \A w \in Workers : wpc[w] = "finish" => done[w] = share[w]

HInv == IInv /\ Failures /\ Counted /\ ResultHonest

LEMMA DueGrows ==
    ASSUME Types, NEW ws \in SUBSET Workers, NEW w \in Workers \ ws
    PROVE  /\ IsFiniteSet(Due(ws)) /\ Cardinality(Due(ws)) \in Nat
           /\ Cardinality(Due(ws \cup {w})) = Cardinality(Due(ws)) + share[w]
<1>1. /\ share[w] \in 0..MaxRanges /\ MaxRanges \in Nat
  BY BoundAssumption DEF Types
<1>2. IsFiniteSet(1..MaxRanges) /\ IsFiniteSet(ws) /\ IsFiniteSet(1..share[w])
      /\ Cardinality(1..share[w]) = share[w]
  <2>1. IsFiniteSet(ws)
    BY WorkerAssumption, FS_Subset
  <2>2. 1 \in Int /\ MaxRanges \in Int /\ share[w] \in Int
    BY <1>1
  <2>3. IsFiniteSet(1..MaxRanges)
    BY <2>2, FS_Interval
  <2>4. IsFiniteSet(1..share[w])
        /\ Cardinality(1..share[w]) = IF 1 > share[w] THEN 0 ELSE share[w] - 1 + 1
    BY <2>2, FS_Interval
  <2>5. (IF 1 > share[w] THEN 0 ELSE share[w] - 1 + 1) = share[w]
    BY <1>1
  <2> QED
    BY <2>1, <2>3, <2>4, <2>5
<1>3. IsFiniteSet(Due(ws)) /\ Cardinality(Due(ws)) \in Nat
  <2>1. IsFiniteSet(ws \X (1..MaxRanges))
    BY <1>2, FS_Product
  <2>2. Due(ws) \subseteq ws \X (1..MaxRanges)
    BY DEF Due
  <2> QED
    BY <2>1, <2>2, FS_Subset, FS_CardinalityType
<1>4. IsFiniteSet({w} \X (1..share[w])) /\ Cardinality({w} \X (1..share[w])) = share[w]
  <2>1. IsFiniteSet({w}) /\ Cardinality({w}) = 1
    BY FS_Singleton
  <2>2. /\ IsFiniteSet({w} \X (1..share[w]))
        /\ Cardinality({w} \X (1..share[w])) = Cardinality({w}) * Cardinality(1..share[w])
    BY <1>2, <2>1, FS_Product
  <2> QED
    BY <1>1, <1>2, <2>1, <2>2
<1>5. Due(ws \cup {w}) = Due(ws) \cup ({w} \X (1..share[w]))
  BY <1>1 DEF Due
<1>6. Due(ws) \cap ({w} \X (1..share[w])) = {}
  BY DEF Due
<1>7. Cardinality(Due(ws) \cup ({w} \X (1..share[w])))
        = Cardinality(Due(ws)) + share[w] - Cardinality({})
  BY <1>3, <1>4, <1>6, FS_Union
<1>8. Cardinality({}) = 0
  BY FS_EmptySet
<1>9. Cardinality(Due(ws \cup {w})) = Cardinality(Due(ws)) + share[w] - 0
  BY <1>5, <1>7, <1>8, Zenon
<1> HIDE DEF Due
<1> QED
  BY <1>1, <1>3, <1>9

LEMMA InitiallyHonest == Init => HInv
<1> SUFFICES ASSUME Init PROVE HInv
  OBVIOUS
<1> QED
  BY Initially DEF Init, HInv, Failures, Counted, ResultHonest

LEMMA HonestCaller ==
    ASSUME HInv, Caller \/ Begin \/ CopyFails \/ Close
    PROVE  Failures' /\ Counted' /\ ResultHonest'
<1> USE DEF HInv, request, mutexed, threads, device, history
<1>0. Types /\ Generation /\ read \in Nat
  BY BoundAssumption DEF IInv, Types
<1>1. CASE Started \/ Fence \/ StopWorkers \/ Join \/ Close
  <2>1. UNCHANGED <<request, history>>
    BY <1>1 DEF Started, Fence, StopWorkers, Join, Close
  <2>2. /\ pc \notin {"await", "copy", "drain"} /\ pc' \notin {"await", "copy", "drain"}
        /\ pc' \in {"fence", "post"} => pc \in {"fence", "post"}
    BY <1>1 DEF Started, Fence, StopWorkers, Join, Close
  <2> QED
    BY <2>1, <2>2 DEF Failures, Counted, ResultHonest
<1>2. CASE Begin
  <2>1. read' = read + 1 /\ pc' = "fence" /\ pc = "idle" /\ UNCHANGED history
    BY <1>2 DEF Begin
  <2>2. read' \notin failing /\ failing \subseteq 1..read'
    BY <1>0, <2>1 DEF Failures
  <2>3. \A n \in Reads : n >= read' => result[n] = "none"
    BY <1>0, <2>1 DEF Failures, Reads
  <2> QED
    BY <1>0, <2>1, <2>2, <2>3 DEF Failures, Counted, ResultHonest, Reads
<1>3. CASE Post
  <2>1. /\ pc = "post" /\ pc' = "await" /\ work_failed' = FALSE /\ work_ios' = 0
        /\ UNCHANGED <<request, threads, history>>
    BY <1>3 DEF Post
  <2>2. Late' = Workers /\ \A w \in Workers : wpc[w] # "finish"
    <3>1. Late = {} /\ work_generation = read - 1 /\ work_generation' = work_generation + 1
      BY <1>3, <2>1 DEF Post, IInv, Published, Generation
    <3>2. \A w \in Workers : observed[w] \in Int /\ observed[w] <= read - 1
      BY <1>0, <3>1 DEF Generation, Types
    <3> QED
      BY <1>0, <2>1, <3>1, <3>2 DEF Late, Working
  <2>3. Cardinality(Due(Workers \ Late))' = 0
    <3>1. (Workers \ Late)' = {}
      BY <2>2
    <3>2. Due(Workers \ Late)' = {}
      BY <3>1 DEF Due
    <3> QED
      BY <3>2, FS_EmptySet
  <2>4. Counted'
    BY <2>1, <2>2, <2>3 DEF Counted
  <2> QED
    BY <2>1, <2>4 DEF Failures, ResultHonest
<1>4. CASE Collect
  <2>1. Late = {} /\ pc = "await" /\ UNCHANGED <<request, failing, work_failed>>
    BY <1>4, Finite DEF Collect, AllDone, IInv, Count
  <2>2. ~work_failed => work_ios = Total
    <3>1. Workers \ Late = Workers
      BY <2>1
    <3> QED
      BY <2>1, <3>1 DEF Counted, Total
  <2>3. CASE work_failed
    <3>1. pc' = "idle" /\ result' = [result EXCEPT ![read] = "failed"] /\ read \in failing
      BY <1>4, <2>1, <2>3 DEF Collect, Ended, Failures
    <3>2. ResultHonest'
      BY <1>0, <2>1, <3>1 DEF ResultHonest, Types
    <3> QED
      BY <1>0, <2>1, <3>1, <3>2 DEF Failures, Counted, Types
  <2>4. CASE ~work_failed
    <3>1. pc' = "copy" /\ UNCHANGED result
      BY <1>4, <2>2, <2>4 DEF Collect
    <3> QED
      BY <2>1, <3>1 DEF Failures, Counted, ResultHonest
  <2> QED
    BY <2>3, <2>4
<1>5. CASE Copy
  <2>1. pc = "copy" /\ pc' = "idle" /\ result' = [result EXCEPT ![read] = "ok"]
        /\ UNCHANGED <<request, failing>>
    BY <1>5 DEF Copy, Ended
  <2>2. read \notin failing
    BY <2>1 DEF Failures, IInv, Filled
  <2>3. ResultHonest'
    BY <1>0, <2>1, <2>2 DEF ResultHonest, Types
  <2> QED
    BY <1>0, <2>1, <2>3 DEF Failures, Counted, Types
<1>6. CASE CopyFails
  <2>1. /\ pc = "copy" /\ pc' = "drain" /\ failing' = failing \cup {read}
        /\ UNCHANGED <<request, result>>
    BY <1>6 DEF CopyFails
  <2>2. read \in 1..read
    BY <1>0, <2>1 DEF Generation
  <2>3. ResultHonest'
    BY <2>1 DEF ResultHonest, Failures, Reads
  <2> QED
    BY <2>1, <2>2, <2>3 DEF Failures, Counted
<1>7. CASE Drain
  <2>1. pc = "drain" /\ pc' = "idle" /\ result' = [result EXCEPT ![read] = "failed"]
        /\ UNCHANGED <<request, failing>> /\ read \in failing
    BY <1>7 DEF Drain, Ended, Failures
  <2>2. ResultHonest'
    BY <1>0, <2>1 DEF ResultHonest, Types
  <2> QED
    BY <1>0, <2>1, <2>2 DEF Failures, Counted, Types
<1> QED
  BY <1>1, <1>2, <1>3, <1>4, <1>5, <1>6, <1>7 DEF Caller

LEMMA HonestWorker ==
    ASSUME HInv, NEW w \in Workers, Worker(w)
    PROVE  Failures' /\ Counted' /\ ResultHonest'
<1> USE DEF HInv, request, mutexed, threads, device, history
<1>0. Types /\ Generation /\ read \in Nat
  BY BoundAssumption DEF IInv, Types
<1>1. CASE Initialize(w) \/ Wake(w)
  <2>1. UNCHANGED <<pc, request, mutexed, done, history>>
    BY <1>1 DEF Initialize, Wake
  <2>2. \A v \in Workers : wpc'[v] = "finish" => wpc[v] = "finish"
    BY <1>0, <1>1 DEF Initialize, Wake, Goto, Types
  <2>3. Late' = Late
    BY <1>0, <1>1 DEF Initialize, Wake, Goto, Late, Working, Types, IInv, Stopped, Published
  <2>4. Counted'
    BY <2>1, <2>2, <2>3 DEF Counted, Due
  <2> QED
    BY <2>1, <2>4 DEF Failures, ResultHonest
<1>2. CASE Start(w) \/ ReadRange(w)
  <2>1. w \in Working /\ pc = "await" /\ active_ranges = read /\ read > 0
    BY <1>2 DEF Start, ReadRange, IInv, Published, Late, Working, Generation
  <2>2. UNCHANGED <<pc, request, mutexed, observed, history>>
        /\ wpc[w] # "finish" /\ wpc'[w] # "finish"
        /\ \A v \in Workers \ {w} : done'[v] = done[v] /\ wpc'[v] = wpc[v]
    BY <1>0, <1>2, <2>1 DEF Start, ReadRange, Goto, Types
  <2>3. Late' = Late
    BY <1>0, <1>2, <2>1, <2>2 DEF Start, ReadRange, Goto, Late, Working, Types
  <2>4. Counted'
    BY <2>2, <2>3 DEF Counted, Due
  <2> QED
    BY <2>2, <2>4 DEF Failures, ResultHonest
<1>3. CASE RangeFails(w)
  <2>1. pc = "await" /\ read > 0
    BY <1>3 DEF RangeFails, IInv, Published, Late, Working, Generation
  <2>2. work_failed' /\ failing' = failing \cup {read} /\ UNCHANGED <<pc, request, result>>
    BY <1>3 DEF RangeFails
  <2>3. ResultHonest'
    BY <2>1, <2>2 DEF ResultHonest, Failures, Reads
  <2> QED
    BY <1>0, <2>1, <2>2, <2>3 DEF Failures, Counted
<1>4. CASE RangesOver(w)
  <2>1. /\ UNCHANGED <<pc, request, mutexed, observed, done, history>>
        /\ wpc[w] = "work" /\ wpc' = [wpc EXCEPT ![w] = "finish"]
        /\ ~work_failed => done[w] = share[w]
    BY <1>4 DEF RangesOver, Goto
  <2>2. Late' = Late
    BY <1>0, <2>1 DEF Late, Working, Types
  <2>3. Counted'
    BY <1>0, <2>1, <2>2 DEF Counted, Due, Types
  <2> QED
    BY <2>1, <2>3 DEF Failures, ResultHonest
<1>5. CASE Finish(w)
  <2>1. UNCHANGED <<pc, request, work_failed, work_generation, observed, done, history>>
        /\ wpc[w] = "finish" /\ wpc' = [wpc EXCEPT ![w] = "wait"]
        /\ work_ios' = work_ios + done[w]
    BY <1>5 DEF Finish, Goto
  <2>2. w \in Late /\ observed[w] = work_generation
    BY <2>1 DEF IInv, Published, Late, Working
  <2>3. Late' = Late \ {w}
    BY <1>0, <2>1, <2>2 DEF Late, Working, Types
  <2>4. Counted'
    <3>1. SUFFICES ASSUME pc = "await", ~work_failed
                   PROVE  /\ work_ios' = Cardinality(Due(Workers \ Late))'
                          /\ \A v \in Workers : wpc'[v] = "finish" => done'[v] = share'[v]
      BY <2>1 DEF Counted
    <3>2. /\ work_ios = Cardinality(Due(Workers \ Late)) /\ done[w] = share[w]
          /\ \A v \in Workers : wpc[v] = "finish" => done[v] = share[v]
      BY <2>1, <3>1 DEF Counted
    <3>3. (Workers \ Late)' = (Workers \ Late) \cup {w} /\ w \in Workers \ (Workers \ Late)
      BY <2>2, <2>3
    <3>4. Cardinality(Due((Workers \ Late) \cup {w}))
            = Cardinality(Due(Workers \ Late)) + share[w]
      BY <1>0, <3>3, DueGrows
    <3>5. Due(Workers \ Late)' = Due((Workers \ Late) \cup {w})
      BY <2>1, <3>3 DEF Due
    <3>6. \A v \in Workers : wpc'[v] = "finish" => wpc[v] = "finish"
      BY <1>0, <2>1 DEF Types
    <3> QED
      BY <2>1, <3>2, <3>4, <3>5, <3>6
  <2> QED
    BY <2>1, <2>4 DEF Failures, ResultHonest
<1> QED
  BY <1>1, <1>2, <1>3, <1>4, <1>5 DEF Worker

LEMMA HonestStep == HInv /\ [Next]_vars => HInv'
<1> SUFFICES ASSUME HInv, [Next]_vars PROVE HInv'
  OBVIOUS
<1>1. IInv'
  BY StepKeeps DEF HInv
<1>2. CASE CopyDone \/ UNCHANGED vars
  <2>1. UNCHANGED <<pc, request, mutexed, threads, history>>
    BY <1>2 DEF CopyDone, vars
  <2>2. UNCHANGED Late
    BY <2>1 DEF Late, Working, mutexed, threads
  <2> QED
    BY <1>1, <2>1, <2>2 DEF HInv, Failures, Counted, ResultHonest, Due, request, mutexed,
       threads, history
<1>3. CASE Caller \/ Begin \/ CopyFails \/ Close
  BY <1>1, <1>3, HonestCaller DEF HInv
<1>4. CASE \E w \in Workers : Worker(w)
  BY <1>1, <1>4, HonestWorker DEF HInv
<1> QED
  BY <1>2, <1>3, <1>4 DEF Next

\* A read fails exactly when one of its own ranges or copies did: no failure is
\* swallowed, left to the next read, or made up by a count of ranges that does not
\* match (work_failed_, work_ios_, sync_mt_read).
THEOREM ResultsAreHonest == Spec => []ResultHonest
<1>1. HInv => ResultHonest
  BY DEF HInv
<1> QED
  BY <1>1, InitiallyHonest, HonestStep, PTL DEF Spec
=============================================================================
