------------------------------- MODULE ReadPlan -------------------------------
(***************************************************************************)
(* How a request for rows becomes aligned file ranges, lanes of the staging *)
(* slot and gather offsets (read_ids and read of src/csrc/ple_gds/          *)
(* ple_gds_persistent.cpp), and how the caller falls back from one read to  *)
(* chunks (_read_prepared, iter_read_at of persistent_reader.py and         *)
(* _produce_in_process of vllm_ple_gds_runner.py).                          *)
(*                                                                          *)
(* Sizes are in units: a page is Alignment units and a row RowBytes units   *)
(* (4096 and 160 bytes in the program; both are multiples of 32, and a row  *)
(* may straddle two pages).  The unit at file offset f holds f.             *)
(***************************************************************************)
EXTENDS Integers, Sequences, FiniteSets, SequencesExt

CONSTANTS
    Requests,      \* the requests: sequences of row ids
    RowCount, BlockRows, BlockStride, RowBytes, Alignment,
    GapSettings,   \* values of max_gap_pages that a reader may be opened with
    MaxRangeBytes,
    WorkerCount, StagingBytes,
    OutputBytes

ASSUME GeometryAssumption ==
    /\ {RowCount, BlockRows, RowBytes, Alignment, WorkerCount} \subseteq Nat \ {0}
    /\ GapSettings \subseteq Nat
    /\ BlockStride >= BlockRows * RowBytes /\ BlockStride % Alignment = 0
    /\ MaxRangeBytes >= Alignment /\ MaxRangeBytes % Alignment = 0
    /\ StagingBytes >= WorkerCount * Alignment
    /\ RowBytes <= Alignment /\ OutputBytes >= RowBytes
ASSUME RequestAssumption == \A rows \in Requests : rows # <<>>

VARIABLES
    max_gap_pages, \* how many pages that nobody asked for a range may bridge
    rows,    \* the requested ids
    pc,      \* where the request is
    start,   \* the first row of the next chunk
    output,  \* the rows written to the output so far
    plan,    \* the last plan
    limited  \* indices of rows gathered across the end of a full range
request == <<max_gap_pages, rows>>
vars == <<request, pc, start, output, plan, limited>>

\* The constructor: one lane of the staging slot for each worker.
LaneCapacity == ((StagingBytes \div WorkerCount) \div Alignment) * Alignment
Lanes == 0..(WorkerCount - 1)

\* The elements of S in the order of before.
Sorted(S, before(_, _)) ==
    [i \in 1..Cardinality(S) |->
        CHOOSE x \in S : Cardinality({y \in S : before(y, x)}) = i - 1]

Lesser(a, b) == IF a < b THEN a ELSE b

-----------------------------------------------------------------------------
(* read_ids: pages and ranges.                                             *)

RowOffset(id) == (id \div BlockRows) * BlockStride + (id % BlockRows) * RowBytes
FirstPage(id) == RowOffset(id) \div Alignment
LastPage(id) == (RowOffset(id) + RowBytes - 1) \div Alignment
Pages(ids) == {FirstPage(ids[i]) : i \in DOMAIN ids} \cup {LastPage(ids[i]) : i \in DOMAIN ids}

EffectiveMaxRange == Lesser(MaxRangeBytes, LaneCapacity)

LastOf(r) == r.file \div Alignment + r.size \div Alignment - 1

\* A page extends the last range when the gap and the extended size allow it.
\* Mutant: the extended size is one page short.
MergeShort(ranges, page) ==
    LET prev == Last(ranges)
        extended == (page + 1) * Alignment - prev.file
    IN IF ranges # <<>> /\ page - LastOf(prev) - 1 <= max_gap_pages
                        /\ extended - Alignment <= EffectiveMaxRange
         THEN Front(ranges) \o <<[prev EXCEPT !.size = extended]>>
         ELSE Append(ranges, [file |-> page * Alignment, size |-> Alignment])
Merge(ranges, page) ==
    LET prev == Last(ranges)
        extended == (page + 1) * Alignment - prev.file
    IN IF ranges # <<>> /\ page - LastOf(prev) - 1 <= max_gap_pages
                        /\ extended <= EffectiveMaxRange
         THEN Front(ranges) \o <<[prev EXCEPT !.size = extended]>>
         ELSE Append(ranges, [file |-> page * Alignment, size |-> Alignment])

PlanRanges(ids) == FoldLeft(Merge, <<>>, Sorted(Pages(ids), <))

Total(ranges) == FoldLeft(LAMBDA sum, r : sum + r.size, 0, ranges)

-----------------------------------------------------------------------------
(* read_ids: lanes.                                                        *)

\* Longest first, in file order when equal.
Order(ranges) ==
    Sorted(DOMAIN ranges,
        LAMBDA i, j : \/ ranges[i].size > ranges[j].size
                      \/ ranges[i].size = ranges[j].size /\ i < j)

\* The least loaded lane with room for size units, the first of equals.
\* Mutant: the room left is not looked at.
RoomyAny(loads, size) == Lanes
Roomy(loads, size) == {l \in Lanes : loads[l] + size <= LaneCapacity}
LeastLoaded(loads, lanes) ==
    CHOOSE l \in lanes : \A m \in lanes :
        loads[l] < loads[m] \/ (loads[l] = loads[m] /\ l <= m)

Unplaced == -1

\* Places range i: at[i] is its staging offset, Unplaced when no lane has room.
Place(ranges, acc, i) ==
    LET lanes == Roomy(acc.loads, ranges[i].size)
        lane  == LeastLoaded(acc.loads, lanes)
    IN IF lanes = {}
         THEN acc
         ELSE [loads |-> [acc.loads EXCEPT ![lane] = @ + ranges[i].size],
               at |-> [acc.at EXCEPT ![i] = lane * LaneCapacity + acc.loads[lane]]]

Placement(ranges) ==
    FoldLeft(LAMBDA acc, i : Place(ranges, acc, i),
             [loads |-> [l \in Lanes |-> 0], at |-> [i \in DOMAIN ranges |-> Unplaced]],
             Order(ranges)).at

-----------------------------------------------------------------------------
(* read_ids: gather offsets, and the plan.                                 *)

\* upper_bound: the last range that does not begin after the page of the row.
RangeOf(ranges, id) ==
    CHOOSE i \in DOMAIN ranges :
        /\ ranges[i].file <= FirstPage(id) * Alignment
        /\ \A j \in DOMAIN ranges : j > i => ranges[j].file > FirstPage(id) * Alignment

\* Mutant: the offset inside the page is lost.
GatherOffsetOfPage(ranges, at, id) ==
    LET i == RangeOf(ranges, id) IN at[i] + FirstPage(id) * Alignment - ranges[i].file
GatherOffset(ranges, at, id) ==
    LET i == RangeOf(ranges, id) IN at[i] + RowOffset(id) - ranges[i].file

\* outcome: "bounds", "slot" (the page cannot be staged in one slot), "lanes",
\* "span" (an exception other than the chunking one) or "ok".
Plan(ids) ==
    LET ranges == PlanRanges(ids)
        at     == Placement(ranges)
        gather == [i \in DOMAIN ids |-> GatherOffset(ranges, at, ids[i])]
        outcome ==
            IF \E i \in DOMAIN ids : ids[i] \notin 0..(RowCount - 1) THEN "bounds"
            ELSE IF Total(ranges) > StagingBytes THEN "slot"
            ELSE IF \E i \in DOMAIN ranges : at[i] = Unplaced THEN "lanes"
            ELSE IF \E i \in DOMAIN ids : gather[i] + RowBytes > StagingBytes THEN "span"
            ELSE "ok"
    IN IF outcome = "ok"
         THEN [outcome |-> outcome, ranges |-> ranges, at |-> at, gather |-> gather]
         ELSE [outcome |-> outcome, ranges |-> ranges, at |-> <<>>, gather |-> <<>>]

NoPlan == [outcome |-> "none", ranges |-> <<>>, at |-> <<>>, gather |-> <<>>]

-----------------------------------------------------------------------------
(* read: the I/O fills the staging slot, the gather copies spans of it.    *)

Stale == -1  \* what an earlier read left in the staging slot

Staged(p, o) ==
    LET over == {i \in DOMAIN p.ranges :
                    p.at[i] <= o /\ o < p.at[i] + p.ranges[i].size}
    IN IF over = {} THEN Stale
       ELSE LET i == CHOOSE i \in over : TRUE IN p.ranges[i].file + o - p.at[i]

Gathered(p) ==
    [i \in DOMAIN p.gather |-> [k \in 0..(RowBytes - 1) |-> Staged(p, p.gather[i] + k)]]

\* What the row is in the file.
Row(id) == [k \in 0..(RowBytes - 1) |-> RowOffset(id) + k]

-----------------------------------------------------------------------------
(* The request.                                                            *)

\* Rows whose second page is not in the range of their first, because that range
\* has the largest size.
AtLimit(p, ids) ==
    {i \in DOMAIN ids :
        LET r == p.ranges[RangeOf(p.ranges, ids[i])]
        IN LastPage(ids[i]) > LastOf(r) /\ r.size = EffectiveMaxRange}

Init ==
    /\ max_gap_pages \in GapSettings
    /\ rows \in Requests
    /\ pc = "read_at" /\ start = 0 /\ output = <<>> /\ plan = NoPlan /\ limited = {}

\* One read of everything.  A request that exceeds the output, or the staging
\* slot, raises ChunkedReadRequired; any other exception fails the request.
ReadAt ==
    /\ pc = "read_at"
    /\ IF Len(rows) * RowBytes > OutputBytes
         THEN pc' = "iter" /\ UNCHANGED <<plan, output, limited>>
         ELSE /\ plan' = Plan(rows)
              /\ IF plan'.outcome = "ok"
                   THEN output' = Gathered(plan') /\ limited' = AtLimit(plan', rows)
                   ELSE UNCHANGED <<output, limited>>
              /\ pc' = CASE plan'.outcome = "ok"   -> "assembled"
                         [] plan'.outcome = "slot" -> "iter"
                         [] OTHER                  -> "failed"
    /\ UNCHANGED <<request, start>>

ChunkRows == Lesser(OutputBytes \div RowBytes, StagingBytes \div (2 * Alignment))

\* Mutant: the chunk is as large as the output alone allows.
ChunkOfOutput(from) == SubSeq(rows, from + 1, Lesser(from + OutputBytes \div RowBytes, Len(rows)))
Chunk(from) == SubSeq(rows, from + 1, Lesser(from + ChunkRows, Len(rows)))

\* The next chunk goes behind the previous one.  A chunk that raises, also
\* ChunkedReadRequired, fails the request.
ReadChunk ==
    /\ pc = "iter" /\ start < Len(rows)
    /\ LET chunk == Chunk(start) IN
       IF (start + Len(chunk)) * RowBytes > OutputBytes
         THEN pc' = "chunk_failed" /\ UNCHANGED <<start, output, plan, limited>>
         ELSE /\ plan' = Plan(chunk)
              /\ IF plan'.outcome = "ok"
                   THEN /\ output' = output \o Gathered(plan')
                        /\ limited' = limited \cup {start + i : i \in AtLimit(plan', chunk)}
                        /\ start' = start + ChunkRows
                        /\ UNCHANGED pc
                   ELSE pc' = "chunk_failed" /\ UNCHANGED <<output, start, limited>>
    /\ UNCHANGED request

ChunksOver ==
    /\ pc = "iter" /\ start >= Len(rows)
    /\ pc' = "assembled"
    /\ UNCHANGED <<request, start, output, plan, limited>>

\* The assembled size is compared with the expected one before the signal.
Assembled ==
    /\ pc = "assembled"
    /\ pc' = IF Len(output) = Len(rows) THEN "done" ELSE "failed"
    /\ UNCHANGED <<request, start, output, plan, limited>>

Ended == pc \in {"done", "failed", "chunk_failed"} /\ UNCHANGED vars

Step == ReadAt \/ ReadChunk \/ ChunksOver \/ Assembled
Next == Step \/ Ended

\* The request thread runs the request to its end.
Spec == Init /\ [][Next]_vars /\ WF_vars(Step)

-----------------------------------------------------------------------------
(* compact.plan_page_requests, the planner of the offline reader           *)
(* (src/src/ple_gds/compact.py).                                           *)

CompactPages(ids) ==
    UNION {FirstPage(ids[i])..LastPage(ids[i]) : i \in DOMAIN ids}

CompactMerge(ranges, page) ==
    IF ranges # <<>> /\ page = LastOf(Last(ranges)) + 1
      THEN Front(ranges) \o <<[Last(ranges) EXCEPT !.size = @ + Alignment]>>
      ELSE Append(ranges, [file |-> page * Alignment, size |-> Alignment])

CompactRanges(ids) == FoldLeft(CompactMerge, <<>>, Sorted(CompactPages(ids), <))

-----------------------------------------------------------------------------
(* Properties.                                                             *)

\* Every variable has its type, and the output grows with the chunks.
TypeOK ==
    /\ max_gap_pages \in GapSettings /\ rows \in Requests
    /\ pc \in {"read_at", "iter", "assembled", "done", "failed", "chunk_failed"}
    /\ plan.outcome \in {"none", "bounds", "slot", "lanes", "span", "ok"}
    /\ pc = "iter" => Len(output) = Lesser(start, Len(rows))
    /\ limited \subseteq DOMAIN output

\* The rows that the reader delivers, in one read or in chunks, are the rows of
\* the file in the order of the request; only a row that straddles the end of a
\* range of the largest size can be anything else.
RowsExact ==
    pc = "done" =>
        /\ DOMAIN output = DOMAIN rows
        /\ \A i \in DOMAIN rows \ limited : output[i] = Row(rows[i])

\* What read checks again of a plan: every range in one lane and in the slot; and
\* what it does not: no two ranges share staging memory.
PlanFitsSlot ==
    plan.outcome = "ok" =>
        \A i \in DOMAIN plan.ranges :
            LET at  == plan.at[i]
                end == at + plan.ranges[i].size
            IN  /\ end <= StagingBytes
                /\ at \div LaneCapacity \in Lanes
                /\ (at % LaneCapacity) + plan.ranges[i].size <= LaneCapacity
                /\ \A j \in DOMAIN plan.ranges \ {i} :
                      end <= plan.at[j] \/ plan.at[j] + plan.ranges[j].size <= at

PagesOf(ranges) == UNION {(r.file \div Alignment)..LastOf(r) : r \in Range(ranges)}

\* Without gaps, one read covers the pages that the offline planner covers, each
\* once, in ranges that do not exceed the limit.
PlannersAgree ==
    max_gap_pages = 0 /\ plan.outcome = "ok" /\ pc = "done" /\ start = 0 =>
        /\ PagesOf(plan.ranges) = PagesOf(CompactRanges(rows))
        /\ Total(plan.ranges) = Total(CompactRanges(rows))
        /\ \A r \in Range(plan.ranges) : r.size <= EffectiveMaxRange

\* "One row touches at most two aligned pages, so every produced chunk fits
\* staging": the pages of a chunk are never more than the slot has, if no range bridges
\* other pages.
ChunkFitsSlot == max_gap_pages = 0 /\ pc = "chunk_failed" => plan.outcome # "slot"

\* What the native planner makes fits where it is put, and is what the offline one makes.
PlansSound == PlanFitsSlot /\ PlannersAgree /\ ChunkFitsSlot
=============================================================================
