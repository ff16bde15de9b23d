------------------------- MODULE TicketMailboxProofs -------------------------
(***************************************************************************)
(* Proofs about the CPU token shadow of the ticket mailbox, for any number *)
(* of requests, slots, steps and pipeline ranks: the shadow of a request   *)
(* is its history, though its tokens come from jobs that are queued while  *)
(* requests are removed and added again, that fail half way, and that the  *)
(* model thread does not wait for.                                         *)
(***************************************************************************)
EXTENDS TicketMailbox, FiniteSetTheorems, WellFoundedInduction, TLAPS

-----------------------------------------------------------------------------
(* What is under way to the shadow.                                        *)

\* The position of the token that a step samples for a request.
Pos(b, r)    == b[r].start + b[r].len
Shared(b, r) == \E q \in DOMAIN b : q # r

\* A job owes a token to the request that is now known under its id.
Owes(j, r) == r \in Live /\ r \in j.need /\ j.rows[r].gen = shadow[r].gen
Owing(r)   == {i \in DOMAIN jobs : Owes(jobs[i], r)}
AtHand(r)  == wpc = "append" /\ r \in include /\ Owes(job, r)

\* The length of the shadow behind the job at hand.
Reach(r) == Len(shadow[r].tokens) + (IF AtHand(r) THEN 1 ELSE 0)

\* The index of a request that is being removed has been freed.
Freed(r) == r \in DOMAIN removing /\ removing[r] # "free"

InStep      == {"acquire", "await", "launch", "receive"}
Going       == {"idle", "remove"} \cup InStep
Stepping(r) == pc \in InStep /\ r \in DOMAIN batch

-----------------------------------------------------------------------------
(* The inductive invariant.                                                *)

IsSeq(s) == \E S : s \in Seq(S)
IsBatch(b) ==
    /\ DOMAIN b \subseteq Requests
    /\ \A r \in DOMAIN b : /\ DOMAIN b[r] = {"gen", "start", "len"}
                           /\ b[r].gen \in Nat /\ b[r].start \in Nat /\ b[r].len \in Nat \ {0}
IsJob(j, n) ==
    /\ IsBatch(j.rows) /\ j.need \subseteq DOMAIN j.rows
    /\ \A r \in j.need : j.rows[r].gen < n
Kinds == {"submitted", "completed", "error"}

Types ==
    /\ DOMAIN shadow = Requests /\ nextGen \in Nat /\ nextSeq \in Nat
    /\ \A r \in Live : /\ DOMAIN shadow[r] = {"gen", "tokens"}
                       /\ shadow[r].gen \in Nat /\ shadow[r].gen < nextGen
                       /\ Len(shadow[r].tokens) \in Nat
    /\ idxGen \in [Requests -> Nat] /\ computed \in [Requests -> Nat]
    /\ IsSeq(jobs) /\ \A i \in DOMAIN jobs : IsJob(jobs[i], nextGen)
    /\ wpc = "append" => IsJob(job, nextGen) /\ include \subseteq job.need
    /\ IsBatch(batch)
    /\ IsSeq(results) /\ \A i \in DOMAIN results : results[i].type \in Kinds

\* A slot has its fields, and the identity of its prefetch is of a known generation.
Slotted ==
    /\ DOMAIN slot = Slots
    /\ \A s \in Slots : DOMAIN slot[s] = DOMAIN FreeSlot
    /\ \A s \in Slots : slot[s].prefetch # None =>
          slot[s].prefetch.seq \in Nat /\ slot[s].prefetch.gen \in Nat
          /\ slot[s].prefetch.gen < nextGen

\* The batch of a step: what is removed is not in it, a known request goes on
\* where it stands.
Batched ==
    /\ pc # "remove" => DOMAIN removing = {}
    /\ pc = "remove" => \A r \in DOMAIN batch :
          /\ r \notin DOMAIN removing
          /\ r \in Live => batch[r].start = computed[r] /\ batch[r].len = 1
          /\ r \notin Live => batch[r].start = 0 /\ batch[r].len = PromptLen
    /\ pc \in InStep => \A r \in DOMAIN batch :
          /\ batch[r].gen < nextGen
          /\ r \in Live => batch[r].gen = shadow[r].gen

\* The token at hand is the next one.
Current(r) == AtHand(r) => Pos(job.rows, r) = Len(shadow[r].tokens)

\* A job remembers the index of its requests.
Indexed(r) == \A i \in Owing(r) : Freed(r) <=> jobs[i].genAt[r] # idxGen[r]

\* Tokens are owed in order, without a gap from the shadow on, and a job with
\* several requests is the last one that owes any of them a token.
Line(r) ==
    /\ \A i \in Owing(r) :
          /\ Pos(jobs[i].rows, r) >= Reach(r)
          /\ \A q \in Nat : Reach(r) <= q /\ q < Pos(jobs[i].rows, r) =>
                \E k \in Owing(r) : k < i /\ Pos(jobs[k].rows, r) = q
    /\ \A i, k \in Owing(r) : i < k =>
          Pos(jobs[i].rows, r) < Pos(jobs[k].rows, r) /\ ~Shared(jobs[i].rows, r)
    /\ AtHand(r) /\ Shared(job.rows, r) => Owing(r) = {}

\* Between the steps of a request: what it is owed ends with the token it was
\* scheduled for last, unless its sequence ends or the worker has failed.
Room(r) ==
    /\ \A i \in Owing(r) : Pos(jobs[i].rows, r) <= computed[r]
    /\ Reach(r) <= computed[r] + 1
    /\ \/ Freed(r) \/ werr # None \/ computed[r] + 1 >= MaxLen
       \/ Reach(r) > computed[r]
       \/ \E i \in Owing(r) : Pos(jobs[i].rows, r) = computed[r]

\* In a step of the request: it will be owed the token behind those.
StepRoom(r) ==
    /\ \A i \in Owing(r) : Pos(jobs[i].rows, r) < Pos(batch, r) /\ ~Shared(jobs[i].rows, r)
    /\ AtHand(r) => ~Shared(job.rows, r)
    /\ Reach(r) <= Pos(batch, r) /\ Pos(batch, r) <= Reach(r) + 1
    /\ \/ werr # None \/ Pos(batch, r) + 1 >= MaxLen \/ Pos(batch, r) = Reach(r)
       \/ \E i \in Owing(r) : Pos(jobs[i].rows, r) = Reach(r)

\* A prefetch is for a position that was scheduled, and not for one that a job
\* with several requests samples.
Prefetched(r) == \A s \in Slots :
    slot[s].prefetch # None /\ slot[s].prefetch.req = r /\ slot[s].prefetch.gen = shadow[r].gen =>
        /\ slot[s].prefetch.start \in Nat
        /\ pc \in Going => IF Stepping(r) THEN slot[s].prefetch.start < Pos(batch, r)
                           ELSE slot[s].prefetch.start <= computed[r]
        /\ AtHand(r) /\ Shared(job.rows, r) => slot[s].prefetch.start < Pos(job.rows, r)
        /\ \A i \in Owing(r) :
              Shared(jobs[i].rows, r) => slot[s].prefetch.start < Pos(jobs[i].rows, r)

Good(r) ==
    /\ shadow[r].tokens = History(shadow[r].gen, Len(shadow[r].tokens))
    /\ Current(r) /\ Indexed(r)
    /\ ~Freed(r) => Line(r) /\ Prefetched(r)
    /\ pc \in Going => IF Stepping(r) THEN StepRoom(r) ELSE Room(r)

IInv == Types /\ Slotted /\ Batched /\ \A r \in Live : Good(r)

-----------------------------------------------------------------------------
(* Sequences and histories.                                                *)

LEMMA SeqAppend ==
    ASSUME NEW s, NEW x, IsSeq(s)
    PROVE  /\ IsSeq(Append(s, x)) /\ Len(Append(s, x)) = Len(s) + 1 /\ Len(s) \in Nat
           /\ DOMAIN s = 1..Len(s) /\ DOMAIN Append(s, x) = 1..(Len(s) + 1)
           /\ \A i \in 1..Len(s) : Append(s, x)[i] = s[i]
           /\ Append(s, x)[Len(s) + 1] = x
<1>1. PICK S : s \in Seq(S)
  BY DEF IsSeq
<1> DEFINE T == S \cup {x}
<1>2. s \in Seq(T) /\ x \in T
  <2>1. Len(s) \in Nat /\ s \in [1..Len(s) -> S]
    BY <1>1
  <2>2. s \in [1..Len(s) -> T]
    BY <2>1
  <2> QED
    BY <2>1, <2>2
<1> HIDE DEF T
<1>3. Append(s, x) \in Seq(T)
  BY <1>2
<1> QED
  BY <1>2, <1>3 DEF IsSeq

LEMMA SeqTail ==
    ASSUME NEW s, IsSeq(s), s # <<>>
    PROVE  /\ IsSeq(Tail(s)) /\ Len(Tail(s)) = Len(s) - 1 /\ Len(s) \in Nat \ {0}
           /\ DOMAIN s = 1..Len(s) /\ DOMAIN Tail(s) = 1..(Len(s) - 1)
           /\ Head(s) = s[1]
           /\ \A i \in 1..(Len(s) - 1) : Tail(s)[i] = s[i + 1]
<1>1. PICK S : s \in Seq(S)
  BY DEF IsSeq
<1>2. Tail(s) \in Seq(S) /\ Len(Tail(s)) = Len(s) - 1 /\ Len(s) \in Nat \ {0} /\ Head(s) = s[1]
  BY <1>1
<1>3. \A i \in 1..(Len(s) - 1) : Tail(s)[i] = s[i + 1]
  BY <1>1
<1>4. DOMAIN s = 1..Len(s) /\ DOMAIN Tail(s) = 1..(Len(s) - 1)
  BY <1>1, <1>2
<1> QED
  BY <1>2, <1>3, <1>4 DEF IsSeq

LEMMA HistoryGrows ==
    ASSUME NEW g \in Nat, NEW n \in Nat
    PROVE  /\ Len(History(g, n)) = n
           /\ Append(History(g, n), <<g, n>>) = History(g, n + 1)
<1>1. History(g, n) \in Seq(Nat \X Nat) /\ Len(History(g, n)) = n
  BY DEF History
<1>2. History(g, n + 1) \in Seq(Nat \X Nat) /\ Len(History(g, n + 1)) = n + 1
  BY DEF History
<1> DEFINE h == Append(History(g, n), <<g, n>>)
<1>3. h \in Seq(Nat \X Nat) /\ Len(h) = n + 1
  BY <1>1
<1>4. \A i \in 1..(n + 1) : h[i] = <<g, i - 1>>
  BY <1>1 DEF History
<1>5. \A i \in 1..(n + 1) : History(g, n + 1)[i] = <<g, i - 1>>
  BY DEF History
<1> HIDE DEF h
<1>6. /\ h = [i \in 1..(n + 1) |-> h[i]]
      /\ History(g, n + 1) = [i \in 1..(n + 1) |-> History(g, n + 1)[i]]
  <2>1. \A s \in Seq(Nat \X Nat) : s = [i \in 1..Len(s) |-> s[i]]
    OBVIOUS
  <2> QED
    BY <1>2, <1>3, <2>1
<1>8. h = History(g, n + 1)
  BY <1>4, <1>5, <1>6
<1> QED
  BY <1>1, <1>8 DEF h

-----------------------------------------------------------------------------
(* The parts of the invariant, and what leaves a request alone.            *)

LEMMA Positions ==
    ASSUME Types
    PROVE  /\ \A r : Owing(r) \subseteq DOMAIN jobs /\ DOMAIN jobs \subseteq Nat \ {0}
           /\ \A r : \A i \in Owing(r) : /\ r \in Live /\ r \in DOMAIN jobs[i].rows
                                         /\ Pos(jobs[i].rows, r) \in Nat
           /\ \A r : AtHand(r) => r \in DOMAIN job.rows /\ Pos(job.rows, r) \in Nat
           /\ \A r \in DOMAIN batch : r \in Requests /\ Pos(batch, r) \in Nat
           /\ \A r \in Live : Reach(r) \in Nat /\ r \in Requests /\ computed[r] \in Nat
<1>1. \A b : IsBatch(b) => \A r \in DOMAIN b : Pos(b, r) \in Nat
  BY DEF IsBatch, Pos
<1>2. DOMAIN jobs \subseteq Nat \ {0}
  BY DEF Types, IsSeq
<1>3. \A r : \A i \in Owing(r) : /\ r \in Live /\ i \in DOMAIN jobs /\ IsJob(jobs[i], nextGen)
                                 /\ r \in jobs[i].need
  BY DEF Types, Owing, Owes
<1>4. \A r : AtHand(r) => IsJob(job, nextGen) /\ r \in job.need
  BY DEF Types, AtHand, Owes
<1>5. \A r \in Live : Reach(r) \in Nat /\ r \in Requests /\ computed[r] \in Nat
  <2>1. ASSUME NEW r \in Live
        PROVE  Reach(r) \in Nat /\ r \in Requests /\ computed[r] \in Nat
    <3>1. Len(shadow[r].tokens) \in Nat /\ r \in Requests /\ computed[r] \in Nat
      BY DEF Types, Live
    <3>2. CASE AtHand(r)
      BY <3>1, <3>2 DEF Reach
    <3>3. CASE ~AtHand(r)
      BY <3>1, <3>3 DEF Reach
    <3> QED
      BY <3>1, <3>2, <3>3
  <2> QED
    BY <2>1
<1>6. \A r \in DOMAIN batch : r \in Requests /\ Pos(batch, r) \in Nat
  BY <1>1 DEF Types, IsBatch
<1>7. \A r : \A i \in Owing(r) : r \in DOMAIN jobs[i].rows /\ Pos(jobs[i].rows, r) \in Nat
  BY <1>1, <1>3 DEF IsJob
<1>8. \A r : AtHand(r) => r \in DOMAIN job.rows /\ Pos(job.rows, r) \in Nat
  BY <1>1, <1>4 DEF IsJob
<1> QED
  BY <1>2, <1>3, <1>5, <1>6, <1>7, <1>8

\* Nothing under way to the shadow of r changes, nor what it is scheduled for.
Steady(r) ==
    /\ shadow'[r] = shadow[r] /\ idxGen'[r] = idxGen[r]
    /\ Owing(r)' = Owing(r) /\ \A i \in Owing(r) : jobs'[i] = jobs[i]
    /\ AtHand(r)' = AtHand(r) /\ (AtHand(r) => job' = job)
    /\ Freed(r)' = Freed(r) /\ (werr # None => werr' # None)
    /\ pc' \in Going => /\ pc \in Going /\ computed'[r] = computed[r]
                        /\ Stepping(r)' = Stepping(r)
                        /\ Stepping(r) => batch' = batch
    /\ \A s \in Slots : \/ slot'[s].prefetch \in {slot[s].prefetch, None}
                        \/ slot'[s].prefetch.req # r

LEMMA SteadyKeeps ==
    ASSUME NEW r \in Live, Good(r), Steady(r), r \in Live'
    PROVE  Good(r)'
<1>1. Reach(r)' = Reach(r)
  BY DEF Steady, Reach
<1>2. Current(r)'
  BY DEF Good, Steady, Current, Pos
<1>3. Indexed(r)'
  BY DEF Good, Steady, Indexed
<1>4. ~Freed(r)' => Line(r)'
  BY <1>1 DEF Good, Steady, Line, Pos, Shared
<1>5. ~Freed(r)' => Prefetched(r)'
  BY DEF Good, Steady, Prefetched, Pos, Shared
<1>6. pc' \in Going /\ Stepping(r)' => StepRoom(r)'
  BY <1>1 DEF Good, Steady, StepRoom, Pos, Shared
<1>7. pc' \in Going /\ ~Stepping(r)' => Room(r)'
  BY <1>1 DEF Good, Steady, Room, Pos
<1>8. (shadow[r].tokens = History(shadow[r].gen, Len(shadow[r].tokens)))'
  BY DEF Good, Steady, History
<1> QED
  BY <1>2, <1>3, <1>4, <1>5, <1>6, <1>7, <1>8 DEF Good

\* No prefetch is new.
Kept == \A s \in Slots : slot'[s].prefetch \in {slot[s].prefetch, None}

\* No job is new either.
Undisturbed(r) ==
    /\ shadow'[r] = shadow[r] /\ idxGen'[r] = idxGen[r] /\ jobs' = jobs
    /\ AtHand(r)' = AtHand(r) /\ (AtHand(r) => job' = job)
    /\ Freed(r)' = Freed(r) /\ (werr # None => werr' # None)
    /\ pc' \in Going => /\ pc \in Going /\ computed'[r] = computed[r]
                        /\ Stepping(r)' = Stepping(r)
                        /\ Stepping(r) => batch' = batch

LEMMA SameRequest ==
    ASSUME NEW r \in Live, Good(r), Undisturbed(r), Kept, DOMAIN shadow = DOMAIN shadow'
    PROVE  r \in Live' /\ Good(r)'
<1>1. r \in Live'
  BY DEF Undisturbed, Live
<1>2. Owing(r)' = Owing(r)
  BY <1>1 DEF Undisturbed, Owing, Owes
<1>3. Steady(r)
  BY <1>2 DEF Undisturbed, Steady, Kept
<1> QED
  BY <1>1, <1>3, SteadyKeeps

-----------------------------------------------------------------------------
(* The actions that do not touch what is under way.                        *)

\* Slots keep their fields and get no new prefetch.
SlotsKept ==
    /\ DOMAIN slot' = Slots
    /\ \A s \in Slots : DOMAIN slot'[s] = DOMAIN FreeSlot
    /\ Kept

LEMMA KeptSlots == ASSUME Slotted, SlotsKept, nextGen' = nextGen PROVE Slotted'
  BY DEF Slotted, SlotsKept, Kept, FreeSlot

LEMMA ResetFields ==
    \A x : DOMAIN Reset(x) = DOMAIN FreeSlot /\ Reset(x).prefetch = None
  BY DEF Reset, FreeSlot

LEMMA ReapedFields ==
    ASSUME Slotted
    PROVE  /\ DOMAIN Reaped = Slots
           /\ \A s \in Slots : /\ DOMAIN Reaped[s] = DOMAIN FreeSlot
                               /\ Reaped[s].prefetch \in {slot[s].prefetch, None}
  BY ResetFields DEF Slotted, Reaped

\* The worker starts or ends no job before its tokens are in the shadow.
SameHand ==
    \/ wpc' = wpc /\ job' = job /\ include' = include
    \/ wpc # "append" /\ wpc' # "append"

SameLine == shadow' = shadow /\ nextGen' = nextGen /\ idxGen' = idxGen /\ computed' = computed
            /\ jobs' = jobs /\ batch' = batch /\ nextSeq' = nextSeq

SameFreed == DOMAIN removing' = DOMAIN removing /\ \A r : Freed(r)' = Freed(r)

Reported == IsSeq(results') /\ \A i \in DOMAIN results' : results'[i].type \in Kinds

Onward ==
    \/ pc' = pc
    \/ pc \in InStep /\ pc' \in InStep
    \/ pc # "remove" /\ pc' \notin Going

LEMMA QuietKeeps ==
    ASSUME IInv, SlotsKept, SameLine, SameHand, SameFreed, Reported, Onward,
           werr # None => werr' # None
    PROVE  IInv'
<1>1. Types'
  BY DEF IInv, Types, SameLine, SameHand, Reported, IsSeq, IsJob, IsBatch, Live
<1>2. Slotted'
  BY KeptSlots DEF IInv, SameLine
<1>3. Batched'
  BY DEF IInv, Batched, SameLine, SameFreed, Onward, Live, InStep, Going
<1>4. ASSUME NEW r \in Live PROVE Undisturbed(r)
  <2>1. AtHand(r)' = AtHand(r) /\ (AtHand(r) => job' = job)
    BY DEF AtHand, SameHand, Owes, Live, SameLine
  <2>2. pc' \in Going => pc \in Going /\ (pc' \in InStep <=> pc \in InStep)
    BY DEF Onward, Going, InStep
  <2>3. Stepping(r)' = Stepping(r) \/ pc' \notin Going
    BY <2>2 DEF Stepping, SameLine
  <2> QED
    BY <2>1, <2>2, <2>3 DEF Undisturbed, SameLine, SameFreed
<1>5. Live' = Live
  BY DEF Live, SameLine
<1>6. \A r \in Live : Good(r)'
  BY <1>4, SameRequest DEF IInv, SlotsKept, SameLine
<1> QED
  BY <1>1, <1>2, <1>3, <1>5, <1>6 DEF IInv

\* What most of these actions leave alone.
LEMMA SameReports == ASSUME IInv, results' = results PROVE Reported
  BY DEF IInv, Types, Reported

LEMMA SameSlots == ASSUME Slotted, slot' = slot PROVE SlotsKept
  BY DEF Slotted, SlotsKept, Kept

LEMMA WerrKept ==
    /\ None \notin {"shadow", "corrupt", "read", "message"}
    /\ \A why : werr # None => Recorded(why) # None
    /\ \A why \in {"shadow", "corrupt", "read", "message"} : Recorded(why) # None
  BY NoneAssumption DEF Recorded

LEMMA DeviceKeeps ==
    ASSUME IInv,
           Await \/ CopyRows \/ Forward \/ ConsumerDone \/ Sampled \/ Shutdown \/ JoinWorker
           \/ ChildTakes \/ (\E s \in Slots : Land(s)) \/ UNCHANGED vars
    PROVE  IInv'
<1>1. SameLine /\ SameHand /\ slot' = slot /\ removing' = removing /\ results' = results
      /\ werr' = werr
  BY DEF Await, CopyRows, Forward, ConsumerDone, Sampled, Shutdown, JoinWorker, ChildTakes, Land,
         vars, tokens, sched, model, conn, worker, child, device, errors, SameLine, SameHand
<1>2. Onward
  BY DEF Await, CopyRows, Forward, ConsumerDone, Sampled, Shutdown, JoinWorker, ChildTakes, Land,
         vars, model, Onward, Going, InStep
<1> QED
  BY <1>1, <1>2, QuietKeeps, SameReports, SameSlots DEF IInv, SameFreed, Freed

LEMMA ReportAppend ==
    ASSUME IInv, NEW kind \in Kinds, NEW c, results' = Append(results, Message(kind, c))
    PROVE  Reported
<1>1. IsSeq(results) /\ \A i \in DOMAIN results : results[i].type \in Kinds
  BY DEF IInv, Types
<1>2. Message(kind, c).type = kind
  BY DEF Message
<1> HIDE DEF Message
<1>3. /\ IsSeq(results') /\ DOMAIN results' = 1..(Len(results) + 1) /\ Len(results) \in Nat
      /\ DOMAIN results = 1..Len(results)
      /\ \A i \in 1..Len(results) : results'[i] = results[i]
      /\ results'[Len(results) + 1] = Message(kind, c)
  BY <1>1, SeqAppend
<1>4. \A i \in DOMAIN results' : i \in DOMAIN results \/ i = Len(results) + 1
  BY <1>3
<1> QED
  BY <1>1, <1>2, <1>3, <1>4 DEF Reported

LEMMA ChildKeeps == ASSUME IInv, ChildReads \/ ChildLands PROVE IInv'
<1>1. SameLine /\ SameHand /\ slot' = slot /\ removing' = removing /\ werr' = werr /\ Onward
  BY DEF ChildReads, ChildLands, tokens, sched, model, conn, worker, child, device, errors,
         SameLine, SameHand, Onward
<1>2. \E kind \in Kinds : \E c : results' = Append(results, Message(kind, c))
  BY DEF ChildReads, ChildLands, Kinds
<1>3. Reported
  BY <1>2, ReportAppend
<1> QED
  BY <1>1, <1>3, QuietKeeps, SameSlots DEF IInv, SameFreed, Freed

LEMMA HandledFields ==
    ASSUME NEW x, DOMAIN x = DOMAIN FreeSlot, NEW kind \in Kinds
    PROVE  DOMAIN Handled(x, kind) = DOMAIN FreeSlot
           /\ Handled(x, kind).prefetch \in {x.prefetch, None}
<1>1. CASE kind = "submitted"
  BY <1>1 DEF Handled, FreeSlot
<1>2. CASE kind = "completed"
  BY <1>2, ResetFields DEF Handled, FreeSlot
<1>3. CASE kind = "error"
  BY <1>3 DEF Handled, FreeSlot
<1> QED
  BY <1>1, <1>2, <1>3 DEF Kinds

LEMMA HandleResultKeeps == ASSUME IInv, HandleResult PROVE IInv'
<1>1. SameLine /\ SameHand /\ removing' = removing /\ Onward
  BY DEF HandleResult, tokens, sched, model, worker, SameLine, SameHand, Onward
<1>2. results # <<>> /\ results' = Tail(results) /\ IsSeq(results)
      /\ \A i \in DOMAIN results : results[i].type \in Kinds
  BY DEF HandleResult, IInv, Types
<1>3. Reported /\ Head(results).type \in Kinds
  <2>1. /\ IsSeq(results') /\ Len(results) \in Nat \ {0} /\ DOMAIN results = 1..Len(results)
        /\ DOMAIN results' = 1..(Len(results) - 1) /\ Head(results) = results[1]
        /\ \A i \in 1..(Len(results) - 1) : results'[i] = results[i + 1]
    BY <1>2, SeqTail
  <2>2. 1 \in DOMAIN results /\ \A i \in DOMAIN results' : i + 1 \in DOMAIN results
    BY <2>1
  <2> QED
    BY <1>2, <2>1, <2>2 DEF Reported
<1>4. werr # None => werr' # None
  BY WerrKept DEF HandleResult
<1>5. SlotsKept
  <2>1. DOMAIN slot = Slots /\ \A s \in Slots : DOMAIN slot[s] = DOMAIN FreeSlot
    BY DEF IInv, Slotted
  <2>2. CASE slot' = slot
    BY <2>1, <2>2 DEF SlotsKept, Kept
  <2>3. CASE slot' = [slot EXCEPT ![Head(results).slot] =
                          Handled(slot[Head(results).slot], Head(results).type)]
    BY <1>3, <2>1, <2>3, HandledFields DEF SlotsKept, Kept
  <2> QED
    BY <2>2, <2>3 DEF HandleResult
<1> QED
  BY <1>1, <1>3, <1>4, <1>5, QuietKeeps DEF IInv, SameFreed, Freed

\* A slot changes its state.
StateSet ==
    \E t, st : \/ slot' = [slot EXCEPT ![t].state = st]
               \/ slot' = [slot EXCEPT ![t].state = st, ![t].submitted = TRUE]

LEMMA StateSlots == ASSUME Slotted, StateSet \/ slot' = slot PROVE SlotsKept
<1>1. DOMAIN slot = Slots /\ \A s \in Slots : DOMAIN slot[s] = DOMAIN FreeSlot
  BY DEF Slotted
<1>2. ASSUME NEW t, NEW st, slot' = [slot EXCEPT ![t].state = st] PROVE SlotsKept
  BY <1>1, <1>2 DEF SlotsKept, Kept, FreeSlot
<1>3. ASSUME NEW t, NEW st, slot' = [slot EXCEPT ![t].state = st, ![t].submitted = TRUE]
      PROVE  SlotsKept
  BY <1>1, <1>3 DEF SlotsKept, Kept, FreeSlot
<1> QED
  BY <1>2, <1>3, SameSlots DEF StateSet

\* From the read on, the worker touches the state and the event of its slot only.
WorkerActs == \/ WorkerChecks \/ WorkerSends \/ WorkerReads \/ WorkerReadFails
              \/ WorkerReports \/ WorkerSignals

LEMMA WorkerActsKeep ==
    ASSUME Slotted, WorkerActs
    PROVE  /\ SameLine /\ removing' = removing /\ results' = results /\ pc' = pc
           /\ wpc # "append" /\ wpc' # "append"
           /\ werr # None => werr' # None
           /\ SlotsKept
<1>1. DOMAIN slot = Slots /\ \A s \in Slots : DOMAIN slot[s] = DOMAIN FreeSlot
  BY DEF Slotted
<1>2. CASE WorkerChecks \/ WorkerReadFails
  BY <1>2, SameSlots DEF WorkerChecks, WorkerReadFails, ReadBreaks, tokens, sched, model, child,
                         errors, SameLine
<1>3. CASE WorkerSends
  BY <1>3, SameSlots DEF WorkerSends, WorkerDone, tokens, sched, model, conn, errors, SameLine
<1>4. CASE WorkerReads
  <2>1. StateSet \/ slot' = slot
    BY <1>4 DEF WorkerReads, ReadBreaks, StateSet
  <2>2. SlotsKept
    BY <2>1, StateSlots
  <2> QED
    BY <1>4, <2>2 DEF WorkerReads, ReadBreaks, tokens, sched, model, child, errors, SameLine
<1>5. CASE WorkerReports
  <2>1. StateSet \/ slot' = slot
    BY <1>5 DEF WorkerReports, StateSet
  <2>2. SlotsKept
    BY <2>1, StateSlots
  <2> QED
    BY <1>5, <2>2 DEF WorkerReports, tokens, sched, model, child, errors, SameLine
<1>6. CASE WorkerSignals
  <2>1. SlotsKept
    BY <1>1, <1>6 DEF WorkerSignals, SlotsKept, Kept, FreeSlot
  <2>2. wpc' # "append" /\ (werr # None => werr' # None)
    BY <1>6, WerrKept DEF WorkerSignals, WorkerDone, WorkerFails
  <2> QED
    BY <1>6, <2>1, <2>2 DEF WorkerSignals, tokens, sched, model, child, SameLine
<1> QED
  BY <1>2, <1>3, <1>4, <1>5, <1>6 DEF WorkerActs

LEMMA WorkerKeeps ==
    ASSUME IInv, WorkerPlans \/ WorkerCancels \/ WorkerProduces \/ WorkerActs
    PROVE  IInv'
<1>1. SameLine /\ removing' = removing /\ results' = results /\ pc' = pc
  BY WorkerActsKeep DEF IInv, WorkerPlans, WorkerCancels, WorkerProduces,
         tokens, sched, model, conn, child, SameLine
<1>2. wpc # "append" /\ wpc' # "append"
  <2>1. CASE WorkerPlans
    BY <2>1 DEF WorkerPlans, WorkerFails
  <2>2. CASE WorkerCancels
    BY <2>2 DEF WorkerCancels, WorkerFails, WorkerDone
  <2>3. CASE WorkerProduces
    BY <2>3 DEF WorkerProduces, WorkerFails, WorkerDone
  <2>4. CASE WorkerActs
    BY <2>4, WorkerActsKeep DEF IInv
  <2> QED
    BY <2>1, <2>2, <2>3, <2>4
<1>3. werr # None => werr' # None
  BY WerrKept, WorkerActsKeep DEF IInv, WorkerPlans, WorkerCancels, WorkerProduces, WorkerFails,
                                  errors
<1>4. SlotsKept
  <2>1. Slotted
    BY DEF IInv
  <2>2. CASE WorkerPlans
    BY <2>1, <2>2, SameSlots DEF WorkerPlans, conn
  <2>3. CASE WorkerCancels
    BY <2>1, <2>3, ResetFields DEF WorkerCancels, Slotted, SlotsKept, Kept
  <2>4. CASE WorkerProduces
    BY <2>1, <2>4, StateSlots DEF WorkerProduces, StateSet
  <2>5. CASE WorkerActs
    BY <2>1, <2>5, WorkerActsKeep
  <2> QED
    BY <2>2, <2>3, <2>4, <2>5
<1> QED
  BY <1>1, <1>2, <1>3, <1>4, QuietKeeps, SameReports DEF IInv, SameHand, SameFreed, Freed, Onward

LEMMA ProducerKeeps ==
    ASSUME IInv, ProducerTakes \/ ProducerReads \/ ProducerReadFails
    PROVE  IInv'
<1>1. /\ SameLine /\ SameHand /\ removing' = removing /\ results' = results /\ pc' = pc
      /\ werr' = werr
  BY DEF ProducerTakes, ProducerReads, ProducerReadFails, tokens, sched, model, worker, child,
         errors, SameLine, SameHand
<1>2. StateSet
  BY DEF ProducerTakes, ProducerReads, ProducerReadFails, StateSet
<1> QED
  BY <1>1, <1>2, StateSlots, QuietKeeps, SameReports DEF IInv, SameFreed, Freed, Onward

LEMMA ModelKeeps ==
    ASSUME IInv, Acquire \/ Submitted \/ Expire \/ Launch \/ CloseConnector
    PROVE  IInv'
<1>1. /\ SameLine /\ SameHand /\ removing' = removing /\ results' = results /\ werr' = werr
  BY DEF Acquire, Submitted, Expire, Launch, CloseConnector, tokens, sched, conn, worker, child,
         SameLine, SameHand
<1>2. Onward
  BY DEF Acquire, AcquireSlot, Submitted, Expire, Launch, CloseConnector, Raise, Onward, Going,
         InStep
<1>3. SlotsKept
  <2>1. Slotted
    BY DEF IInv
  <2>2. CASE Acquire
    BY <2>1, <2>2, StateSlots DEF Acquire, AcquireSlot, StateSet
  <2>3. CASE Submitted \/ Expire \/ Launch
    BY <2>1, <2>3, StateSlots DEF Submitted, Expire, Launch, conn, StateSet
  <2>4. CASE CloseConnector
    BY <2>1, <2>4, ResetFields DEF CloseConnector, Slotted, SlotsKept, Kept
  <2> QED
    BY <2>2, <2>3, <2>4
<1> QED
  BY <1>1, <1>2, <1>3, QuietKeeps, SameReports DEF IInv, SameFreed, Freed

LEMMA DiscardKeeps == ASSUME IInv, NEW r \in Requests, Discard(r) PROVE IInv'
<1>1. /\ SameLine /\ SameHand /\ results' = results /\ werr' = werr /\ pc' = pc
      /\ removing' = [removing EXCEPT ![r] = "forget"]
      /\ r \in DOMAIN removing /\ removing[r] = "discard"
      /\ slot' = [s \in Slots |-> Discarded(Reaped[s], s, r)]
  BY DEF Discard, Removing, tokens, sched, worker, child, device, errors, SameLine, SameHand
<1>2. \A x, s : DOMAIN x = DOMAIN FreeSlot =>
         /\ DOMAIN Discarded(x, s, r) = DOMAIN FreeSlot
         /\ Discarded(x, s, r).prefetch \in {x.prefetch, None}
  BY ResetFields DEF Discarded, FreeSlot
<1>3. SlotsKept
  BY <1>1, <1>2, ReapedFields DEF IInv, SlotsKept, Kept
<1>4. SameFreed
  BY <1>1 DEF SameFreed, Freed
<1> QED
  BY <1>1, <1>3, <1>4, QuietKeeps, SameReports DEF IInv, Onward

-----------------------------------------------------------------------------
(* Requests are scheduled and removed.                                     *)

\* The types, when the shadow, the jobs and the batch change.
LEMMA TypesFrom ==
    ASSUME IInv, DOMAIN shadow' = Requests, nextGen' \in Nat, nextGen' >= nextGen,
           nextSeq' \in Nat,
           \A r \in Live' : /\ DOMAIN shadow'[r] = {"gen", "tokens"}
                            /\ shadow'[r].gen \in Nat /\ shadow'[r].gen < nextGen'
                            /\ Len(shadow'[r].tokens) \in Nat,
           idxGen' \in [Requests -> Nat], computed' \in [Requests -> Nat],
           IsSeq(jobs'),
           \A i \in DOMAIN jobs' : IsJob(jobs'[i], nextGen'),
           wpc' = "append" => IsJob(job', nextGen') /\ include' \subseteq job'.need,
           IsBatch(batch'), results' = results
    PROVE  Types'
<1>1. /\ IsBatch(batch)' /\ IsSeq(jobs)' /\ (\A i \in DOMAIN jobs : IsJob(jobs[i], nextGen))'
      /\ wpc' = "append" => IsJob(job, nextGen)' /\ include' \subseteq job'.need
  BY DEF IsBatch, IsSeq, IsJob
<1> QED
  BY <1>1 DEF IInv, Types, IsSeq

LEMMA ScheduleKeeps ==
    ASSUME IInv, NEW b \in SUBSET Requests, NEW gone \in SUBSET Requests, Schedule(b, gone)
    PROVE  IInv'
<1>1. /\ pc = "idle" /\ werr' = werr /\ slot' = slot /\ SameHand /\ results' = results
      /\ shadow' = shadow /\ nextGen' = nextGen /\ idxGen' = idxGen /\ computed' = computed
      /\ jobs' = jobs /\ nextSeq' = nextSeq /\ wpc' = wpc /\ job' = job /\ include' = include
  BY DEF Schedule, Raise, sched, conn, worker, child, SameHand
<1>2. DOMAIN removing = {}
  BY <1>1 DEF IInv, Batched
<1>3. CASE werr # None
  <2>1. SameLine /\ removing' = removing /\ Onward
    BY <1>1, <1>3 DEF Schedule, Raise, SameLine, Onward, Going, InStep
  <2> QED
    BY <1>1, <2>1, QuietKeeps, SameReports, SameSlots DEF IInv, SameFreed, Freed
<1>4. CASE werr = None
  <2>1. /\ pc' = "remove" /\ b \cap gone = {} /\ removing' = [r \in gone |-> "free"]
        /\ batch' = [r \in b |->
               [gen |-> IF r \in Live THEN shadow[r].gen ELSE 0,
                start |-> IF r \in Live THEN computed[r] ELSE 0,
                len |-> IF r \in Live THEN 1 ELSE PromptLen]]
    BY <1>4 DEF Schedule
  <2>2. Types /\ PromptLen \in Nat \ {0} /\ Live \subseteq Requests
    BY SizeAssumption DEF IInv, Live
  <2>3. IsBatch(batch')
    BY <2>1, <2>2 DEF IsBatch, Types
  <2>4. Types'
    BY <1>1, <2>2, <2>3, TypesFrom DEF Types, Live, IsJob, IsBatch
  <2>5. Slotted'
    BY <1>1, KeptSlots, SameSlots DEF IInv
  <2>6. Live' = Live
    BY <1>1 DEF Live
  <2>7. Batched'
    BY <1>1, <2>1, <2>6 DEF Batched, InStep
  <2>8. ASSUME NEW r \in Live PROVE Undisturbed(r)
    <3>1. /\ Freed(r) = FALSE /\ Freed(r)' = FALSE
          /\ Stepping(r) = FALSE /\ Stepping(r)' = FALSE
      BY <1>1, <1>2, <2>1 DEF Freed, Stepping, InStep
    <3>2. AtHand(r)' = AtHand(r)
      BY <1>1 DEF AtHand, Owes, Live
    <3> QED
      BY <1>1, <3>1, <3>2 DEF Undisturbed, Going
  <2>9. Kept
    BY <1>1 DEF Kept
  <2>10. \A r \in Live : Good(r)'
    BY <1>1, <2>8, <2>9, SameRequest DEF IInv
  <2> QED
    BY <2>4, <2>5, <2>6, <2>7, <2>10 DEF IInv
<1> QED
  BY <1>3, <1>4

LEMMA FreeIndexKeeps == ASSUME IInv, NEW r \in Requests, FreeIndex(r) PROVE IInv'
<1>1. /\ pc = "remove" /\ pc' = pc /\ r \in DOMAIN removing /\ removing[r] = "free"
      /\ removing' = [removing EXCEPT ![r] = "discard"]
      /\ idxGen' = [idxGen EXCEPT ![r] = @ + 1]
      /\ shadow' = shadow /\ nextGen' = nextGen /\ computed' = computed /\ jobs' = jobs
      /\ batch' = batch /\ nextSeq' = nextSeq /\ wpc' = wpc /\ job' = job /\ include' = include
      /\ slot' = slot /\ results' = results /\ werr' = werr
  BY DEF FreeIndex, Removing, sched, conn, worker, child, errors
<1>2. Types /\ Live' = Live /\ idxGen[r] \in Nat /\ DOMAIN idxGen = Requests
  BY <1>1 DEF IInv, Types, Live
<1>3. Types'
  BY <1>1, <1>2, TypesFrom DEF Types, Live
<1>4. Slotted'
  BY <1>1, KeptSlots, SameSlots DEF IInv
<1>5. Batched'
  BY <1>1, <1>2 DEF IInv, Batched, InStep
<1>6. \A q : AtHand(q)' = AtHand(q) /\ Owing(q)' = Owing(q)
  BY <1>1 DEF AtHand, Owing, Owes, Live
<1>7. ASSUME NEW q \in Live, q # r PROVE Good(q)'
  <2>1. Undisturbed(q)
    BY <1>1, <1>2, <1>6, <1>7 DEF Undisturbed, Freed, Stepping, Going, Live
  <2> QED
    BY <1>1, <1>7, <2>1, SameRequest DEF IInv, Kept
<1>8. ASSUME r \in Live PROVE Good(r)'
  <2>1. Good(r) /\ Freed(r) = FALSE /\ Freed(r)' = TRUE /\ Stepping(r) = FALSE /\ Stepping(r)' = FALSE
    BY <1>1, <1>8 DEF IInv, Freed, Stepping, InStep
  <2>2. Reach(r)' = Reach(r)
    BY <1>1, <1>6 DEF Reach
  <2>3. Indexed(r)'
    BY <1>1, <1>2, <1>6, <2>1 DEF Good, Indexed
  <2>4. Current(r)'
    BY <1>1, <1>6, <2>1 DEF Good, Current, Pos
  <2>5. Room(r)'
    BY <1>1, <1>6, <2>1, <2>2 DEF Good, Room, Pos, Going
  <2>6. (shadow[r].tokens = History(shadow[r].gen, Len(shadow[r].tokens)))'
    BY <1>1, <2>1 DEF Good, History
  <2> QED
    BY <2>1, <2>3, <2>4, <2>5, <2>6 DEF Good
<1> QED
  BY <1>2, <1>3, <1>4, <1>5, <1>7, <1>8 DEF IInv

LEMMA ForgetKeeps == ASSUME IInv, NEW r \in Requests, Forget(r) PROVE IInv'
<1>1. /\ pc = "remove" /\ pc' = pc /\ r \in DOMAIN removing
      /\ removing' = [q \in DOMAIN removing \ {r} |-> removing[q]]
      /\ shadow' = [shadow EXCEPT ![r] = None] /\ computed' = [computed EXCEPT ![r] = 0]
      /\ nextGen' = nextGen /\ idxGen' = idxGen /\ jobs' = jobs
      /\ batch' = batch /\ nextSeq' = nextSeq /\ wpc' = wpc /\ job' = job /\ include' = include
      /\ slot' = slot /\ results' = results /\ werr' = werr
  BY DEF Forget, Removing, Restrict, conn, worker, child, device, errors
<1>2. Types /\ DOMAIN shadow = Requests /\ computed \in [Requests -> Nat]
  BY DEF IInv, Types
<1>3. Live' = Live \ {r} /\ DOMAIN shadow' = Requests
  BY <1>1, <1>2 DEF Live
<1>4. \A q \in Live' : shadow'[q] = shadow[q] /\ computed'[q] = computed[q] /\ q # r /\ q \in Live
  BY <1>1, <1>2, <1>3 DEF Live
<1>5. Types'
  BY <1>1, <1>2, <1>3, <1>4, TypesFrom DEF Types
<1>6. Slotted'
  BY <1>1, KeptSlots, SameSlots DEF IInv
<1>7. Batched'
  <2>1. ASSUME NEW q \in DOMAIN batch
        PROVE  /\ q # r /\ q \notin DOMAIN removing' /\ (q \in Live' <=> q \in Live)
               /\ computed'[q] = computed[q]
    BY <1>1, <1>2, <1>3 DEF IInv, Batched, Types, IsBatch
  <2> QED
    BY <1>1, <2>1 DEF IInv, Batched, InStep
<1>8. ASSUME NEW q \in Live' PROVE Good(q)'
  <2>1. AtHand(q)' = AtHand(q) /\ Freed(q)' = Freed(q)
    BY <1>1, <1>4 DEF AtHand, Owes, Freed
  <2>2. Undisturbed(q)
    BY <1>1, <1>4, <2>1 DEF Undisturbed, Stepping, Going
  <2> QED
    BY <1>1, <1>2, <1>3, <1>4, <2>2, SameRequest DEF IInv, Kept
<1> QED
  BY <1>5, <1>6, <1>7, <1>8 DEF IInv

-----------------------------------------------------------------------------
(* A step is prepared.                                                     *)

\* A request that is new in the shadow.
LEMMA NewRequest ==
    ASSUME IInv, NEW r \in Requests, NEW g \in Nat, g >= nextGen,
           shadow'[r] = [gen |-> g, tokens |-> History(g, PromptLen)],
           jobs' = jobs, wpc' = wpc, job' = job, include' = include, Kept,
           DOMAIN removing' = {},
           pc' \in Going => /\ pc' \in InStep /\ r \in DOMAIN batch'
                            /\ Pos(batch', r) = PromptLen
    PROVE  Good(r)'
<1>1. PromptLen \in Nat /\ Len(History(g, PromptLen)) = PromptLen
  BY HistoryGrows, SizeAssumption
<1>2. ~AtHand(r)' /\ Owing(r)' = {}
  <2>1. wpc = "append" => \A q \in include : q \in job.need /\ job.rows[q].gen < nextGen
                                               /\ job.rows[q].gen \in Nat
    BY DEF IInv, Types, IsJob, IsBatch
  <2>2. \A i \in DOMAIN jobs : \A q \in jobs[i].need : /\ jobs[i].rows[q].gen < nextGen
                                                       /\ jobs[i].rows[q].gen \in Nat
    BY DEF IInv, Types, IsJob, IsBatch
  <2>3. nextGen \in Nat
    BY DEF IInv, Types
  <2>4. ~AtHand(r)'
    BY <2>1, <2>3 DEF AtHand, Owes
  <2>5. ASSUME NEW i \in DOMAIN jobs PROVE ~Owes(jobs[i], r)'
    BY <2>2, <2>3, <2>5 DEF Owes
  <2> QED
    BY <2>4, <2>5 DEF Owing
<1>3. Freed(r)' = FALSE /\ Reach(r)' = PromptLen
  BY <1>1, <1>2 DEF Freed, Reach
<1>4. (shadow[r].tokens = History(shadow[r].gen, Len(shadow[r].tokens)))'
  BY <1>1 DEF History
<1>5. Current(r)' /\ Indexed(r)' /\ Line(r)'
  BY <1>2 DEF Current, Indexed, Line
<1>6. Prefetched(r)'
  <2>1. ASSUME NEW s \in Slots, slot'[s].prefetch # None PROVE slot'[s].prefetch.gen # g
    <3>1. slot'[s].prefetch = slot[s].prefetch /\ slot[s].prefetch # None
      BY <2>1 DEF Kept
    <3> QED
      BY <3>1 DEF IInv, Slotted, Types
  <2> QED
    BY <2>1 DEF Prefetched
<1>7. pc' \in Going => Stepping(r)' /\ StepRoom(r)'
  BY <1>1, <1>2, <1>3 DEF Stepping, StepRoom, Pos
<1> QED
  BY <1>3, <1>4, <1>5, <1>6, <1>7 DEF Good

\* The reach of a request.
LEMMA ReachIs ==
    ASSUME NEW r, Len(shadow[r].tokens) \in Nat
    PROVE  /\ Len(shadow[r].tokens) <= Reach(r)
           /\ AtHand(r) => Reach(r) = Len(shadow[r].tokens) + 1
           /\ ~AtHand(r) => Reach(r) = Len(shadow[r].tokens)
<1>1. CASE AtHand(r)
  BY <1>1 DEF Reach
<1>2. CASE ~AtHand(r)
  BY <1>2 DEF Reach
<1> QED
  BY <1>1, <1>2

\* A known request goes on: the shadow has its last token, or the job that
\* brings it is its own.
LEMMA NextStep ==
    ASSUME IInv, pc = "remove", NEW r \in Live, r \in DOMAIN batch,
           computed[r] <= Len(shadow[r].tokens),
           \A i \in Owing(r) : ~Shared(jobs[i].rows, r),
           AtHand(r) => ~Shared(job.rows, r),
           shadow'[r] = shadow[r], idxGen' = idxGen, computed' = computed,
           jobs' = jobs, wpc' = wpc, job' = job, include' = include, werr' = werr, Kept,
           removing' = removing,
           pc' \in InStep, r \in DOMAIN batch', Pos(batch', r) = computed[r] + 1
    PROVE  Good(r)'
<1>1. /\ Good(r) /\ Freed(r) = FALSE /\ Freed(r)' = FALSE /\ Stepping(r) = FALSE
      /\ Stepping(r)' = TRUE /\ pc \in Going /\ Len(shadow[r].tokens) \in Nat
  BY DEF IInv, Batched, Freed, Stepping, InStep, Going, Types
<1>2. /\ Owing(r) \subseteq Nat /\ (\A i \in Owing(r) : Pos(jobs[i].rows, r) \in Nat)
      /\ (AtHand(r) => Pos(job.rows, r) \in Nat) /\ Reach(r) \in Nat /\ computed[r] \in Nat
  BY Positions DEF IInv
<1>3. MaxLen \in Nat
  BY SizeAssumption
<1>4. r \in Live' /\ AtHand(r)' = AtHand(r) /\ Owing(r)' = Owing(r) /\ Reach(r)' = Reach(r)
  <2>1. r \in Live'
    BY DEF Live, IInv, Types
  <2>2. AtHand(r)' = AtHand(r) /\ Owing(r)' = Owing(r)
    BY <2>1 DEF AtHand, Owing, Owes
  <2> QED
    BY <2>1, <2>2 DEF Reach
<1>5. Len(shadow[r].tokens) <= Reach(r)
  BY <1>1, ReachIs
<1>6. (shadow[r].tokens = History(shadow[r].gen, Len(shadow[r].tokens)))'
  BY <1>1 DEF Good, History
<1>7. Current(r)' /\ Indexed(r)' /\ Line(r)'
  BY <1>1, <1>4 DEF Good, Current, Indexed, Line, Pos, Shared
<1>8. Line(r) /\ Room(r) /\ Prefetched(r)
  BY <1>1 DEF Good
<1>9. Prefetched(r)'
  <2>1. ASSUME NEW s \in Slots, slot'[s].prefetch # None, slot'[s].prefetch.req = r,
               slot'[s].prefetch.gen = shadow[r].gen
        PROVE  /\ slot'[s].prefetch.start \in Nat /\ slot'[s].prefetch.start < Pos(batch', r)
    <3>1. slot'[s].prefetch = slot[s].prefetch
      BY <2>1 DEF Kept
    <3>2. slot[s].prefetch.start \in Nat /\ slot[s].prefetch.start <= computed[r]
      BY <1>1, <1>8, <2>1, <3>1 DEF Prefetched
    <3> QED
      BY <1>2, <3>1, <3>2
  <2> QED
    BY <1>1, <1>4, <2>1 DEF Prefetched, Shared, Pos
<1>10. StepRoom(r)'
  <2>1. \A i \in Owing(r) : Pos(jobs[i].rows, r) < Pos(batch', r)
    BY <1>2, <1>8 DEF Room
  <2>2. Reach(r) <= Pos(batch', r) /\ Pos(batch', r) <= Reach(r) + 1
    BY <1>1, <1>2, <1>5, <1>8 DEF Room
  <2>3. \/ werr # None \/ Pos(batch', r) + 1 >= MaxLen \/ Pos(batch', r) = Reach(r)
        \/ \E i \in Owing(r) : Pos(jobs[i].rows, r) = Reach(r)
    BY <1>1, <1>2, <1>3, <1>5, <1>8, <2>2 DEF Room
  <2> QED
    BY <1>4, <2>1, <2>2, <2>3 DEF StepRoom, Pos, Shared
<1> QED
  BY <1>1, <1>6, <1>7, <1>9, <1>10 DEF Good

\* With the token of the step before in the shadow nothing is owed.
LEMMA NothingOwed ==
    ASSUME IInv, pc = "remove", NEW r \in Live, r \in DOMAIN batch,
           computed[r] + 1 <= Len(shadow[r].tokens)
    PROVE  Owing(r) = {} /\ ~AtHand(r)
<1>1. /\ Good(r) /\ ~Freed(r) /\ ~Stepping(r) /\ pc \in Going /\ Len(shadow[r].tokens) \in Nat
  BY DEF IInv, Batched, Freed, Stepping, InStep, Going, Types
<1>2. Line(r) /\ Room(r)
  BY <1>1 DEF Good
<1>3. /\ \A i \in Owing(r) : Pos(jobs[i].rows, r) \in Nat
      /\ Reach(r) \in Nat /\ computed[r] \in Nat
  BY Positions DEF IInv
<1>4. Len(shadow[r].tokens) <= Reach(r) /\ (AtHand(r) => Reach(r) = Len(shadow[r].tokens) + 1)
  BY <1>1, ReachIs
<1>5. ~AtHand(r)
  BY <1>1, <1>2, <1>3, <1>4 DEF Room
<1>6. \A i \in Owing(r) : FALSE
  BY <1>1, <1>2, <1>3, <1>4 DEF Room, Line
<1> QED
  BY <1>5, <1>6

\* With a prefetch for the position no other request has a part in what is owed.
LEMMA OwnJobs ==
    ASSUME IInv, pc = "remove", NEW r \in Live, r \in DOMAIN batch, NEW s \in Slots,
           slot[s].prefetch # None, slot[s].prefetch.req = r,
           slot[s].prefetch.gen = shadow[r].gen, slot[s].prefetch.start = computed[r]
    PROVE  /\ \A i \in Owing(r) : ~Shared(jobs[i].rows, r)
           /\ AtHand(r) => ~Shared(job.rows, r)
<1>1. /\ Good(r) /\ ~Freed(r) /\ ~Stepping(r) /\ pc \in Going /\ Len(shadow[r].tokens) \in Nat
  BY DEF IInv, Batched, Freed, Stepping, InStep, Going, Types
<1>2. Prefetched(r) /\ Room(r) /\ Current(r)
  BY <1>1 DEF Good
<1>3. /\ \A i \in Owing(r) : Pos(jobs[i].rows, r) \in Nat
      /\ Reach(r) \in Nat /\ computed[r] \in Nat
  BY Positions DEF IInv
<1>4. ASSUME NEW i \in Owing(r), Shared(jobs[i].rows, r) PROVE FALSE
  <2>1. computed[r] < Pos(jobs[i].rows, r)
    BY <1>2, <1>4 DEF Prefetched
  <2>2. Pos(jobs[i].rows, r) <= computed[r]
    BY <1>2 DEF Room
  <2> QED
    BY <1>3, <2>1, <2>2
<1>5. ASSUME AtHand(r), Shared(job.rows, r) PROVE FALSE
  <2>1. computed[r] < Pos(job.rows, r)
    BY <1>2, <1>5 DEF Prefetched
  <2>2. Pos(job.rows, r) = Len(shadow[r].tokens) /\ Reach(r) = Len(shadow[r].tokens) + 1
    BY <1>2, <1>5 DEF Current, Reach
  <2>3. Reach(r) <= computed[r] + 1
    BY <1>2 DEF Room
  <2> QED
    BY <1>1, <1>3, <2>1, <2>2, <2>3
<1> QED
  BY <1>4, <1>5

LEMMA LessRel == \A m, n \in Nat : <<m, n>> \in OpToRel(<, Nat) <=> m < n
  BY ZenonT(30) DEF OpToRel

\* The oldest prefetch is one of the candidates.
LEMMA OldestIs ==
    ASSUME Slotted, Candidates # {}
    PROVE  \E s \in Slots : /\ slot[s].prefetch = Oldest /\ slot[s].prefetch # None
                            /\ ~slot[s].discard
<1> DEFINE Seqs == {p.seq : p \in Candidates}
<1>1. \A p \in Candidates : /\ p.seq \in Nat
                             /\ \E s \in Slots : slot[s].prefetch = p /\ p # None /\ ~slot[s].discard
  BY DEF Slotted, Candidates
<1>2. Seqs \subseteq Nat /\ Seqs # {}
  BY <1>1
<1> HIDE DEF Seqs
<1>3. PICK n \in Seqs : \A m \in Seqs : ~(<<m, n>> \in OpToRel(<, Nat))
  BY <1>2, NatLessThanWellFounded, WFMin, Zenon
<1>4. \A m \in Seqs : n <= m
  <2>1. \A m \in Seqs : ~(m < n)
    BY <1>2, <1>3, LessRel, Zenon
  <2> QED
    BY <1>2, <2>1
<1> USE DEF Seqs
<1>5. \E p \in Candidates : \A q \in Candidates : p.seq <= q.seq
  BY <1>4
<1>6. Oldest \in Candidates
  BY <1>5 DEF Oldest
<1> QED
  BY <1>1, <1>6


\* The generations of new requests are new and different from the next one.
LEMMA NewGens ==
    ASSUME Types
    PROVE  /\ Cardinality(New) \in Nat /\ New \subseteq Requests
           /\ \A r \in New : /\ Cardinality({q \in New : q < r}) \in Nat
                             /\ Cardinality({q \in New : q < r}) < Cardinality(New)
<1>1. New \subseteq Requests
  BY DEF New, Types, IsBatch
<1>2. IsFiniteSet(New) /\ Cardinality(New) \in Nat
  BY <1>1, SetAssumption, FS_Subset, FS_CardinalityType
<1>3. ASSUME NEW r \in New
      PROVE  /\ Cardinality({q \in New : q < r}) \in Nat
             /\ Cardinality({q \in New : q < r}) < Cardinality(New)
  <2> DEFINE S == New \ {r}
  <2> DEFINE T == {q \in New : q < r}
  <2>1. IsFiniteSet(S) /\ Cardinality(S) = Cardinality(New) - 1
    BY <1>2, FS_RemoveElement
  <2>2. T \subseteq S
    BY <1>1, SetAssumption
  <2> HIDE DEF S, T
  <2>3. IsFiniteSet(T) /\ Cardinality(T) <= Cardinality(S)
    BY <2>1, <2>2, FS_Subset
  <2>4. Cardinality(T) \in Nat
    BY <2>3, FS_CardinalityType
  <2>5. Cardinality(T) < Cardinality(New)
    BY <1>2, <2>1, <2>3, <2>4
  <2> QED
    BY <2>4, <2>5 DEF T
<1> QED
  BY <1>1, <1>2, <1>3

\* A free slot is given to a ticket.
Taken == \E s, t, e, d, rw :
    slot' = [Reaped EXCEPT ![s] = [FreeSlot EXCEPT !.state = "queued", !.ticket = t,
                                                   !.submitted = e, !.done = d, !.rows = rw]]

LEMMA TakenSlots == ASSUME Slotted, Taken PROVE SlotsKept
<1>1. PICK s, t, e, d, rw :
         slot' = [Reaped EXCEPT ![s] = [FreeSlot EXCEPT !.state = "queued", !.ticket = t,
                                                        !.submitted = e, !.done = d, !.rows = rw]]
  BY DEF Taken
<1> DEFINE x == [FreeSlot EXCEPT !.state = "queued", !.ticket = t, !.submitted = e, !.done = d,
                                 !.rows = rw]
<1>2. DOMAIN x = DOMAIN FreeSlot /\ x.prefetch = None
  BY DEF FreeSlot
<1>3. slot' = [Reaped EXCEPT ![s] = x]
  BY <1>1
<1> HIDE DEF x
<1>4. DOMAIN Reaped = Slots /\ \A u \in Slots : /\ DOMAIN Reaped[u] = DOMAIN FreeSlot
                                                /\ Reaped[u].prefetch \in {slot[u].prefetch, None}
  BY ReapedFields
<1>5. DOMAIN slot' = Slots /\ \A u \in Slots : slot'[u] = IF u = s THEN x ELSE Reaped[u]
  BY <1>3, <1>4
<1> QED
  BY <1>2, <1>4, <1>5 DEF SlotsKept, Kept

LEMMA ReapedSlots == ASSUME Slotted, slot' = Reaped PROVE SlotsKept
  BY ReapedFields DEF SlotsKept, Kept

\* What preparing a step comes to.
Planned(b, sh) == \A r \in DOMAIN b : ~(b[r].start + b[r].len > Len(sh[r].tokens))
Found(b) ==
    /\ Alone(b) /\ Candidates # {}
    /\ Oldest.req = CHOOSE r \in DOMAIN b : TRUE
    /\ Oldest.gen = b[Oldest.req].gen /\ Oldest.start = b[Oldest.req].start
Ready(b, sh) ==
    /\ \A r \in DOMAIN b : ~(b[r].start > Len(sh[r].tokens))
    /\ Planned(b, sh) \/ Found(b)

LEMMA PreparedIs ==
    ASSUME IInv, Prepare
    PROVE  /\ pc = "remove" /\ DOMAIN removing = {} /\ removing' = removing
           /\ shadow' = AddedShadow /\ nextGen' = nextGen + Cardinality(New)
           /\ batch' = [r \in DOMAIN batch |-> [batch[r] EXCEPT !.gen = shadow'[r].gen]]
           /\ idxGen' = idxGen /\ computed' = computed /\ jobs' = jobs /\ wpc' = wpc
           /\ job' = job /\ include' = include /\ nextSeq' = nextSeq /\ results' = results
           /\ werr' = werr /\ SlotsKept
           /\ \/ pc' = "failed"
              \/ pc' = "idle" /\ DOMAIN batch = {}
              \/ pc' = "acquire" /\ Ready(batch', shadow')
<1>1. /\ pc = "remove" /\ DOMAIN removing = {} /\ removing' = removing
      /\ shadow' = AddedShadow /\ nextGen' = nextGen + Cardinality(New)
      /\ batch' = [r \in DOMAIN batch |-> [batch[r] EXCEPT !.gen = shadow'[r].gen]]
      /\ idxGen' = idxGen /\ computed' = computed /\ jobs' = jobs /\ wpc' = wpc
      /\ job' = job /\ include' = include /\ nextSeq' = nextSeq /\ results' = results
      /\ werr' = werr
  BY DEF Prepare, sched, worker, child
<1> DEFINE alone == CHOOSE r \in DOMAIN batch' : TRUE
<1>2. \/ DOMAIN batch' = {} /\ pc' = "idle" /\ slot' = slot
      \/ pc' = "failed" /\ slot' = slot
      \/ ~(\E r \in DOMAIN batch' : batch'[r].start > Len(shadow'[r].tokens))
         /\ ~Alone(batch') /\ Issue(shadow', batch')
      \/ ~(\E r \in DOMAIN batch' : batch'[r].start > Len(shadow'[r].tokens))
         /\ Alone(batch') /\ slot' = slot /\ pc' = "acquire" /\ Candidates # {}
         /\ ~(Oldest.req # alone \/ Oldest.gen # batch'[alone].gen
                \/ Oldest.start # batch'[alone].start)
  BY <1>1 DEF Prepare, Raise
<1>3. DOMAIN batch' = DOMAIN batch /\ Slotted
  BY <1>1 DEF IInv
<1>4. CASE slot' = slot /\ \/ DOMAIN batch' = {} /\ pc' = "idle"
                           \/ pc' = "failed"
                           \/ pc' = "acquire" /\ Ready(batch', shadow')
  BY <1>1, <1>3, <1>4, SameSlots
<1>5. CASE /\ ~(\E r \in DOMAIN batch' : batch'[r].start > Len(shadow'[r].tokens))
           /\ Issue(shadow', batch')
  <2> DEFINE s == FirstOf(FreeSlots(Reaped))
             rw == [r \in DOMAIN batch' |->
                      SubSeq(shadow'[r].tokens, 1, batch'[r].start + batch'[r].len)]
             fits == ~(\E r \in DOMAIN batch' :
                          batch'[r].start + batch'[r].len > Len(shadow'[r].tokens))
  <2>0. \/ pc' = "failed" /\ (slot' = slot \/ slot' = Reaped)
        \/ /\ fits /\ pc' = "acquire"
           /\ slot' = [Reaped EXCEPT ![s] =
                 [FreeSlot EXCEPT !.state = "queued", !.ticket = step,
                     !.submitted = Reaped[s].submitted, !.done = nextDone, !.rows = rw]]
    BY <1>5 DEF Issue, Raise
  <2>1. (pc' = "failed" /\ (slot' = slot \/ slot' = Reaped)) \/ (fits /\ Taken /\ pc' = "acquire")
    <3>1. ASSUME NEW e, NEW n,
                 slot' = [Reaped EXCEPT ![s] =
                    [FreeSlot EXCEPT !.state = "queued", !.ticket = step, !.submitted = e,
                                     !.done = n, !.rows = rw]]
          PROVE  Taken
      <4> HIDE DEF s, rw
      <4> QED
        BY <3>1 DEF Taken
    <3> HIDE DEF s, rw, fits
    <3> QED
      BY <2>0, <3>1
  <2> QED
    BY <1>1, <1>3, <1>5, <2>1, SameSlots, ReapedSlots, TakenSlots DEF Ready, Planned
<1>6. CASE /\ ~(\E r \in DOMAIN batch' : batch'[r].start > Len(shadow'[r].tokens))
           /\ Alone(batch') /\ slot' = slot /\ pc' = "acquire" /\ Candidates # {}
           /\ ~(Oldest.req # alone \/ Oldest.gen # batch'[alone].gen
                  \/ Oldest.start # batch'[alone].start)
  <2>1. Found(batch')
    BY <1>6 DEF Found
  <2> QED
    BY <1>4, <1>6, <2>1 DEF Ready
<1> QED
  BY <1>2, <1>4, <1>5, <1>6

LEMMA PrepareKeeps == ASSUME IInv, Prepare PROVE IInv'
<1>1. /\ pc = "remove" /\ DOMAIN removing = {} /\ removing' = removing
      /\ shadow' = AddedShadow /\ nextGen' = nextGen + Cardinality(New)
      /\ batch' = [r \in DOMAIN batch |-> [batch[r] EXCEPT !.gen = shadow'[r].gen]]
      /\ idxGen' = idxGen /\ computed' = computed /\ jobs' = jobs /\ wpc' = wpc
      /\ job' = job /\ include' = include /\ nextSeq' = nextSeq /\ results' = results
      /\ werr' = werr /\ SlotsKept
      /\ \/ pc' = "failed"
         \/ pc' = "idle" /\ DOMAIN batch = {}
         \/ pc' = "acquire" /\ Ready(batch', shadow')
  BY PreparedIs
<1>2. Types /\ nextGen \in Nat /\ nextGen' \in Nat /\ nextGen' >= nextGen
  BY <1>1, NewGens DEF IInv, Types
<1>3. ASSUME NEW r \in New
      PROVE  \E g \in Nat : /\ shadow'[r] = [gen |-> g, tokens |-> History(g, PromptLen)]
                            /\ g >= nextGen /\ g < nextGen'
  <2> DEFINE c == Cardinality({q \in New : q < r})
  <2>1. c \in Nat /\ c < Cardinality(New) /\ Cardinality(New) \in Nat /\ r \in Requests
    BY <1>2, NewGens
  <2>2. shadow'[r] = [gen |-> nextGen + c, tokens |-> History(nextGen + c, PromptLen)]
    BY <1>1, <2>1 DEF AddedShadow
  <2> DEFINE g == nextGen + c
  <2> HIDE DEF c
  <2>3. g \in Nat /\ g >= nextGen /\ g < nextGen'
    BY <1>1, <1>2, <2>1
  <2>4. shadow'[r] = [gen |-> g, tokens |-> History(g, PromptLen)]
    BY <2>2
  <2> QED
    BY <2>3, <2>4
<1>4. \A r \in Requests \ New : shadow'[r] = shadow[r]
  BY <1>1 DEF AddedShadow
<1>5. DOMAIN shadow' = Requests /\ Live' \subseteq Live \cup New
  BY <1>1, <1>4 DEF Live, AddedShadow
<1>6. New \subseteq DOMAIN batch /\ New \cap Live = {} /\ DOMAIN batch \ New \subseteq Live
      /\ New \subseteq Requests /\ Live \subseteq Requests
  BY <1>2 DEF New, Live, Types, IsBatch
<1>7. PromptLen \in Nat \ {0}
  BY SizeAssumption
<1>8. \A r \in Live \cup New : /\ DOMAIN shadow'[r] = {"gen", "tokens"}
                               /\ shadow'[r].gen \in Nat /\ shadow'[r].gen < nextGen'
                               /\ Len(shadow'[r].tokens) \in Nat
  <2>1. ASSUME NEW r \in New
        PROVE  /\ DOMAIN shadow'[r] = {"gen", "tokens"}
               /\ shadow'[r].gen \in Nat /\ shadow'[r].gen < nextGen'
               /\ Len(shadow'[r].tokens) \in Nat
    <3>1. PICK g \in Nat : /\ shadow'[r] = [gen |-> g, tokens |-> History(g, PromptLen)]
                           /\ g >= nextGen /\ g < nextGen'
      BY <1>3, <2>1
    <3>2. Len(History(g, PromptLen)) \in Nat
      BY <1>7, HistoryGrows
    <3> QED
      BY <3>1, <3>2
  <2>2. ASSUME NEW r \in Live
        PROVE  /\ DOMAIN shadow'[r] = {"gen", "tokens"}
               /\ shadow'[r].gen \in Nat /\ shadow'[r].gen < nextGen'
               /\ Len(shadow'[r].tokens) \in Nat
    <3>1. shadow'[r] = shadow[r]
      BY <1>4, <1>6
    <3> QED
      BY <1>2, <3>1 DEF Types
  <2> QED
    BY <2>1, <2>2
<1>9. /\ DOMAIN batch' = DOMAIN batch
      /\ \A r \in DOMAIN batch : /\ batch'[r].start = batch[r].start /\ batch'[r].len = batch[r].len
                                 /\ batch'[r].gen = shadow'[r].gen
                                 /\ DOMAIN batch'[r] = {"gen", "start", "len"}
                                 /\ batch[r].start \in Nat /\ batch[r].len \in Nat \ {0}
                                 /\ r \in Live \cup New
  <2>1. \A r \in DOMAIN batch : DOMAIN batch[r] = {"gen", "start", "len"}
                                /\ batch[r].start \in Nat /\ batch[r].len \in Nat \ {0}
    BY <1>2 DEF Types, IsBatch
  <2> QED
    BY <1>1, <1>6, <2>1
<1>10. IsBatch(batch')
  BY <1>6, <1>8, <1>9 DEF IsBatch
<1>11. Types'
  <2>1. /\ \A i \in DOMAIN jobs' : IsJob(jobs'[i], nextGen')
        /\ wpc' = "append" => IsJob(job', nextGen') /\ include' \subseteq job'.need
    BY <1>1, <1>2 DEF Types, IsJob, IsBatch
  <2> QED
    BY <1>1, <1>2, <1>5, <1>8, <1>10, <2>1, TypesFrom DEF Types
<1>12. Slotted'
  BY <1>1, <1>2 DEF IInv, Slotted, SlotsKept, Kept, FreeSlot
<1>13. Batched'
  BY <1>1, <1>6, <1>8, <1>9 DEF Batched, InStep
<1>14. ASSUME NEW r \in New PROVE Good(r)'
  <2>1. PICK g \in Nat : /\ shadow'[r] = [gen |-> g, tokens |-> History(g, PromptLen)]
                         /\ g >= nextGen
    BY <1>3, <1>14
  <2>2. r \in Requests /\ r \in DOMAIN batch /\ r \notin Live
    BY <1>6, <1>14
  <2>3. Pos(batch', r) = PromptLen
    <3>1. batch[r].start = 0 /\ batch[r].len = PromptLen
      BY <1>1, <2>2 DEF IInv, Batched
    <3> QED
      BY <1>7, <1>9, <2>2, <3>1 DEF Pos
  <2>4. pc' \in Going => pc' \in InStep /\ r \in DOMAIN batch'
    BY <1>1, <1>9, <2>2 DEF Going, InStep
  <2> QED
    BY <1>1, <2>1, <2>2, <2>3, <2>4, NewRequest DEF SlotsKept
<1>15. ASSUME NEW r \in Live PROVE Good(r)'
  <2>1. /\ shadow'[r] = shadow[r] /\ r \in Live' /\ r \in Requests
    BY <1>4, <1>5, <1>6, <1>15 DEF Live
  <2>2. AtHand(r)' = AtHand(r) /\ Freed(r)' = Freed(r) /\ Stepping(r) = FALSE
    BY <1>1, <1>15, <2>1 DEF AtHand, Owes, Freed, Stepping, InStep
  <2>3. CASE pc' = "failed" \/ DOMAIN batch = {} \/ r \notin DOMAIN batch
    <3>1. pc' \in Going => pc \in Going /\ Stepping(r)' = FALSE
      BY <1>1, <1>9, <2>3 DEF Going, InStep, Stepping
    <3>2. Undisturbed(r)
      BY <1>1, <2>1, <2>2, <3>1 DEF Undisturbed
    <3> QED
      BY <1>2, <1>5, <1>15, <3>2, <1>1, SameRequest DEF IInv, SlotsKept, Types
  <2>4. CASE pc' = "acquire" /\ r \in DOMAIN batch
    <3>1. computed[r] \in Nat /\ Len(shadow[r].tokens) \in Nat
      BY <1>2, <2>1 DEF Types
    <3>2. batch'[r].start = computed[r] /\ batch'[r].len = 1 /\ Pos(batch', r) = computed[r] + 1
          /\ batch'[r].gen = shadow[r].gen
      BY <1>1, <1>9, <2>1, <2>4 DEF IInv, Batched, Pos
    <3>3. Ready(batch', shadow')
      BY <1>1, <2>4
    <3>4. computed[r] <= Len(shadow[r].tokens)
      BY <1>9, <2>1, <2>4, <3>1, <3>2, <3>3 DEF Ready
    <3>5. /\ \A i \in Owing(r) : ~Shared(jobs[i].rows, r)
          /\ AtHand(r) => ~Shared(job.rows, r)
      <4>1. CASE Planned(batch', shadow')
        <5>1. computed[r] + 1 <= Len(shadow[r].tokens)
          BY <1>9, <2>1, <2>4, <3>1, <3>2, <4>1 DEF Planned
        <5> QED
          BY <1>1, <2>4, <5>1, NothingOwed
      <4>2. CASE Found(batch')
        <5>1. IsFiniteSet(DOMAIN batch') /\ Cardinality(DOMAIN batch') = 1
          BY <1>6, <1>9, <4>2, SetAssumption, FS_Subset DEF Found, Alone
        <5>2. DOMAIN batch' = {r}
          <6>1. PICK x : DOMAIN batch' = {x}
            BY <5>1, FS_Singleton
          <6> QED
            BY <1>9, <2>4, <6>1
        <5>3. Oldest.req = r /\ Oldest.gen = shadow[r].gen /\ Oldest.start = computed[r]
          BY <3>2, <4>2, <5>2 DEF Found
        <5>4. PICK s \in Slots : slot[s].prefetch = Oldest /\ slot[s].prefetch # None
          BY <4>2, OldestIs DEF Found, IInv
        <5> QED
          BY <1>1, <2>4, <5>3, <5>4, OwnJobs
      <4> QED
        BY <3>3, <4>1, <4>2 DEF Ready
    <3> QED
      BY <1>1, <1>9, <2>1, <2>4, <3>2, <3>4, <3>5, NextStep DEF SlotsKept, InStep
  <2> QED
    BY <1>1, <2>3, <2>4
<1> QED
  BY <1>5, <1>11, <1>12, <1>13, <1>14, <1>15 DEF IInv

-----------------------------------------------------------------------------
(* The worker takes a job and appends its tokens.                          *)

\* The oldest job is at hand for the requests whose index it remembers.
LEMMA TakenJob ==
    ASSUME IInv, WorkerWaits, NEW r \in Live
    PROVE  /\ \A i : i \in Owing(r)' <=> i \in 1..(Len(jobs) - 1) /\ i + 1 \in Owing(r)
           /\ \A i \in Owing(r)' : jobs'[i] = jobs[i + 1]
           /\ \A k \in Owing(r) : k # 1 => k - 1 \in Owing(r)' /\ k \in Nat \ {0}
           /\ AtHand(r)' <=> 1 \in Owing(r) /\ jobs[1].genAt[r] = idxGen[r]
           /\ job' = jobs[1] /\ ~AtHand(r)
<1>1. /\ wpc = "idle" /\ jobs # <<>> /\ IsSeq(jobs) /\ jobs' = Tail(jobs) /\ shadow' = shadow
      /\ job' = Head(jobs) /\ wpc' = "append"
      /\ include' = {q \in Head(jobs).need : idxGen[q] = Head(jobs).genAt[q]}
  BY DEF WorkerWaits, IInv, Types
<1>2. /\ Len(jobs) \in Nat \ {0} /\ DOMAIN jobs = 1..Len(jobs)
      /\ DOMAIN Tail(jobs) = 1..(Len(jobs) - 1) /\ Head(jobs) = jobs[1]
      /\ \A i \in 1..(Len(jobs) - 1) : Tail(jobs)[i] = jobs[i + 1]
  BY <1>1, SeqTail
<1>3. Live' = Live
  BY <1>1 DEF Live
<1>4. \A j : Owes(j, r)' <=> Owes(j, r)
  BY <1>1, <1>3 DEF Owes
<1>5. \A i : i \in Owing(r)' <=> i \in 1..(Len(jobs) - 1) /\ Owes(jobs[i + 1], r)
  <2>1. \A i : i \in Owing(r)' <=> i \in DOMAIN jobs' /\ Owes(jobs'[i], r)
    BY <1>1, <1>3 DEF Owing, Owes
  <2> QED
    BY <1>1, <1>2, <2>1
<1>6. \A i : i \in Owing(r) <=> i \in 1..Len(jobs) /\ Owes(jobs[i], r)
  BY <1>2 DEF Owing
<1>7. AtHand(r)' <=> Owes(jobs[1], r) /\ jobs[1].genAt[r] = idxGen[r]
  BY <1>1, <1>2, <1>3 DEF AtHand, Owes
<1>8. ~AtHand(r)
  BY <1>1 DEF AtHand
<1> HIDE DEF Owing, Owes, AtHand
<1>9. \A i : i \in Owing(r)' <=> i \in 1..(Len(jobs) - 1) /\ i + 1 \in Owing(r)
  BY <1>2, <1>5, <1>6
<1>10. \A k \in Owing(r) : k # 1 => k - 1 \in Owing(r)' /\ k \in Nat \ {0}
  BY <1>2, <1>5, <1>6
<1> QED
  BY <1>1, <1>2, <1>5, <1>6, <1>7, <1>8, <1>9, <1>10

\* The job at hand is for nobody new, so it was not the oldest of what r is owed.
LEMMA JobSkipped ==
    ASSUME IInv, WorkerWaits, NEW r \in Live, ~AtHand(r)', r \in Live'
    PROVE  Good(r)'
<1>1. /\ shadow' = shadow /\ idxGen' = idxGen /\ computed' = computed /\ removing' = removing
      /\ slot' = slot /\ pc' = pc /\ batch' = batch /\ werr' = werr
  BY DEF WorkerWaits, model, sched, conn, errors
<1>2. Good(r) /\ Types
  BY DEF IInv
<1>3. /\ \A i : i \in Owing(r)' <=> i \in 1..(Len(jobs) - 1) /\ i + 1 \in Owing(r)
      /\ \A i \in Owing(r)' : jobs'[i] = jobs[i + 1]
      /\ \A k \in Owing(r) : k # 1 => k - 1 \in Owing(r)' /\ k \in Nat \ {0}
      /\ 1 \in Owing(r) => jobs[1].genAt[r] # idxGen[r]
      /\ ~AtHand(r)
  BY TakenJob
<1>4. Reach(r)' = Reach(r)
  BY <1>1, <1>3 DEF Reach
<1>5. Freed(r)' = Freed(r) /\ Stepping(r)' = Stepping(r)
  BY <1>1 DEF Freed, Stepping
<1>6. 1 \in Owing(r) => Freed(r) /\ ~Stepping(r)
  <2>1. 1 \in Owing(r) => Freed(r)
    BY <1>2, <1>3 DEF Good, Indexed
  <2>2. Freed(r) => ~Stepping(r)
    BY DEF IInv, Batched, Freed, Stepping, InStep
  <2> QED
    BY <2>1, <2>2
<1>7. Current(r)' /\ Indexed(r)'
  BY <1>1, <1>2, <1>3, <1>5 DEF Good, Current, Indexed
<1>8. ASSUME ~Freed(r) PROVE Line(r)'
  <2>1. Line(r) /\ \A k \in Owing(r) : k # 1
    BY <1>2, <1>6, <1>8 DEF Good
  <2>2. \A i \in Owing(r)' :
           /\ i + 1 \in Owing(r) /\ jobs'[i] = jobs[i + 1]
           /\ Pos(jobs[i + 1].rows, r) >= Reach(r)
           /\ \A q \in Nat : Reach(r) <= q /\ q < Pos(jobs[i + 1].rows, r) =>
                 \E k \in Owing(r) : k < i + 1 /\ Pos(jobs[k].rows, r) = q
    BY <1>3, <2>1 DEF Line
  <2>3. ASSUME NEW i \in Owing(r)', NEW k \in Owing(r), k < i + 1
        PROVE  /\ k - 1 \in Owing(r)' /\ k - 1 < i /\ jobs'[k - 1] = jobs[k]
    <3>1. k - 1 \in Owing(r)' /\ k \in Nat \ {0} /\ i \in Nat
      BY <1>3, <2>1, <2>3
    <3>2. jobs'[k - 1] = jobs[(k - 1) + 1] /\ (k - 1) + 1 = k
      BY <1>3, <3>1
    <3> QED
      BY <2>3, <3>1, <3>2
  <2>4. \A i \in Owing(r)' : \A q \in Nat : Reach(r) <= q /\ q < Pos(jobs'[i].rows, r) =>
           \E k \in Owing(r)' : k < i /\ Pos(jobs'[k].rows, r) = q
    BY <2>2, <2>3
  <2>5. \A i, k \in Owing(r)' : i < k =>
           Pos(jobs'[i].rows, r) < Pos(jobs'[k].rows, r) /\ ~Shared(jobs'[i].rows, r)
    <3>1. \A i, k \in Owing(r)' : i < k => i + 1 < k + 1
      BY <1>3
    <3> QED
      BY <1>3, <2>1, <2>2, <3>1 DEF Line
  <2> QED
    BY <1>4, <2>2, <2>4, <2>5 DEF Line, Pos, Shared
<1>9. ASSUME ~Freed(r) PROVE Prefetched(r)'
  BY <1>1, <1>2, <1>3, <1>5, <1>9 DEF Good, Prefetched, Pos, Shared
<1>10. ASSUME NEW q, \E i \in Owing(r) : Pos(jobs[i].rows, r) = q, ~Freed(r)
       PROVE  \E i \in Owing(r)' : Pos(jobs'[i].rows, r) = q
  <2>1. PICK i \in Owing(r) : Pos(jobs[i].rows, r) = q
    BY <1>10
  <2>2. i - 1 \in Owing(r)' /\ (i - 1) + 1 = i
    BY <1>3, <1>6, <1>10
  <2> QED
    BY <1>3, <2>1, <2>2
<1>11. ASSUME pc' \in Going, Stepping(r)' PROVE StepRoom(r)'
  <2>1. StepRoom(r) /\ ~Freed(r)
    BY <1>1, <1>2, <1>5, <1>11 DEF Good, IInv, Batched, Freed, Stepping, InStep
  <2>2. \A i \in Owing(r)' : Pos(jobs'[i].rows, r) < Pos(batch', r) /\ ~Shared(jobs'[i].rows, r)
    BY <1>1, <1>3, <2>1 DEF StepRoom
  <2>3. (\E i \in Owing(r) : Pos(jobs[i].rows, r) = Reach(r)) =>
           \E i \in Owing(r)' : Pos(jobs'[i].rows, r) = Reach(r)
    BY <1>10, <2>1
  <2> QED
    BY <1>1, <1>4, <2>1, <2>2, <2>3 DEF StepRoom, Pos, Shared
<1>12. ASSUME pc' \in Going, ~Stepping(r)' PROVE Room(r)'
  <2>1. Room(r)
    BY <1>1, <1>2, <1>5, <1>12 DEF Good
  <2>2. \A i \in Owing(r)' : Pos(jobs'[i].rows, r) <= computed'[r]
    BY <1>1, <1>3, <2>1 DEF Room
  <2>3. \/ Freed(r)
        \/ (\E i \in Owing(r) : Pos(jobs[i].rows, r) = computed[r]) =>
              \E i \in Owing(r)' : Pos(jobs'[i].rows, r) = computed[r]
    BY <1>10
  <2> QED
    BY <1>1, <1>4, <1>5, <2>1, <2>2, <2>3 DEF Room, Pos
<1>13. (shadow[r].tokens = History(shadow[r].gen, Len(shadow[r].tokens)))'
  BY <1>1, <1>2 DEF Good, History
<1> QED
  BY <1>5, <1>7, <1>8, <1>9, <1>11, <1>12, <1>13 DEF Good

\* The job at hand brings r its next token.
LEMMA JobTaken ==
    ASSUME IInv, WorkerWaits, NEW r \in Live, AtHand(r)', r \in Live'
    PROVE  Good(r)'
<1>1. /\ shadow' = shadow /\ idxGen' = idxGen /\ computed' = computed /\ removing' = removing
      /\ slot' = slot /\ pc' = pc /\ batch' = batch /\ werr' = werr
  BY DEF WorkerWaits, model, sched, conn, errors
<1>2. Good(r) /\ Types /\ Len(shadow[r].tokens) \in Nat
  BY DEF IInv, Types
<1>3. /\ \A i : i \in Owing(r)' <=> i \in 1..(Len(jobs) - 1) /\ i + 1 \in Owing(r)
      /\ \A i \in Owing(r)' : jobs'[i] = jobs[i + 1]
      /\ \A k \in Owing(r) : k # 1 => k - 1 \in Owing(r)' /\ k \in Nat \ {0}
      /\ 1 \in Owing(r) /\ jobs[1].genAt[r] = idxGen[r] /\ job' = jobs[1]
      /\ ~AtHand(r)
  BY TakenJob
<1>4. ~Freed(r) /\ Freed(r)' = FALSE /\ Stepping(r)' = Stepping(r)
  BY <1>1, <1>2, <1>3 DEF Good, Indexed, Freed, Stepping
<1>5. Line(r) /\ Prefetched(r)
  BY <1>2, <1>4 DEF Good
<1>6. \A i \in Owing(r) : Pos(jobs[i].rows, r) \in Nat
  BY <1>2, Positions
<1>7. Reach(r) = Len(shadow[r].tokens) /\ Reach(r)' = Reach(r) + 1
  BY <1>1, <1>3 DEF Reach
<1>8. Pos(jobs[1].rows, r) = Reach(r)
  <2>1. Pos(jobs[1].rows, r) >= Reach(r)
    BY <1>3, <1>5 DEF Line
  <2>2. ASSUME Reach(r) < Pos(jobs[1].rows, r) PROVE FALSE
    <3>1. \E k \in Owing(r) : k < 1 /\ Pos(jobs[k].rows, r) = Reach(r)
      BY <1>2, <1>3, <1>5, <1>7, <2>2 DEF Line
    <3> QED
      BY <1>3, <3>1
  <2> QED
    BY <1>2, <1>3, <1>6, <1>7, <2>1, <2>2
<1>9. Current(r)' /\ Indexed(r)'
  BY <1>1, <1>2, <1>3, <1>4, <1>7, <1>8 DEF Good, Current, Indexed, Pos
<1>10. \A i \in Owing(r)' : /\ i + 1 \in Owing(r) /\ jobs'[i] = jobs[i + 1]
                            /\ Pos(jobs'[i].rows, r) \in Nat /\ Pos(jobs'[i].rows, r) > Reach(r)
                            /\ ~Shared(jobs[1].rows, r)
  <2>1. ASSUME NEW i \in Owing(r)'
        PROVE  /\ i + 1 \in Owing(r) /\ jobs'[i] = jobs[i + 1] /\ 1 < i + 1
    BY <1>3
  <2> QED
    BY <1>2, <1>3, <1>5, <1>6, <1>7, <1>8, <2>1 DEF Line
<1>11. ASSUME NEW i \in Owing(r), Pos(jobs[i].rows, r) # Reach(r)
       PROVE  i - 1 \in Owing(r)' /\ jobs'[i - 1] = jobs[i]
  <2>1. i # 1
    BY <1>8, <1>11
  <2>2. i - 1 \in Owing(r)' /\ (i - 1) + 1 = i
    BY <1>3, <2>1
  <2> QED
    BY <1>3, <2>2
<1>12. Line(r)'
  <2>1. ASSUME NEW i \in Owing(r)', NEW q \in Nat, Reach(r) + 1 <= q, q < Pos(jobs'[i].rows, r)
        PROVE  \E k \in Owing(r)' : k < i /\ Pos(jobs'[k].rows, r) = q
    <3>1. PICK k \in Owing(r) : k < i + 1 /\ Pos(jobs[k].rows, r) = q
      BY <1>2, <1>5, <1>7, <1>10, <2>1 DEF Line
    <3>2. k - 1 \in Owing(r)' /\ jobs'[k - 1] = jobs[k]
      BY <1>2, <1>7, <1>11, <2>1, <3>1
    <3>3. k - 1 < i
      BY <1>3, <3>1, <3>2
    <3> QED
      BY <3>1, <3>2, <3>3
  <2>2. \A i, k \in Owing(r)' : i < k =>
           Pos(jobs'[i].rows, r) < Pos(jobs'[k].rows, r) /\ ~Shared(jobs'[i].rows, r)
    <3>1. \A i, k \in Owing(r)' : i < k => i + 1 < k + 1
      BY <1>3
    <3> QED
      BY <1>5, <1>10, <3>1 DEF Line
  <2>3. \A i \in Owing(r)' : Pos(jobs'[i].rows, r) >= Reach(r) + 1
    BY <1>2, <1>7, <1>10
  <2>4. Shared(jobs[1].rows, r) => Owing(r)' = {}
    BY <1>10
  <2> QED
    BY <1>3, <1>7, <2>1, <2>2, <2>3, <2>4 DEF Line, Pos, Shared
<1>13. Prefetched(r)'
  <2>1. ASSUME NEW s \in Slots, slot[s].prefetch # None, slot[s].prefetch.req = r,
               slot[s].prefetch.gen = shadow[r].gen
        PROVE  /\ slot[s].prefetch.start \in Nat
               /\ pc \in Going => IF Stepping(r) THEN slot[s].prefetch.start < Pos(batch, r)
                                  ELSE slot[s].prefetch.start <= computed[r]
               /\ Shared(jobs[1].rows, r) => slot[s].prefetch.start < Pos(jobs[1].rows, r)
               /\ \A i \in Owing(r)' :
                    Shared(jobs'[i].rows, r) => slot[s].prefetch.start < Pos(jobs'[i].rows, r)
    <3>1. /\ slot[s].prefetch.start \in Nat
          /\ pc \in Going => IF Stepping(r) THEN slot[s].prefetch.start < Pos(batch, r)
                             ELSE slot[s].prefetch.start <= computed[r]
          /\ \A i \in Owing(r) :
                Shared(jobs[i].rows, r) => slot[s].prefetch.start < Pos(jobs[i].rows, r)
      BY <1>5, <2>1 DEF Prefetched
    <3> QED
      BY <1>3, <1>10, <3>1
  <2> QED
    BY <1>1, <1>3, <1>4, <2>1 DEF Prefetched, Pos, Shared
<1>14. ASSUME pc' \in Going, Stepping(r)' PROVE StepRoom(r)'
  <2>1. StepRoom(r) /\ r \in DOMAIN batch
    BY <1>1, <1>2, <1>4, <1>14 DEF Good, Stepping
  <2>2. /\ \A i \in Owing(r)' : Pos(jobs'[i].rows, r) < Pos(batch', r) /\ ~Shared(jobs'[i].rows, r)
        /\ ~Shared(jobs[1].rows, r)
    BY <1>1, <1>3, <2>1 DEF StepRoom
  <2>3. Pos(batch, r) = Reach(r) + 1
    <3>1. Pos(batch, r) \in Nat
      BY <1>2, <2>1, Positions
    <3> QED
      BY <1>2, <1>3, <1>7, <1>8, <2>1, <3>1 DEF StepRoom
  <2> QED
    BY <1>1, <1>2, <1>3, <1>7, <2>2, <2>3 DEF StepRoom, Pos, Shared
<1>15. ASSUME pc' \in Going, ~Stepping(r)' PROVE Room(r)'
  <2>1. Room(r) /\ computed[r] \in Nat
    BY <1>1, <1>2, <1>4, <1>15, Positions DEF Good
  <2>2. \A i \in Owing(r)' : Pos(jobs'[i].rows, r) <= computed'[r]
    BY <1>1, <1>3, <2>1 DEF Room
  <2>3. Reach(r) <= computed[r]
    BY <1>3, <1>8, <2>1 DEF Room
  <2>4. Reach(r) = computed[r] \/ ~(\E i \in Owing(r) : Pos(jobs[i].rows, r) = computed[r])
        \/ \E i \in Owing(r)' : Pos(jobs'[i].rows, r) = computed[r]
    BY <1>11
  <2>5. \/ werr # None \/ computed[r] + 1 >= MaxLen \/ Reach(r) + 1 > computed[r]
        \/ \E i \in Owing(r)' : Pos(jobs'[i].rows, r) = computed[r]
    BY <1>2, <1>4, <1>7, <2>1, <2>3, <2>4 DEF Room
  <2> QED
    BY <1>1, <1>2, <1>7, <2>1, <2>2, <2>3, <2>5 DEF Room, Pos
<1>16. (shadow[r].tokens = History(shadow[r].gen, Len(shadow[r].tokens)))'
  BY <1>1, <1>2 DEF Good, History
<1> QED
  BY <1>4, <1>9, <1>12, <1>13, <1>14, <1>15, <1>16 DEF Good

LEMMA WorkerWaitsKeeps == ASSUME IInv, WorkerWaits PROVE IInv'
<1>1. /\ shadow' = shadow /\ nextGen' = nextGen /\ idxGen' = idxGen /\ computed' = computed
      /\ removing' = removing /\ slot' = slot /\ pc' = pc /\ batch' = batch /\ werr' = werr
      /\ nextSeq' = nextSeq /\ results' = results
      /\ jobs # <<>> /\ jobs' = Tail(jobs) /\ job' = Head(jobs)
      /\ include' = {q \in Head(jobs).need : idxGen[q] = Head(jobs).genAt[q]}
  BY DEF WorkerWaits, model, sched, conn, child, errors
<1>2. Types /\ Live' = Live
  BY <1>1 DEF IInv, Live
<1>3. /\ IsSeq(Tail(jobs)) /\ Len(jobs) \in Nat \ {0} /\ DOMAIN jobs = 1..Len(jobs)
      /\ DOMAIN Tail(jobs) = 1..(Len(jobs) - 1) /\ Head(jobs) = jobs[1]
      /\ \A i \in 1..(Len(jobs) - 1) : Tail(jobs)[i] = jobs[i + 1]
  BY <1>1, <1>2, SeqTail DEF Types
<1>4. IsJob(job', nextGen) /\ \A i \in DOMAIN jobs' : IsJob(jobs'[i], nextGen)
  <2>1. 1 \in DOMAIN jobs /\ \A i \in DOMAIN jobs' : i + 1 \in DOMAIN jobs
    BY <1>1, <1>3
  <2> QED
    BY <1>1, <1>2, <1>3, <2>1 DEF Types
<1>5. include' \subseteq job'.need
  BY <1>1
<1>6. Types'
  BY <1>1, <1>2, <1>3, <1>4, <1>5, TypesFrom DEF Types
<1>7. Slotted'
  BY <1>1, KeptSlots, SameSlots DEF IInv
<1>8. Batched'
  BY <1>1, <1>2 DEF IInv, Batched, InStep
<1>9. \A r \in Live' : Good(r)'
  BY <1>2, JobSkipped, JobTaken
<1> QED
  BY <1>6, <1>7, <1>8, <1>9 DEF IInv

LEMMA NewTokens ==
    ASSUME NEW x, DOMAIN x = {"gen", "tokens"}, NEW t
    PROVE  [x EXCEPT !.tokens = t] = [gen |-> x.gen, tokens |-> t]
  OBVIOUS

\* A token that is at hand is appended, or it is dropped: then the worker has
\* failed, and its job was not for one request alone.
LEMMA AppendsIs ==
    ASSUME IInv, WorkerAppends, NEW r \in Requests
    PROVE  \/ shadow'[r] = shadow[r] /\ (AtHand(r) => werr' # None /\ Shared(job.rows, r))
           \/ /\ AtHand(r)
              /\ shadow'[r] = [gen |-> shadow[r].gen,
                               tokens |-> History(shadow[r].gen, Len(shadow[r].tokens) + 1)]
<1> DEFINE bad  == {q \in include : Stale(q)}
           good == {q \in include : \A p \in bad : q < p}
           next == [shadow[r] EXCEPT !.tokens =
                       Append(@, <<job.rows[r].gen, job.rows[r].start + job.rows[r].len>>)]
<1>1. /\ wpc = "append" /\ (bad # {} => werr' # None)
      /\ shadow'[r] = IF r \in good THEN next ELSE shadow[r]
  BY WerrKept DEF WorkerAppends, WorkerFails
<1>2. /\ include \subseteq job.need /\ job.need \subseteq DOMAIN job.rows
      /\ DOMAIN job.rows \subseteq Requests /\ Requests \subseteq Nat
  BY <1>1, SetAssumption DEF IInv, Types, IsJob, IsBatch
<1>3. CASE r \in good
  <2>1. r \in include /\ ~Stale(r)
    BY <1>2, <1>3
  <2>2. r \in Live /\ shadow[r].gen = job.rows[r].gen /\ AtHand(r)
    BY <1>1, <1>2, <2>1 DEF Stale, Live, AtHand, Owes
  <2>3. /\ DOMAIN shadow[r] = {"gen", "tokens"} /\ shadow[r].gen \in Nat
        /\ Len(shadow[r].tokens) \in Nat
        /\ shadow[r].tokens = History(shadow[r].gen, Len(shadow[r].tokens))
        /\ Pos(job.rows, r) = Len(shadow[r].tokens)
    BY <2>2 DEF IInv, Types, Good, Current
  <2> DEFINE more == Append(shadow[r].tokens, <<shadow[r].gen, Len(shadow[r].tokens)>>)
  <2>4. next = [shadow[r] EXCEPT !.tokens = more]
    BY <2>2, <2>3 DEF Pos
  <2>5. more = History(shadow[r].gen, Len(shadow[r].tokens) + 1)
    BY <2>3, HistoryGrows
  <2> HIDE DEF next, more
  <2>6. next = [gen |-> shadow[r].gen, tokens |-> more]
    BY <2>3, <2>4, NewTokens
  <2> QED
    BY <1>1, <1>3, <2>2, <2>5, <2>6
<1>4. CASE r \notin good
  <2>1. ASSUME AtHand(r) PROVE werr' # None /\ Shared(job.rows, r)
    <3>1. r \in include /\ ~Stale(r)
      BY <2>1 DEF AtHand, Owes, Live, Stale
    <3>2. PICK p \in bad : ~(r < p)
      BY <1>4, <3>1
    <3> QED
      BY <1>1, <1>2, <3>1, <3>2 DEF Shared
  <2> QED
    BY <1>1, <1>4, <2>1
<1> QED
  BY <1>3, <1>4

\* What a request is owed once its token is appended or dropped.
LEMMA AppendedGood ==
    ASSUME IInv, WorkerAppends, NEW r \in Live, r \in Live', wpc' # "append",
           werr # None => werr' # None
    PROVE  Good(r)'
<1>1. /\ idxGen' = idxGen /\ computed' = computed /\ removing' = removing /\ jobs' = jobs
      /\ slot' = slot /\ pc' = pc /\ batch' = batch
  BY DEF WorkerAppends, model, sched, conn
<1>2. /\ Good(r) /\ Types /\ Len(shadow[r].tokens) \in Nat /\ shadow[r].gen \in Nat
      /\ r \in Requests
  BY DEF IInv, Types, Live
<1>3. \/ shadow'[r] = shadow[r] /\ (AtHand(r) => werr' # None /\ Shared(job.rows, r))
      \/ /\ AtHand(r)
         /\ shadow'[r] = [gen |-> shadow[r].gen,
                          tokens |-> History(shadow[r].gen, Len(shadow[r].tokens) + 1)]
  BY <1>2, AppendsIs
<1>4. AtHand(r)' = FALSE /\ Freed(r)' = Freed(r) /\ Stepping(r)' = Stepping(r)
  BY <1>1 DEF AtHand, Freed, Stepping
<1>5. shadow'[r].gen = shadow[r].gen
  BY <1>3
<1>6. Owing(r)' = Owing(r)
  BY <1>1, <1>5 DEF Owing, Owes
<1>7. Current(r)' /\ Indexed(r)'
  BY <1>1, <1>2, <1>4, <1>6 DEF Good, Current, Indexed
<1>8. ~Freed(r) => Prefetched(r)'
  BY <1>1, <1>2, <1>4, <1>5, <1>6 DEF Good, Prefetched, Pos, Shared
<1>9. CASE /\ AtHand(r)
           /\ shadow'[r] = [gen |-> shadow[r].gen,
                            tokens |-> History(shadow[r].gen, Len(shadow[r].tokens) + 1)]
  <2>1. Len(shadow'[r].tokens) = Len(shadow[r].tokens) + 1
    <3> DEFINE g == shadow[r].gen
               n == Len(shadow[r].tokens) + 1
    <3>1. shadow'[r].tokens = History(g, n)
      BY <1>9
    <3>2. g \in Nat /\ n \in Nat
      BY <1>2
    <3> HIDE DEF g, n
    <3>3. Len(History(g, n)) = n
      BY <3>2, HistoryGrows
    <3> QED
      BY <3>1, <3>3 DEF n
  <2>2. Reach(r) = Len(shadow[r].tokens) + 1
    BY <1>2, <1>9, ReachIs
  <2>3. Reach(r)' = Reach(r)
    <3>1. Reach(r)' = Len(shadow'[r].tokens) + 0
      BY <1>4 DEF Reach
    <3> QED
      BY <1>2, <2>1, <2>2, <3>1
  <2>4. (shadow[r].tokens = History(shadow[r].gen, Len(shadow[r].tokens)))'
    BY <1>9, <2>1 DEF History
  <2>5. ~Freed(r) => Line(r)'
    BY <1>1, <1>2, <1>4, <1>6, <2>3 DEF Good, Line, Pos, Shared
  <2>6. pc' \in Going /\ Stepping(r)' => StepRoom(r)'
    BY <1>1, <1>2, <1>4, <1>6, <2>3 DEF Good, StepRoom, Pos, Shared
  <2>7. pc' \in Going /\ ~Stepping(r)' => Room(r)'
    BY <1>1, <1>2, <1>4, <1>6, <2>3 DEF Good, Room, Pos
  <2> QED
    BY <1>4, <1>7, <1>8, <2>4, <2>5, <2>6, <2>7 DEF Good
<1>10. CASE shadow'[r] = shadow[r] /\ (AtHand(r) => werr' # None /\ Shared(job.rows, r))
  <2>1. /\ Reach(r) \in Nat /\ Reach(r)' = Len(shadow[r].tokens)
        /\ Len(shadow[r].tokens) <= Reach(r)
        /\ (~AtHand(r) => Reach(r) = Len(shadow[r].tokens))
        /\ computed[r] \in Nat
    <3>1. Reach(r)' = Len(shadow[r].tokens)
      BY <1>2, <1>4, <1>10 DEF Reach
    <3> QED
      BY <1>2, <3>1, ReachIs, Positions
  <2>2. (shadow[r].tokens = History(shadow[r].gen, Len(shadow[r].tokens)))'
    BY <1>2, <1>10 DEF Good, History
  <2>3. ~Freed(r) => Line(r)'
    <3>1. CASE AtHand(r)
      <4>1. ~Freed(r) => Owing(r) = {}
        BY <1>2, <1>10, <3>1 DEF Good, Line
      <4> QED
        BY <1>4, <1>6, <4>1 DEF Line
    <3>2. CASE ~AtHand(r)
      BY <1>1, <1>2, <1>4, <1>6, <2>1, <3>2 DEF Good, Line, Pos, Shared
    <3> QED
      BY <3>1, <3>2
  <2>4. pc' \in Going /\ Stepping(r)' => StepRoom(r)'
    <3>1. ASSUME pc' \in Going, Stepping(r)' PROVE ~AtHand(r) /\ StepRoom(r)
      BY <1>1, <1>2, <1>4, <1>10, <3>1 DEF Good, StepRoom
    <3> QED
      BY <1>1, <1>4, <1>6, <2>1, <3>1 DEF StepRoom, Pos, Shared
  <2>5. pc' \in Going /\ ~Stepping(r)' => Room(r)'
    <3>1. ASSUME pc' \in Going, ~Stepping(r)' PROVE Room(r)
      BY <1>1, <1>2, <1>4, <3>1 DEF Good
    <3>2. CASE AtHand(r)
      BY <1>1, <1>4, <1>6, <1>10, <2>1, <3>1, <3>2 DEF Room, Pos
    <3>3. CASE ~AtHand(r)
      BY <1>1, <1>4, <1>6, <2>1, <3>1, <3>3 DEF Room, Pos
    <3> QED
      BY <3>2, <3>3
  <2> QED
    BY <1>4, <1>7, <1>8, <2>2, <2>3, <2>4, <2>5 DEF Good
<1> QED
  BY <1>3, <1>9, <1>10

LEMMA AppendsLive ==
    ASSUME IInv, WorkerAppends
    PROVE  /\ Live' = Live
           /\ \A r \in Live : /\ DOMAIN shadow'[r] = {"gen", "tokens"}
                             /\ shadow'[r].gen = shadow[r].gen
                             /\ Len(shadow'[r].tokens) \in Nat
<1>1. Types /\ Live \subseteq Requests
  BY DEF IInv, Live
<1>2. ASSUME NEW r \in Requests
      PROVE  /\ r \in Live' <=> r \in Live
             /\ r \in Live => /\ DOMAIN shadow'[r] = {"gen", "tokens"}
                              /\ shadow'[r].gen = shadow[r].gen
                              /\ Len(shadow'[r].tokens) \in Nat
  <2> DEFINE h == History(shadow[r].gen, Len(shadow[r].tokens) + 1)
  <2>1. CASE shadow'[r] = shadow[r]
    BY <1>1, <2>1 DEF Live, Types
  <2>2. CASE AtHand(r) /\ shadow'[r] = [gen |-> shadow[r].gen, tokens |-> h]
    <3>1. r \in Live /\ shadow[r].gen \in Nat /\ Len(shadow[r].tokens) \in Nat
      BY <1>1, <2>2 DEF AtHand, Owes, Types
    <3>2. h \in Seq(Nat \X Nat) /\ Len(h) \in Nat
      BY <3>1 DEF History
    <3> HIDE DEF h
    <3>3. shadow'[r] \in [gen : Nat, tokens : Seq(Nat \X Nat)]
      BY <2>2, <3>1, <3>2
    <3> QED
      BY <2>2, <3>1, <3>2, <3>3, NoneAssumption DEF Live
  <2> QED
    BY <2>1, <2>2, AppendsIs
<1>3. Live' = Live
  <2>1. DOMAIN shadow' = Requests
    BY DEF WorkerAppends
  <2> QED
    BY <1>1, <1>2, <2>1 DEF Live
<1> QED
  BY <1>1, <1>2, <1>3

LEMMA WorkerAppendsKeeps == ASSUME IInv, WorkerAppends PROVE IInv'
<1>1. /\ nextGen' = nextGen /\ idxGen' = idxGen /\ computed' = computed /\ jobs' = jobs
      /\ removing' = removing /\ slot' = slot /\ pc' = pc /\ batch' = batch
      /\ nextSeq' = nextSeq /\ results' = results /\ DOMAIN shadow' = Requests
      /\ wpc' # "append"
  BY DEF WorkerAppends, WorkerFails, WorkerDone, model, sched, conn, child
<1>2. werr # None => werr' # None
  BY WerrKept DEF WorkerAppends, WorkerFails
<1>3. Types /\ Live \subseteq Requests
  BY DEF IInv, Live
<1>4. /\ Live' = Live
      /\ \A r \in Live : /\ DOMAIN shadow'[r] = {"gen", "tokens"}
                        /\ shadow'[r].gen = shadow[r].gen
                        /\ Len(shadow'[r].tokens) \in Nat
  BY AppendsLive
<1>5. Live' = Live
  BY <1>4
<1>6. Types'
  BY <1>1, <1>3, <1>4, <1>5, TypesFrom DEF Types
<1>7. Slotted'
  BY <1>1, KeptSlots, SameSlots DEF IInv
<1>8. Batched'
  BY <1>1, <1>3, <1>4, <1>5 DEF IInv, Batched, InStep
<1>9. \A r \in Live' : Good(r)'
  BY <1>1, <1>2, <1>5, AppendedGood
<1> QED
  BY <1>6, <1>7, <1>8, <1>9 DEF IInv

-----------------------------------------------------------------------------
(* A step ends: its job is queued.                                         *)

\* A lone request gets a prefetch for the token behind its shadow.
Reserved(p) ==
    /\ DOMAIN batch = {p.req} /\ p.seq = nextSeq
    /\ p.gen = batch[p.req].gen /\ p.start = Len(shadow[p.req].tokens)
Reserve(p) == \E s, d :
    slot' = [Reaped EXCEPT ![s] = [FreeSlot EXCEPT !.state = "queued", !.prefetch = p, !.done = d]]

\* The slots keep their fields, and a prefetch is an old one, none or p.
NewSlots(p) ==
    /\ DOMAIN slot' = Slots
    /\ \A s \in Slots : /\ DOMAIN slot'[s] = DOMAIN FreeSlot
                        /\ slot'[s].prefetch \in {slot[s].prefetch, None, p}

LEMMA ReservedSlots == ASSUME Slotted, NEW p, Reserve(p) PROVE NewSlots(p)
<1>1. PICK s, d : slot' = [Reaped EXCEPT ![s] =
                       [FreeSlot EXCEPT !.state = "queued", !.prefetch = p, !.done = d]]
  BY DEF Reserve
<1> DEFINE x == [FreeSlot EXCEPT !.state = "queued", !.prefetch = p, !.done = d]
<1>2. DOMAIN x = DOMAIN FreeSlot /\ x.prefetch = p
  BY DEF FreeSlot
<1>3. slot' = [Reaped EXCEPT ![s] = x]
  BY <1>1
<1> HIDE DEF x
<1>4. DOMAIN Reaped = Slots /\ \A u \in Slots : /\ DOMAIN Reaped[u] = DOMAIN FreeSlot
                                                /\ Reaped[u].prefetch \in {slot[u].prefetch, None}
  BY ReapedFields
<1>5. DOMAIN slot' = Slots /\ \A u \in Slots : slot'[u] = IF u = s THEN x ELSE Reaped[u]
  BY <1>3, <1>4
<1> QED
  BY <1>2, <1>4, <1>5 DEF NewSlots

\* The job of the step is the last one.
Queued(j) == jobs' = Append(jobs, j) /\ j.need = Needed(batch) /\ j.rows = batch
             /\ \A r \in DOMAIN batch : j.genAt[r] = idxGen[r]

LEMMA LoneRequest ==
    ASSUME Types, Needed(batch) # {}, ~(Cardinality(DOMAIN batch) > 1)
    PROVE  DOMAIN batch = {CHOOSE r \in DOMAIN batch : TRUE}
<1>1. DOMAIN batch \subseteq Requests /\ DOMAIN batch # {}
  BY DEF Types, IsBatch, Needed
<1>2. IsFiniteSet(DOMAIN batch) /\ Cardinality(DOMAIN batch) \in Nat
  BY <1>1, SetAssumption, FS_Subset, FS_CardinalityType
<1>3. Cardinality(DOMAIN batch) = 1
  BY <1>1, <1>2, FS_EmptySet
<1>4. PICK x : DOMAIN batch = {x}
  BY <1>2, <1>3, FS_Singleton
<1> QED
  BY <1>4

LEMMA ReceiveIs ==
    ASSUME IInv, Receive
    PROVE  /\ pc = "receive" /\ shadow' = shadow /\ nextGen' = nextGen /\ idxGen' = idxGen
           /\ batch' = batch /\ removing' = removing /\ wpc' = wpc /\ job' = job
           /\ include' = include /\ results' = results /\ werr' = werr
           /\ computed' = [r \in Requests |-> IF r \in DOMAIN batch THEN Pos(batch, r)
                                              ELSE computed[r]]
           /\ \/ /\ pc' = "failed" \/ (pc' = "idle" /\ Needed(batch) = {})
                 /\ SlotsKept /\ jobs' = jobs /\ nextSeq' = nextSeq
              \/ /\ pc' = "idle" /\ werr = None /\ Needed(batch) # {}
                 /\ SlotsKept /\ nextSeq' = nextSeq /\ \E j : Queued(j)
              \/ /\ pc' = "idle" /\ werr = None /\ Needed(batch) # {}
                 /\ nextSeq' = nextSeq + 1
                 /\ \E j : Queued(j)
                 /\ \E p : Reserved(p) /\ NewSlots(p)
<1>1. /\ pc = "receive" /\ shadow' = shadow /\ nextGen' = nextGen /\ idxGen' = idxGen
      /\ batch' = batch /\ removing' = removing /\ wpc' = wpc /\ job' = job
      /\ include' = include /\ results' = results /\ werr' = werr
  BY DEF Receive, child
<1>2. computed' = [r \in Requests |-> IF r \in DOMAIN batch THEN Pos(batch, r) ELSE computed[r]]
  BY DEF Receive, Advance, Pos
<1>3. \/ /\ pc' = "failed" \/ (pc' = "idle" /\ Needed(batch) = {})
         /\ slot' = slot /\ jobs' = jobs /\ nextSeq' = nextSeq
      \/ Needed(batch) # {} /\ Submit
  BY DEF Receive, Raise
<1>4. Slotted /\ Types
  BY DEF IInv
<1>5. ASSUME NEW s, NEW q PROVE LET j == Job(batch, s, q)
                                IN  /\ j.need = Needed(batch) /\ j.rows = batch
                                    /\ \A r \in DOMAIN batch : j.genAt[r] = idxGen[r]
  BY DEF Job
<1>6. CASE Needed(batch) # {} /\ Submit
  <2> DEFINE s == FirstOf(FreeSlots(Reaped))
             alone == CHOOSE r \in DOMAIN batch : TRUE
             p == [seq |-> nextSeq, req |-> alone, gen |-> batch[alone].gen,
                   start |-> Len(shadow[alone].tokens)]
  <2>1. \/ pc' = "failed" /\ slot' = slot /\ jobs' = jobs /\ nextSeq' = nextSeq
        \/ pc' = "failed" /\ slot' = Reaped /\ jobs' = jobs /\ nextSeq' = nextSeq
        \/ /\ pc' = "idle" /\ werr = None /\ slot' = slot /\ nextSeq' = nextSeq
           /\ jobs' = Append(jobs, Job(batch, None, None))
        \/ /\ pc' = "idle" /\ werr = None /\ nextSeq' = nextSeq + 1
           /\ ~(Cardinality(DOMAIN batch) > 1)
           /\ jobs' = Append(jobs, Job(batch, s, p))
           /\ slot' = [Reaped EXCEPT ![s] =
                 [FreeSlot EXCEPT !.state = "queued", !.prefetch = p, !.done = nextDone]]
    BY <1>6 DEF Submit, Raise
  <2>2. ~(Cardinality(DOMAIN batch) > 1) => Reserved(p)
    <3>1. ASSUME ~(Cardinality(DOMAIN batch) > 1) PROVE DOMAIN batch = {alone}
      BY <1>4, <1>6, <3>1, LoneRequest
    <3> HIDE DEF alone
    <3>2. /\ p.req = alone /\ p.seq = nextSeq /\ p.gen = batch[alone].gen
          /\ p.start = Len(shadow[alone].tokens)
      OBVIOUS
    <3> HIDE DEF p
    <3> QED
      BY <3>1, <3>2 DEF Reserved
  <2>3. CASE /\ pc' = "idle" /\ werr = None /\ slot' = slot /\ nextSeq' = nextSeq
             /\ jobs' = Append(jobs, Job(batch, None, None))
    <3>1. Queued(Job(batch, None, None))
      BY <1>5, <2>3 DEF Queued
    <3> QED
      BY <1>1, <1>2, <1>4, <1>6, <2>3, <3>1, SameSlots
  <2>4. CASE /\ pc' = "idle" /\ werr = None /\ nextSeq' = nextSeq + 1
             /\ ~(Cardinality(DOMAIN batch) > 1)
             /\ jobs' = Append(jobs, Job(batch, s, p))
             /\ slot' = [Reaped EXCEPT ![s] =
                   [FreeSlot EXCEPT !.state = "queued", !.prefetch = p, !.done = nextDone]]
    <3>1. Reserved(p)
      BY <2>2, <2>4
    <3> HIDE DEF s, p, alone
    <3>2. Queued(Job(batch, s, p))
      BY <1>5, <2>4 DEF Queued
    <3>3. Reserve(p)
      BY <2>4 DEF Reserve
    <3>4. NewSlots(p)
      BY <1>4, <3>3, ReservedSlots
    <3> QED
      BY <1>1, <1>2, <1>6, <2>4, <3>1, <3>2, <3>4
  <2>5. CASE /\ pc' = "failed" /\ slot' \in {slot, Reaped} /\ jobs' = jobs /\ nextSeq' = nextSeq
    BY <1>1, <1>2, <1>4, <2>5, SameSlots, ReapedSlots
  <2> QED
    BY <2>1, <2>3, <2>4, <2>5
<1> QED
  BY <1>1, <1>2, <1>3, <1>4, <1>6, SameSlots

\* The step ends without a job for anybody, or the model thread fails.
LEMMA ReceiveNothing ==
    ASSUME IInv, pc = "receive", SlotsKept, shadow' = shadow, idxGen' = idxGen, batch' = batch,
           removing' = removing, wpc' = wpc, job' = job, include' = include, werr' = werr,
           jobs' = jobs,
           computed' = [r \in Requests |-> IF r \in DOMAIN batch THEN Pos(batch, r)
                                          ELSE computed[r]],
           pc' = "failed" \/ (pc' = "idle" /\ Needed(batch) = {}),
           NEW r \in Live
    PROVE  Good(r)'
<1>1. Good(r) /\ Types /\ r \in Live' /\ r \in Requests
  BY DEF IInv, Types, Live
<1>2. AtHand(r)' = AtHand(r) /\ Owing(r)' = Owing(r) /\ Freed(r)' = Freed(r)
  BY <1>1 DEF AtHand, Owing, Owes, Freed
<1>3. CASE pc' = "failed" \/ r \notin DOMAIN batch
  <2>1. pc' \in Going => /\ pc \in Going /\ computed'[r] = computed[r]
                        /\ Stepping(r)' = FALSE /\ Stepping(r) = FALSE
    BY <1>1, <1>3 DEF Going, InStep, Stepping
  <2>2. Steady(r)
    BY <1>2, <2>1 DEF Steady, SlotsKept, Kept
  <2> QED
    BY <1>1, <2>2, SteadyKeeps
<1>4. CASE pc' = "idle" /\ Needed(batch) = {} /\ r \in DOMAIN batch
  <2>1. StepRoom(r) /\ Stepping(r) = TRUE /\ pc \in Going
    BY <1>1, <1>4 DEF Good, Stepping, InStep, Going
  <2>2. /\ Reach(r)' = Reach(r) /\ Reach(r) \in Nat /\ Pos(batch, r) \in Nat
        /\ \A i \in Owing(r) : Pos(jobs[i].rows, r) \in Nat
    BY <1>1, <1>2, <1>4, Positions DEF Reach
  <2>3. computed'[r] = Pos(batch, r) /\ Stepping(r)' = FALSE
    BY <1>1, <1>4 DEF Stepping, InStep
  <2>4. Pos(batch, r) + 1 >= MaxLen
    <3>1. ~(Pos(batch, r) + 1 < MaxLen)
      BY <1>4 DEF Needed, Pos
    <3> QED
      BY <2>2, <3>1, SizeAssumption
  <2>5. Room(r)'
    BY <1>2, <2>1, <2>2, <2>3, <2>4 DEF Room, StepRoom, Pos
  <2>6. ~Freed(r) => Line(r)'
    BY <1>1, <1>2, <2>2 DEF Good, Line, Pos, Shared
  <2>7. ~Freed(r) => Prefetched(r)'
    <3>1. ASSUME NEW s \in Slots, ~Freed(r), slot'[s].prefetch # None, slot'[s].prefetch.req = r,
                 slot'[s].prefetch.gen = shadow[r].gen
          PROVE  /\ slot'[s].prefetch.start \in Nat
                 /\ slot'[s].prefetch.start <= computed'[r]
                 /\ AtHand(r) /\ Shared(job.rows, r) => slot'[s].prefetch.start < Pos(job.rows, r)
                 /\ \A i \in Owing(r) : Shared(jobs[i].rows, r) =>
                       slot'[s].prefetch.start < Pos(jobs[i].rows, r)
      <4>1. slot'[s].prefetch = slot[s].prefetch
        BY <3>1 DEF SlotsKept, Kept
      <4> QED
        BY <1>1, <2>1, <2>2, <2>3, <3>1, <4>1 DEF Good, Prefetched
    <3> QED
      BY <1>2, <2>3, <3>1 DEF Prefetched, Pos, Shared
  <2>8. Current(r)' /\ Indexed(r)'
    BY <1>1, <1>2 DEF Good, Current, Indexed, Pos
  <2>9. (shadow[r].tokens = History(shadow[r].gen, Len(shadow[r].tokens)))'
    BY <1>1 DEF Good, History
  <2> QED
    BY <1>2, <2>3, <2>5, <2>6, <2>7, <2>8, <2>9 DEF Good
<1> QED
  BY <1>3, <1>4

\* What the new job makes of what a request is owed.
LEMMA QueuedOwing ==
    ASSUME IInv, NEW j, Queued(j), pc \in InStep, shadow' = shadow, NEW r \in Live
    PROVE  /\ Len(jobs) \in Nat /\ Owing(r) \subseteq 1..Len(jobs)
           /\ \A i \in Owing(r) : jobs'[i] = jobs[i]
           /\ jobs'[Len(jobs) + 1] = j
           /\ r \in Needed(batch) => Owing(r)' = Owing(r) \cup {Len(jobs) + 1}
           /\ r \notin Needed(batch) => Owing(r)' = Owing(r)
<1>1. IsSeq(jobs) /\ Live' = Live
  BY DEF IInv, Types, Live
<1>2. /\ Len(jobs) \in Nat /\ DOMAIN jobs = 1..Len(jobs)
      /\ DOMAIN Append(jobs, j) = 1..(Len(jobs) + 1)
      /\ \A i \in 1..Len(jobs) : Append(jobs, j)[i] = jobs[i]
      /\ Append(jobs, j)[Len(jobs) + 1] = j
  BY <1>1, SeqAppend
<1>3. Owes(j, r) <=> r \in Needed(batch)
  <2>1. r \in DOMAIN batch => batch[r].gen = shadow[r].gen
    BY DEF IInv, Batched
  <2> QED
    BY <2>1 DEF Owes, Queued, Needed
<1>4. \A x : Owes(x, r)' <=> Owes(x, r)
  BY <1>1 DEF Owes
<1>5. \A i : i \in Owing(r) <=> i \in 1..Len(jobs) /\ Owes(jobs[i], r)
  BY <1>2 DEF Owing
<1>6. \A i : i \in Owing(r)' <=> i \in 1..(Len(jobs) + 1) /\ Owes(jobs'[i], r)
  <2>1. \A i : i \in Owing(r)' <=> i \in DOMAIN jobs' /\ Owes(jobs'[i], r)
    BY <1>1 DEF Owing, Owes
  <2> QED
    BY <1>2, <2>1 DEF Queued
<1>7. /\ \A i \in 1..Len(jobs) : jobs'[i] = jobs[i]
      /\ jobs'[Len(jobs) + 1] = j
  BY <1>2 DEF Queued
<1> HIDE DEF Owing, Owes
<1>8. \A i : i \in Owing(r)' <=> i \in Owing(r) \/ (i = Len(jobs) + 1 /\ r \in Needed(batch))
  BY <1>2, <1>3, <1>5, <1>6, <1>7
<1> QED
  BY <1>2, <1>5, <1>7, <1>8

\* A prefetch of the next state is an old one, or the one of this step.
OldOrReserved == \A s \in Slots : \/ slot'[s].prefetch \in {slot[s].prefetch, None}
                                  \/ Reserved(slot'[s].prefetch)

\* The step ends with a job.
LEMMA ReceiveJob ==
    ASSUME IInv, pc = "receive", OldOrReserved, shadow' = shadow, idxGen' = idxGen,
           batch' = batch, removing' = removing, wpc' = wpc, job' = job, include' = include,
           werr' = werr, werr = None, pc' = "idle", NEW j, Queued(j), Needed(batch) # {},
           computed' = [r \in Requests |-> IF r \in DOMAIN batch THEN Pos(batch, r)
                                          ELSE computed[r]],
           NEW r \in Live
    PROVE  Good(r)'
<1> DEFINE n == Len(jobs) + 1
<1>1. /\ Good(r) /\ Types /\ r \in Live' /\ r \in Requests /\ pc \in InStep
      /\ Len(shadow[r].tokens) \in Nat
  BY DEF IInv, Types, Live, InStep
<1>2. AtHand(r)' = AtHand(r) /\ Freed(r) = FALSE /\ Freed(r)' = FALSE
  BY <1>1 DEF AtHand, Owes, IInv, Batched, Freed
<1>3. /\ Len(jobs) \in Nat /\ Owing(r) \subseteq 1..Len(jobs)
      /\ \A i \in Owing(r) : jobs'[i] = jobs[i]
      /\ jobs'[n] = j
      /\ r \in Needed(batch) => Owing(r)' = Owing(r) \cup {n}
      /\ r \notin Needed(batch) => Owing(r)' = Owing(r)
  BY <1>1, QueuedOwing
<1>4. Reach(r)' = Reach(r) /\ Reach(r) \in Nat /\ Len(shadow[r].tokens) <= Reach(r)
      /\ \A i \in Owing(r) : Pos(jobs[i].rows, r) \in Nat
  BY <1>1, <1>2, Positions, ReachIs DEF Reach
<1>5. Stepping(r)' = FALSE /\ pc \in Going /\ (Stepping(r) <=> r \in DOMAIN batch)
  BY <1>1 DEF Stepping, InStep, Going
<1>6. Current(r)' /\ (shadow[r].tokens = History(shadow[r].gen, Len(shadow[r].tokens)))'
  BY <1>1, <1>2 DEF Good, Current, History, Pos
<1>7. CASE r \notin DOMAIN batch
  <2>1. r \notin Needed(batch)
    BY <1>7 DEF Needed
  <2>2. \A s \in Slots : \/ slot'[s].prefetch \in {slot[s].prefetch, None}
                         \/ slot'[s].prefetch.req # r
    BY <1>7 DEF OldOrReserved, Reserved
  <2>3. Stepping(r) = FALSE /\ computed'[r] = computed[r]
    BY <1>1, <1>7 DEF Stepping
  <2>4. Steady(r)
    BY <1>1, <1>2, <1>3, <1>5, <2>1, <2>2, <2>3 DEF Steady
  <2> QED
    BY <1>1, <2>4, SteadyKeeps
<1>8. CASE r \in DOMAIN batch
  <2> DEFINE P == Pos(batch, r)
  <2>1. StepRoom(r) /\ Line(r) /\ Prefetched(r) /\ Stepping(r) /\ Indexed(r)
    BY <1>1, <1>2, <1>5, <1>8 DEF Good
  <2>2. P \in Nat /\ computed'[r] = P /\ Pos(batch', r) = P
    BY <1>1, <1>8, Positions
  <2>3. /\ \A i \in Owing(r) : Pos(jobs[i].rows, r) < P /\ ~Shared(jobs[i].rows, r)
        /\ AtHand(r) => ~Shared(job.rows, r)
        /\ Reach(r) <= P /\ P <= Reach(r) + 1
        /\ \/ P + 1 >= MaxLen \/ P = Reach(r)
           \/ \E i \in Owing(r) : Pos(jobs[i].rows, r) = Reach(r)
    BY <2>1 DEF StepRoom
  <2>4. r \in Needed(batch) <=> P + 1 < MaxLen
    BY <1>8 DEF Needed, Pos
  <2>5. Shared(j.rows, r) <=> DOMAIN batch # {r}
    BY <1>8 DEF Shared, Queued
  <2>6. Pos(j.rows, r) = P /\ j.genAt[r] = idxGen[r]
    BY <1>8 DEF Queued, Pos
  <2>7. DOMAIN batch = {r} => r \in Needed(batch)
    BY DEF Needed
  <2> HIDE DEF P
  <2>8. Indexed(r)'
    BY <1>2, <1>3, <2>1, <2>6 DEF Indexed
  <2>9. Room(r)'
    <3>1. CASE r \in Needed(batch)
      <4>1. n \in Owing(r)' /\ Pos(jobs'[n].rows, r) = P
        BY <1>3, <2>6, <3>1
      <4>2. \A i \in Owing(r)' : Pos(jobs'[i].rows, r) <= P
        BY <1>3, <1>4, <2>2, <2>3, <2>6, <3>1
      <4> HIDE DEF n
      <4> QED
        BY <1>4, <2>2, <2>3, <4>1, <4>2 DEF Room, Pos
    <3>2. CASE r \notin Needed(batch)
      <4>1. P + 1 >= MaxLen
        BY <2>2, <2>4, <3>2, SizeAssumption
      <4>2. \A i \in Owing(r)' : Pos(jobs'[i].rows, r) <= P
        BY <1>3, <1>4, <2>2, <2>3, <3>2
      <4> QED
        BY <1>4, <2>2, <2>3, <4>1, <4>2 DEF Room, Pos
    <3> QED
      BY <3>1, <3>2
  <2>10. Line(r)'
    <3>1. CASE r \in Needed(batch)
      <4>1. P = Reach(r) \/ (P = Reach(r) + 1 /\ \E i \in Owing(r) : Pos(jobs[i].rows, r) = Reach(r))
        BY <1>4, <2>2, <2>3, <2>4, <3>1, SizeAssumption
      <4>2. \A i \in Owing(r)' : Pos(jobs'[i].rows, r) >= Reach(r)
        BY <1>3, <1>4, <2>1, <2>2, <2>3, <2>6, <3>1 DEF Line
      <4>3. ASSUME NEW i \in Owing(r)', NEW q \in Nat, Reach(r) <= q, q < Pos(jobs'[i].rows, r)
            PROVE  \E k \in Owing(r)' : k < i /\ Pos(jobs'[k].rows, r) = q
        <5>1. CASE i \in Owing(r)
          BY <1>3, <2>1, <3>1, <4>3, <5>1 DEF Line
        <5>2. CASE i = n
          <6>1. q = Reach(r) /\ \E k \in Owing(r) : Pos(jobs[k].rows, r) = Reach(r)
            BY <1>3, <1>4, <2>2, <2>6, <4>1, <4>3, <5>2
          <6> QED
            BY <1>3, <3>1, <5>2, <6>1
        <5> QED
          BY <1>3, <3>1, <4>3, <5>1, <5>2
      <4>4. \A i, k \in Owing(r)' : i < k =>
               Pos(jobs'[i].rows, r) < Pos(jobs'[k].rows, r) /\ ~Shared(jobs'[i].rows, r)
        <5>1. \A i \in Owing(r), k \in Owing(r) : i < k =>
                 Pos(jobs'[i].rows, r) < Pos(jobs'[k].rows, r) /\ ~Shared(jobs'[i].rows, r)
          BY <1>3, <2>1 DEF Line
        <5>2. \A i \in Owing(r) :
                 Pos(jobs'[i].rows, r) < Pos(jobs'[n].rows, r) /\ ~Shared(jobs'[i].rows, r)
          BY <1>3, <2>3, <2>6
        <5>3. \A k \in Owing(r)' : ~(n < k)
          BY <1>3, <3>1
        <5> HIDE DEF n
        <5> QED
          BY <1>3, <3>1, <5>1, <5>2, <5>3
      <4> HIDE DEF n
      <4>5. (\A i \in Owing(r) : Pos(jobs[i].rows, r) >= Reach(r))'
        BY <1>4, <4>2 DEF Pos
      <4>6. (\A i \in Owing(r) :
                \A q \in Nat : Reach(r) <= q /\ q < Pos(jobs[i].rows, r) =>
                   \E k \in Owing(r) : k < i /\ Pos(jobs[k].rows, r) = q)'
        BY <1>4, <4>3 DEF Pos
      <4>7. (\A i, k \in Owing(r) : i < k =>
                Pos(jobs[i].rows, r) < Pos(jobs[k].rows, r) /\ ~Shared(jobs[i].rows, r))'
        BY <4>4 DEF Pos, Shared
      <4>8. (AtHand(r) /\ Shared(job.rows, r) => Owing(r) = {})'
        BY <1>2, <2>3 DEF Shared
      <4> QED
        BY <4>5, <4>6, <4>7, <4>8 DEF Line
    <3>2. CASE r \notin Needed(batch)
      <4>1. Owing(r)' = Owing(r) /\ \A i \in Owing(r) : jobs'[i] = jobs[i]
        BY <1>3, <3>2
      <4>2. (\A i \in Owing(r) : Pos(jobs[i].rows, r) >= Reach(r))'
        BY <1>4, <2>1, <4>1 DEF Line, Pos
      <4>3. (\A i \in Owing(r) :
                \A q \in Nat : Reach(r) <= q /\ q < Pos(jobs[i].rows, r) =>
                   \E k \in Owing(r) : k < i /\ Pos(jobs[k].rows, r) = q)'
        BY <1>4, <2>1, <4>1 DEF Line, Pos
      <4>4. (\A i, k \in Owing(r) : i < k =>
                Pos(jobs[i].rows, r) < Pos(jobs[k].rows, r) /\ ~Shared(jobs[i].rows, r))'
        BY <2>1, <4>1 DEF Line, Pos, Shared
      <4>5. (AtHand(r) /\ Shared(job.rows, r) => Owing(r) = {})'
        BY <1>2, <2>3 DEF Shared
      <4> QED
        BY <4>2, <4>3, <4>4, <4>5 DEF Line
    <3> QED
      BY <3>1, <3>2
  <2>11. Prefetched(r)'
    <3>1. ASSUME NEW s \in Slots, slot'[s].prefetch # None, slot'[s].prefetch.req = r,
                 slot'[s].prefetch.gen = shadow[r].gen
          PROVE  /\ slot'[s].prefetch.start \in Nat
                 /\ slot'[s].prefetch.start <= P
                 /\ AtHand(r) /\ Shared(job.rows, r) => slot'[s].prefetch.start < Pos(job.rows, r)
                 /\ \A i \in Owing(r)' : Shared(jobs'[i].rows, r) =>
                       slot'[s].prefetch.start < Pos(jobs'[i].rows, r)
      <4>1. \A i \in Owing(r)' : Shared(jobs'[i].rows, r) =>
               Pos(jobs'[i].rows, r) = P /\ DOMAIN batch # {r}
        BY <1>3, <2>3, <2>5, <2>6
      <4>2. CASE slot'[s].prefetch = slot[s].prefetch
        <5>1. slot'[s].prefetch.start \in Nat /\ slot'[s].prefetch.start < P
          BY <1>5, <2>1, <3>1, <4>2 DEF Prefetched, P
        <5> QED
          BY <2>2, <2>3, <4>1, <5>1
      <4>3. CASE Reserved(slot'[s].prefetch)
        <5>1. DOMAIN batch = {r} /\ slot'[s].prefetch.start = Len(shadow[r].tokens)
          BY <3>1, <4>3 DEF Reserved
        <5> QED
          BY <1>1, <1>4, <2>2, <2>3, <4>1, <5>1
      <4> QED
        BY <3>1, <4>2, <4>3 DEF OldOrReserved
    <3> QED
      BY <1>2, <1>5, <2>2, <3>1 DEF Prefetched, Pos, Shared
  <2> QED
    BY <1>2, <1>5, <1>6, <2>8, <2>9, <2>10, <2>11 DEF Good
<1> QED
  BY <1>7, <1>8

LEMMA ReceiveKeeps == ASSUME IInv, Receive PROVE IInv'
<1>1. /\ pc = "receive" /\ shadow' = shadow /\ nextGen' = nextGen /\ idxGen' = idxGen
      /\ batch' = batch /\ removing' = removing /\ wpc' = wpc /\ job' = job
      /\ include' = include /\ results' = results /\ werr' = werr
      /\ computed' = [r \in Requests |-> IF r \in DOMAIN batch THEN Pos(batch, r)
                                         ELSE computed[r]]
      /\ \/ /\ pc' = "failed" \/ (pc' = "idle" /\ Needed(batch) = {})
            /\ SlotsKept /\ jobs' = jobs /\ nextSeq' = nextSeq
         \/ /\ pc' = "idle" /\ werr = None /\ Needed(batch) # {}
            /\ SlotsKept /\ nextSeq' = nextSeq /\ \E j : Queued(j)
         \/ /\ pc' = "idle" /\ werr = None /\ Needed(batch) # {}
            /\ nextSeq' = nextSeq + 1
            /\ \E j : Queued(j)
            /\ \E p : Reserved(p) /\ NewSlots(p)
  BY ReceiveIs
<1>2. Types /\ Slotted /\ Live' = Live /\ pc \in InStep
  BY <1>1 DEF IInv, Live, InStep
<1>3. computed' \in [Requests -> Nat]
  <2>1. \A r \in Requests : (IF r \in DOMAIN batch THEN Pos(batch, r) ELSE computed[r]) \in Nat
    BY <1>2, Positions DEF Types
  <2> QED
    BY <1>1, <2>1
<1>4. Batched'
  <2>1. pc' # "remove" /\ pc' \notin InStep /\ DOMAIN removing = {}
    BY <1>1 DEF IInv, Batched, InStep
  <2> QED
    BY <1>1, <2>1 DEF Batched
<1>5. IsBatch(batch) /\ \A r \in DOMAIN batch : batch[r].gen \in Nat /\ batch[r].gen < nextGen
  BY <1>2 DEF IInv, Batched, Types, IsBatch
<1>6. CASE /\ pc' = "failed" \/ (pc' = "idle" /\ Needed(batch) = {})
           /\ SlotsKept /\ jobs' = jobs /\ nextSeq' = nextSeq
  <2>1. Types'
    BY <1>1, <1>2, <1>3, <1>6, TypesFrom DEF Types
  <2>2. Slotted'
    BY <1>1, <1>2, <1>6, KeptSlots
  <2>3. \A r \in Live : Good(r)'
    BY <1>1, <1>6, ReceiveNothing
  <2> QED
    BY <1>2, <1>4, <2>1, <2>2, <2>3 DEF IInv
<1>7. ASSUME pc' = "idle", werr = None, Needed(batch) # {}, NEW j, Queued(j),
             nextSeq' \in Nat, Slotted', OldOrReserved
      PROVE  IInv'
  <2>1. /\ Len(jobs) \in Nat /\ DOMAIN jobs = 1..Len(jobs)
        /\ IsSeq(Append(jobs, j)) /\ DOMAIN Append(jobs, j) = 1..(Len(jobs) + 1)
        /\ \A i \in 1..Len(jobs) : Append(jobs, j)[i] = jobs[i]
        /\ Append(jobs, j)[Len(jobs) + 1] = j
    BY <1>2, SeqAppend DEF Types
  <2>2. IsJob(j, nextGen)
    BY <1>5, <1>7 DEF IsJob, Queued, Needed
  <2>3. IsSeq(jobs') /\ \A i \in DOMAIN jobs' : IsJob(jobs'[i], nextGen)
    <3>1. \A i \in DOMAIN jobs' : i \in 1..Len(jobs) \/ i = Len(jobs) + 1
      BY <1>7, <2>1 DEF Queued
    <3> QED
      BY <1>2, <1>7, <2>1, <2>2, <3>1 DEF Queued, Types
  <2>4. Types'
    BY <1>1, <1>2, <1>3, <1>7, <2>3, TypesFrom DEF Types
  <2>5. \A r \in Live : Good(r)'
    BY <1>1, <1>7, ReceiveJob
  <2> QED
    BY <1>2, <1>4, <1>7, <2>4, <2>5 DEF IInv
<1>8. CASE /\ pc' = "idle" /\ werr = None /\ Needed(batch) # {}
           /\ SlotsKept /\ nextSeq' = nextSeq /\ \E j : Queued(j)
  <2>1. nextSeq' \in Nat /\ Slotted'
    BY <1>1, <1>2, <1>8, KeptSlots DEF Types
  <2>2. OldOrReserved
    BY <1>8 DEF SlotsKept, Kept, OldOrReserved
  <2> QED
    BY <1>7, <1>8, <2>1, <2>2
<1>9. CASE /\ pc' = "idle" /\ werr = None /\ Needed(batch) # {}
           /\ nextSeq' = nextSeq + 1
           /\ \E j : Queued(j)
           /\ \E p : Reserved(p) /\ NewSlots(p)
  <2>1. PICK p : Reserved(p) /\ NewSlots(p)
    BY <1>9
  <2>2. p.seq \in Nat /\ p.gen \in Nat /\ p.gen < nextGen
    BY <1>2, <1>5, <2>1 DEF Reserved, Types
  <2>3. nextSeq' \in Nat /\ OldOrReserved
    BY <1>2, <1>9, <2>1 DEF Types, NewSlots, OldOrReserved
  <2>4. Slotted'
    BY <1>1, <1>2, <2>1, <2>2 DEF Slotted, NewSlots, FreeSlot
  <2> QED
    BY <1>7, <1>9, <2>3, <2>4
<1> QED
  BY <1>1, <1>6, <1>8, <1>9

-----------------------------------------------------------------------------
(* The theorem.                                                            *)

LEMMA Initially == Init => IInv
<1> SUFFICES ASSUME Init PROVE IInv
  OBVIOUS
<1>1. Live = {}
  BY DEF Init, Live
<1>2. IsSeq(<<>>) /\ DOMAIN <<>> = {}
  BY DEF IsSeq
<1>3. Types
  BY <1>1, <1>2 DEF Init, Types, IsBatch
<1>4. Slotted
  BY DEF Init, Slotted, FreeSlot
<1>5. Batched
  BY <1>2 DEF Init, Batched, InStep
<1> QED
  BY <1>1, <1>3, <1>4, <1>5 DEF IInv

LEMMA Steps == IInv /\ [Next]_vars => IInv'
<1> SUFFICES ASSUME IInv, [Next]_vars PROVE IInv'
  OBVIOUS
<1>1. ASSUME NEW b \in SUBSET Requests, NEW gone \in SUBSET Requests, Schedule(b, gone)
      PROVE  IInv'
  BY <1>1, ScheduleKeeps
<1>2. ASSUME NEW r \in Requests, FreeIndex(r) \/ Discard(r) \/ Forget(r) PROVE IInv'
  BY <1>2, FreeIndexKeeps, DiscardKeeps, ForgetKeeps
<1>3. CASE Prepare \/ Receive
  BY <1>3, PrepareKeeps, ReceiveKeeps
<1>4. CASE Acquire \/ Submitted \/ Expire \/ Launch \/ CloseConnector
  BY <1>4, ModelKeeps
<1>5. CASE WorkerWaits \/ WorkerAppends
  BY <1>5, WorkerWaitsKeeps, WorkerAppendsKeeps
<1>6. CASE WorkerPlans \/ WorkerCancels \/ WorkerProduces \/ WorkerActs
  BY <1>6, WorkerKeeps
<1>7. CASE ProducerTakes \/ ProducerReads \/ ProducerReadFails
  BY <1>7, ProducerKeeps
<1>8. CASE ChildReads \/ ChildLands
  BY <1>8, ChildKeeps
<1>9. CASE HandleResult
  BY <1>9, HandleResultKeeps
<1>10. CASE Await \/ CopyRows \/ Forward \/ ConsumerDone \/ Sampled \/ Shutdown \/ JoinWorker
            \/ ChildTakes \/ (\E s \in Slots : Land(s)) \/ UNCHANGED vars
  BY <1>10, DeviceKeeps
<1> QED
  BY <1>1, <1>2, <1>3, <1>4, <1>5, <1>6, <1>7, <1>8, <1>9, <1>10
     DEF Next, Work, ModelThread, ControlWorker, WorkerActs, Producer, Child, MainStream

\* The shadow of every request is its token history, whatever is removed, added
\* again, failed or still queued in the meantime: no token is missing, comes
\* twice or belongs to another generation of the same id.
THEOREM ShadowIsWhole == Spec => []ShadowIsHistory
<1>1. IInv => ShadowIsHistory
  BY DEF IInv, Good, ShadowIsHistory
<1> QED
  BY <1>1, Initially, Steps, PTL DEF Spec
=============================================================================
