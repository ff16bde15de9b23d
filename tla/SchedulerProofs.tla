--------------------------- MODULE SchedulerProofs ---------------------------
(***************************************************************************)
(* Proofs about the scheduler, for every set of requests, all modes and    *)
(* any number of steps in flight: the client gets the tokens of a request  *)
(* in order, each once.  What has to be shown for that is which rows in    *)
(* flight a request still has to hear of, and what the model runner will   *)
(* count for it when their turn comes.                                     *)
(***************************************************************************)
EXTENDS Scheduler, TLAPS, SequenceTheorems

-----------------------------------------------------------------------------
(* The line of steps: the one whose output is being processed, those in    *)
(* flight, oldest first, and the one that is being put together.           *)

End == Len(flight) + 1
Line(i) ==
    IF i = 0 THEN step ELSE IF i = End THEN plan.rows ELSE flight[i].rows

\* What the rows of one step hold for a request.
Zero == [n |-> 0, fresh |-> NoWork]
Share(rows, r) ==
    IF \E j \in DOMAIN rows : rows[j].r = r
    THEN LET j == CHOOSE j \in DOMAIN rows : rows[j].r = r
         IN  [n |-> rows[j].n, fresh |-> rows[j].fresh]
    ELSE Zero
Mine(r) == [i \in 0..End |-> Share(Line(i), r)]

-----------------------------------------------------------------------------
(* The account of one request over a line 0..e with the shares M.          *)

\* S[i] is the number of tokens in the steps before the i-th.
Sums(e, M, S) ==
    /\ S \in [0..e -> Nat] /\ S[0] = 0
    /\ \A i \in 0..(e - 1) : S[i + 1] = S[i] + M[i].n
    /\ \A i, j \in 0..e : i < j => S[i] + M[i].n <= S[j]

\* The first row from step k on starts from the tokens of the request, because
\* it carries them or because the runner has them and no dropped row is left to
\* change that; the rows behind it go on from there.
Chain(e, M, k, runs, clean, tokens, total) ==
    /\ \A i \in k..e : M[i].n > 0 =>
          IF \E j \in k..(i - 1) : M[j].n > 0 THEN M[i].fresh = NoWork
          ELSE IF M[i].fresh = NoWork THEN total = tokens /\ clean
               ELSE M[i].fresh.total = tokens
    /\ runs /\ (\A i \in k..e : M[i].n = 0) => total = tokens /\ clean

\* The stale rows are those before some step k.  A request that is not running
\* has no others, and those that will be heard form a chain.
Account(e, M, flying, stale, drop, runs, tokens, total) ==
    \E S : /\ Sums(e, M, S)
           /\ \E k \in 0..e :
                 /\ flying = S[e] /\ stale = S[k]
                 /\ ~runs => \A i \in k..e : M[i].n = 0
                 /\ Chain(e, M, IF drop /\ stale > 0 THEN k ELSE 0, runs,
                          ~(drop /\ stale > 0), tokens, total)

-----------------------------------------------------------------------------
(* The inductive invariant.                                                *)

Fields == {"status", "tokens", "computed", "holders", "spec", "flying", "stale", "drop",
           "chunk", "again", "seq", "blocks"}
Statuses == {"new", "waiting", "running", "preempted", "remote", "finished", "gone"}
IsReq(q) ==
    /\ DOMAIN q = Fields /\ q.status \in Statuses
    /\ q.tokens \in Int /\ q.computed \in Int /\ q.holders \in Int /\ q.spec \in Int
    /\ q.flying \in Int /\ q.stale \in Int /\ q.drop \in BOOLEAN

IsWork(w) == DOMAIN w = {"total", "computed"} /\ w.total \in Int
IsRow(row) ==
    /\ row.r \in Requests /\ row.n \in Nat \ {0} /\ row.drafts \in Int
    /\ IsWork(row.fresh)

\* A step has at most one row of a request.
IsSeq(s) == \E S : s \in Seq(S)
IsStep(rows) ==
    /\ IsSeq(rows) /\ \A i \in DOMAIN rows : IsRow(rows[i])
    /\ \A i, j \in DOMAIN rows : rows[i].r = rows[j].r => i = j

Types ==
    /\ DOMAIN req = Requests /\ \A r \in Requests : IsReq(req[r])
    /\ DOMAIN worker = Requests /\ \A r \in Requests : IsWork(worker[r])
    /\ out \in [Requests -> Seq(Int)] /\ prompt \in [Requests -> Prompts]
    /\ pc \in {"idle", "running", "waiting", "finish", "output", "reset"}
    /\ DOMAIN plan = {"at", "budget", "rows", "victims", "prefill", "ran", "skips", "loads"}
    /\ plan.at \in Nat \ {0} /\ plan.budget \in Int /\ plan.skips \in Seq(Requests)
    /\ IsStep(plan.rows) /\ IsStep(step)
    /\ IsSeq(flight) /\ \A i \in DOMAIN flight : IsStep(flight[i].rows)

\* A request is at most once in the queues, in one its status allows.
Distinct(s) == \A i, j \in DOMAIN s : s[i] = s[j] => i = j
Apart(s, t) == ToSet(s) \cap ToSet(t) = {}
Idle == {"waiting", "preempted", "remote"}
AllIdle(s) == \A r \in ToSet(s) : req[r].status \in Idle
Queues ==
    /\ running \in Seq(Requests) /\ waiting \in Seq(Requests) /\ skipped \in Seq(Requests)
    /\ Distinct(running) /\ Distinct(waiting) /\ Distinct(skipped) /\ Apart(waiting, skipped)
    /\ \A r \in ToSet(running) : req[r].status = "running"
    /\ AllIdle(waiting) /\ AllIdle(skipped)
    /\ pc = "waiting" => /\ Distinct(plan.skips) /\ AllIdle(plan.skips)
                         /\ Apart(plan.skips, waiting) /\ Apart(plan.skips, skipped)

\* Rows are planned within schedule() only, for running requests, in the order of
\* the running queue; output is processed by update_from_output() only.
Planned ==
    /\ pc \in {"idle", "output", "reset"} => plan.rows = <<>>
    /\ pc # "output" => step = <<>>
    /\ pc = "running" =>
          /\ plan.skips = <<>>
          /\ \A i \in DOMAIN plan.rows : \E j \in DOMAIN running :
                j < plan.at /\ plan.rows[i].r = running[j]
    /\ \A i \in DOMAIN plan.rows : req[plan.rows[i].r].status = "running"

\* What the client has of a request is in order and what the request counts;
\* a request that is not known has nothing; the others have a balanced account.
InOrder(r) == \A i \in DOMAIN out[r] : out[r][i] = prompt[r] + i
Balanced(r) ==
    Account(End, Mine(r), req[r].flying, req[r].stale, req[r].drop,
            req[r].status = "running", req[r].tokens, worker[r].total)
Served(r) ==
    /\ InOrder(r)
    /\ req[r].status = "new" => out[r] = <<>> /\ \A i \in 0..End : Mine(r)[i] = Zero
    /\ req[r].status \in Idle \cup {"running"} =>
          req[r].tokens = prompt[r] + Len(out[r]) /\ Balanced(r)

IInv == Types /\ Queues /\ Planned /\ \A r \in Requests : Served(r)

-----------------------------------------------------------------------------
(* What the actions do to an account.                                      *)

\* A step is sent off: its rows are in flight.
LEMMA SentOff ==
    ASSUME NEW e \in Nat, NEW M, NEW M2, NEW flying \in Int, NEW stale \in Int,
           NEW drop \in BOOLEAN, NEW tokens \in Int, NEW total \in Int,
           \A i \in 0..e : M[i].n \in Nat /\ M2[i] = M[i],
           M2[e + 1] = Zero
    PROVE  \A runs \in BOOLEAN :
              Account(e, M, flying, stale, drop, runs, tokens, total) =>
                 Account(e + 1, M2, flying + M[e].n, stale, drop, runs, tokens, total)
<1> SUFFICES ASSUME NEW runs \in BOOLEAN,
                    Account(e, M, flying, stale, drop, runs, tokens, total)
             PROVE  Account(e + 1, M2, flying + M[e].n, stale, drop, runs, tokens, total)
  OBVIOUS
<1>1. PICK S : /\ Sums(e, M, S)
               /\ \E k \in 0..e :
                     /\ flying = S[e] /\ stale = S[k]
                     /\ ~runs => \A i \in k..e : M[i].n = 0
                     /\ Chain(e, M, IF drop /\ stale > 0 THEN k ELSE 0, runs,
                              ~(drop /\ stale > 0), tokens, total)
  BY DEF Account
<1>2. PICK k \in 0..e :
         /\ flying = S[e] /\ stale = S[k]
         /\ ~runs => \A i \in k..e : M[i].n = 0
         /\ Chain(e, M, IF drop /\ stale > 0 THEN k ELSE 0, runs,
                  ~(drop /\ stale > 0), tokens, total)
  BY <1>1
<1> DEFINE S2 == [i \in 0..(e + 1) |-> IF i = e + 1 THEN S[e] + M[e].n ELSE S[i]]
<1>3. Sums(e + 1, M2, S2)
  <2>1. S2 \in [0..(e + 1) -> Nat] /\ S2[0] = 0
    BY <1>1 DEF Sums
  <2>2. ASSUME NEW i \in 0..((e + 1) - 1) PROVE S2[i + 1] = S2[i] + M2[i].n
    <3>1. CASE i = e
      BY <3>1
    <3>2. CASE i # e
      <4>1. i \in 0..(e - 1) /\ i + 1 \in 0..(e + 1) /\ i + 1 # e + 1 /\ i \in 0..e
        BY <3>2
      <4>2. S[i + 1] = S[i] + M[i].n
        BY <4>1, <1>1 DEF Sums
      <4> QED
        BY <4>1, <4>2
    <3> QED
      BY <3>1, <3>2
  <2>3. ASSUME NEW i \in 0..(e + 1), NEW j \in 0..(e + 1), i < j
        PROVE  S2[i] + M2[i].n <= S2[j]
    <3>1. CASE j = e + 1 /\ i = e
      BY <3>1, <1>1 DEF Sums
    <3>2. CASE j = e + 1 /\ i < e
      <4>0. i \in 0..e /\ e \in 0..e
        BY <3>2
      <4>1. /\ S[i] + M[i].n <= S[e] /\ M[e].n \in Nat /\ M[i].n \in Nat
            /\ S[e] \in Nat /\ S[i] \in Nat
        <5>1. S[i] + M[i].n <= S[e]
          BY <1>1, <3>2, <4>0 DEF Sums
        <5>2. S \in [0..e -> Nat]
          BY <1>1 DEF Sums
        <5> QED
          BY <4>0, <5>1, <5>2
      <4> QED
        BY <4>1, <3>2
    <3>3. CASE j < e + 1
      <4>1. i \in 0..e /\ j \in 0..e /\ i # e + 1 /\ j # e + 1
        BY <2>3, <3>3
      <4>2. S[i] + M[i].n <= S[j]
        BY <2>3, <4>1, <1>1 DEF Sums
      <4> QED
        BY <4>1, <4>2
    <3> QED
      BY <2>3, <3>1, <3>2, <3>3
  <2> QED
    BY <2>1, <2>2, <2>3 DEF Sums
<1>4. /\ flying + M[e].n = S2[e + 1] /\ stale = S2[k] /\ k \in 0..(e + 1)
      /\ ~runs => \A i \in k..(e + 1) : M2[i].n = 0
  BY <1>2 DEF Zero
<1>5. ASSUME NEW m \in 0..e, NEW clean, Chain(e, M, m, runs, clean, tokens, total)
      PROVE  Chain(e + 1, M2, m, runs, clean, tokens, total)
  <2>1. M2[e + 1].n = 0
    BY DEF Zero
  <2>2. ASSUME NEW i \in m..(e + 1), M2[i].n > 0
        PROVE  i \in m..e /\ (\A j \in m..(i - 1) : M2[j] = M[j]) /\ M2[i] = M[i]
    BY <2>1, <2>2
  <2>3. \A i \in m..e : i \in m..(e + 1) /\ M2[i] = M[i]
    OBVIOUS
  <2> QED
    BY <1>5, <2>2, <2>3 DEF Chain
<1> HIDE DEF S2
<1> QED
  BY <1>2, <1>3, <1>4, <1>5 DEF Account

\* The oldest step is taken out of flight: it moves to place 0, which was empty.
\* The rows of a request before and after the oldest step goes to place 0.
Taken(e, M, M2) ==
    /\ \A i \in 0..e : M[i].n \in Nat
    /\ \A i \in 0..(e - 1) : M2[i] = M[i + 1]
    /\ M[0].n = 0

LEMMA Collected ==
    ASSUME NEW e \in Nat, e >= 1, NEW M, NEW M2, NEW flying \in Int, NEW stale \in Int,
           NEW drop \in BOOLEAN, NEW tokens \in Int, NEW total \in Int,
           Taken(e, M, M2)
    PROVE  \A runs \in BOOLEAN :
              Account(e, M, flying, stale, drop, runs, tokens, total) =>
                 Account(e - 1, M2, flying, stale, drop, runs, tokens, total)
<1> SUFFICES ASSUME NEW runs \in BOOLEAN,
                    Account(e, M, flying, stale, drop, runs, tokens, total)
             PROVE  Account(e - 1, M2, flying, stale, drop, runs, tokens, total)
  OBVIOUS
<1>0. /\ \A i \in 0..e : M[i].n \in Nat
      /\ \A i \in 0..(e - 1) : M2[i] = M[i + 1]
      /\ M[0].n = 0
  BY DEF Taken
<1> USE <1>0
<1>1. PICK S : /\ Sums(e, M, S)
               /\ \E k \in 0..e :
                     /\ flying = S[e] /\ stale = S[k]
                     /\ ~runs => \A i \in k..e : M[i].n = 0
                     /\ Chain(e, M, IF drop /\ stale > 0 THEN k ELSE 0, runs,
                              ~(drop /\ stale > 0), tokens, total)
  BY DEF Account
<1>2. PICK k \in 0..e :
         /\ flying = S[e] /\ stale = S[k]
         /\ ~runs => \A i \in k..e : M[i].n = 0
         /\ Chain(e, M, IF drop /\ stale > 0 THEN k ELSE 0, runs,
                  ~(drop /\ stale > 0), tokens, total)
  BY <1>1
<1> DEFINE S2 == [i \in 0..(e - 1) |-> S[i + 1]]
           k2 == IF k = 0 THEN 0 ELSE k - 1
<1>3. S[0] = 0 /\ S[1] = 0
  <2>1. 0 \in 0..(e - 1) /\ 0 + 1 = 1
    OBVIOUS
  <2>2. S[0] = 0 /\ S[0 + 1] = S[0] + M[0].n
    BY <1>1, <2>1 DEF Sums
  <2> QED
    BY <2>1, <2>2
<1>4. Sums(e - 1, M2, S2)
  <2>1. S2 \in [0..(e - 1) -> Nat] /\ S2[0] = 0
    <3>1. S \in [0..e -> Nat]
      BY <1>1 DEF Sums
    <3>2. \A i \in 0..(e - 1) : i + 1 \in 0..e
      OBVIOUS
    <3>3. \A i \in 0..(e - 1) : S[i + 1] \in Nat
      BY <3>1, <3>2
    <3>4. 0 \in 0..(e - 1) /\ 0 + 1 = 1
      OBVIOUS
    <3> QED
      BY <3>3, <3>4, <1>3
  <2>2. ASSUME NEW i \in 0..((e - 1) - 1) PROVE S2[i + 1] = S2[i] + M2[i].n
    <3>1. i + 1 \in 0..(e - 1) /\ i \in 0..(e - 1)
      OBVIOUS
    <3>2. S[(i + 1) + 1] = S[i + 1] + M[i + 1].n
      BY <1>1, <3>1 DEF Sums
    <3> QED
      BY <3>1, <3>2
  <2>3. ASSUME NEW i \in 0..(e - 1), NEW j \in 0..(e - 1), i < j
        PROVE  S2[i] + M2[i].n <= S2[j]
    <3>1. i + 1 \in 0..e /\ j + 1 \in 0..e /\ i + 1 < j + 1
      BY <2>3
    <3>2. S[i + 1] + M[i + 1].n <= S[j + 1]
      BY <1>1, <3>1 DEF Sums
    <3> QED
      BY <3>2
  <2> QED
    BY <2>1, <2>2, <2>3 DEF Sums
<1>5. /\ k2 \in 0..(e - 1) /\ flying = S2[e - 1] /\ stale = S2[k2]
      /\ ~runs => \A i \in k2..(e - 1) : M2[i].n = 0
  <2>1. k2 \in 0..(e - 1) /\ e - 1 \in 0..(e - 1) /\ (e - 1) + 1 = e
    OBVIOUS
  <2>2. stale = S[k2 + 1]
    BY <1>2, <1>3
  <2>3. ~runs => \A i \in k2..(e - 1) : M2[i].n = 0
    <3>1. \A i \in k2..(e - 1) : i \in 0..(e - 1) /\ i + 1 \in k..e
      OBVIOUS
    <3> QED
      BY <1>2, <3>1
  <2> QED
    BY <1>2, <2>1, <2>2, <2>3
<1>6. ASSUME NEW m \in 0..e, NEW clean, Chain(e, M, m, runs, clean, tokens, total)
      PROVE  Chain(e - 1, M2, IF m = 0 THEN 0 ELSE m - 1, runs, clean, tokens, total)
  <2> DEFINE m2 == IF m = 0 THEN 0 ELSE m - 1
  <2>1. m2 \in Nat /\ m <= m2 + 1
    OBVIOUS
  <2>2. \A i \in m2..(e - 1) : i + 1 \in m..e /\ M2[i] = M[i + 1]
    BY <2>1
  <2>3. ASSUME NEW i \in m..e, M[i].n > 0
        PROVE  i - 1 \in m2..(e - 1) /\ M2[i - 1] = M[i]
    <3>1. i # 0
      BY <2>3
    <3>2. i - 1 \in m2..(e - 1) /\ i - 1 \in 0..(e - 1) /\ (i - 1) + 1 = i
      BY <3>1
    <3> QED
      BY <3>2
  <2>4. ASSUME NEW i \in m2..(e - 1), M2[i].n > 0
        PROVE  IF \E j \in m2..(i - 1) : M2[j].n > 0 THEN M2[i].fresh = NoWork
               ELSE IF M2[i].fresh = NoWork THEN total = tokens /\ clean
                    ELSE M2[i].fresh.total = tokens
    <3>0. i \in Int
      OBVIOUS
    <3>1. i + 1 \in m..e /\ M2[i] = M[i + 1] /\ (i + 1) - 1 = i
      <4>1. (i + 1) - 1 = i
        BY <3>0
      <4>2. i + 1 \in m..e /\ M2[i] = M[i + 1]
        BY <2>2
      <4> QED
        BY <4>1, <4>2
    <3>2. IF \E j \in m..i : M[j].n > 0 THEN M[i + 1].fresh = NoWork
          ELSE IF M[i + 1].fresh = NoWork THEN total = tokens /\ clean
               ELSE M[i + 1].fresh.total = tokens
      BY <1>6, <2>4, <3>1 DEF Chain
    <3>3. ASSUME NEW j \in m..i, M[j].n > 0
          PROVE  j - 1 \in m2..(i - 1) /\ M2[j - 1].n > 0
      <4>1. j \in m..e
        BY <3>1
      <4>2. j - 1 \in m2..(e - 1) /\ M2[j - 1] = M[j]
        BY <2>3, <3>3, <4>1
      <4> QED
        BY <3>3, <4>2
    <3>4. ASSUME NEW j \in m2..(i - 1), M2[j].n > 0
          PROVE  j + 1 \in m..i /\ M[j + 1].n > 0
      BY <2>2, <3>1, <3>4
    <3> QED
      BY <3>1, <3>2, <3>3, <3>4
  <2>5. ASSUME runs, \A i \in m2..(e - 1) : M2[i].n = 0
        PROVE  total = tokens /\ clean
    <3>1. \A i \in m..e : M[i].n = 0
      <4>1. \A i \in m..e : M[i].n \in Nat
        OBVIOUS
      <4> QED
        BY <2>3, <2>5, <4>1
    <3> QED
      BY <1>6, <2>5, <3>1 DEF Chain
  <2> QED
    BY <2>4, <2>5 DEF Chain
<1>7. Chain(e - 1, M2, IF drop /\ stale > 0 THEN k2 ELSE 0, runs,
            ~(drop /\ stale > 0), tokens, total)
  BY <1>2, <1>6
<1> HIDE DEF S2, k2
<1> QED
  BY <1>4, <1>5, <1>7 DEF Account

\* A running request without a planned row is preempted: all its rows become stale.
LEMMA BecomesStale ==
    ASSUME NEW e \in Nat, NEW M, NEW flying \in Int, NEW stale \in Int,
           NEW drop \in BOOLEAN, NEW tokens \in Int, NEW total \in Int,
           \A i \in 0..e : M[i].n \in Nat,
           M[e].n = 0,
           Account(e, M, flying, stale, drop, TRUE, tokens, total)
    PROVE  \A drop2 \in BOOLEAN :
              (drop /\ stale > 0 => drop2) => Account(e, M, flying, flying, drop2, FALSE, tokens, total)
<1> SUFFICES ASSUME NEW drop2 \in BOOLEAN, drop /\ stale > 0 => drop2
             PROVE  Account(e, M, flying, flying, drop2, FALSE, tokens, total)
  OBVIOUS
<1>1. PICK S : /\ Sums(e, M, S)
               /\ \E k \in 0..e :
                     /\ flying = S[e] /\ stale = S[k]
                     /\ Chain(e, M, IF drop /\ stale > 0 THEN k ELSE 0, TRUE,
                              ~(drop /\ stale > 0), tokens, total)
  BY DEF Account
<1>2. flying = S[e] /\ e \in 0..e /\ \A i \in e..e : M[i].n = 0
  BY <1>1
<1>3. Chain(e, M, IF drop2 /\ flying > 0 THEN e ELSE 0, FALSE,
            ~(drop2 /\ flying > 0), tokens, total)
  <2>1. CASE drop2 /\ flying > 0
    BY <1>2, <2>1 DEF Chain
  <2>2. CASE ~(flying > 0)
    <3>1. \A i \in 0..e : M[i].n = 0
      <4>1. ASSUME NEW i \in 0..e, i < e PROVE M[i].n = 0
        <5>1. S[i] + M[i].n <= S[e] /\ S[i] \in Nat /\ M[i].n \in Nat
          BY <1>1, <4>1 DEF Sums
        <5> QED
          BY <1>2, <2>2, <5>1
      <4> QED
        BY <4>1
    <3> QED
      BY <2>2, <3>1 DEF Chain
  <2>3. CASE ~drop2
    <3>1. Chain(e, M, 0, TRUE, TRUE, tokens, total)
      BY <1>1, <2>3
    <3> QED
      BY <2>3, <3>1 DEF Chain
  <2> QED
    BY <2>1, <2>2, <2>3
<1> QED
  BY <1>1, <1>2, <1>3 DEF Account

\* A row planned last changes no sum.
LEMMA SumsBefore ==
    ASSUME NEW e \in Nat, NEW M, NEW M2, NEW S,
           \A i \in 0..e : M[i].n \in Nat,
           \A i \in 0..e : i # e => M2[i] = M[i],
           Sums(e, M, S)
    PROVE  Sums(e, M2, S)
<1>1. S \in [0..e -> Nat] /\ S[0] = 0
  BY DEF Sums
<1>2. ASSUME NEW i \in 0..(e - 1) PROVE S[i + 1] = S[i] + M2[i].n
  <2>1. i \in 0..e /\ i # e
    OBVIOUS
  <2> QED
    BY <2>1 DEF Sums
<1>3. ASSUME NEW i \in 0..e, NEW j \in 0..e, i < j PROVE S[i] + M2[i].n <= S[j]
  <2>1. i # e
    BY <1>3
  <2> QED
    BY <1>3, <2>1 DEF Sums
<1> QED
  BY <1>1, <1>2, <1>3 DEF Sums

\* A running request without a planned row gets one.
LEMMA RowPlanned ==
    ASSUME NEW e \in Nat, NEW M, NEW M2, NEW flying \in Int, NEW stale \in Int,
           NEW drop \in BOOLEAN, NEW tokens \in Int, NEW total \in Int,
           \A i \in 0..e : M[i].n \in Nat,
           \A i \in 0..e : i # e => M2[i] = M[i],
           M[e].n = 0, M2[e].n \in Nat, M2[e].n > 0, M2[e].fresh = NoWork,
           Account(e, M, flying, stale, drop, TRUE, tokens, total)
    PROVE  Account(e, M2, flying, stale, drop, TRUE, tokens, total)
<1>1. PICK S : /\ Sums(e, M, S)
               /\ \E k \in 0..e :
                     /\ flying = S[e] /\ stale = S[k]
                     /\ Chain(e, M, IF drop /\ stale > 0 THEN k ELSE 0, TRUE,
                              ~(drop /\ stale > 0), tokens, total)
  BY DEF Account
<1>2. PICK k \in 0..e :
         /\ flying = S[e] /\ stale = S[k]
         /\ Chain(e, M, IF drop /\ stale > 0 THEN k ELSE 0, TRUE,
                  ~(drop /\ stale > 0), tokens, total)
  BY <1>1
<1>3. Sums(e, M2, S)
  BY <1>1, SumsBefore
<1>4. ASSUME NEW m \in 0..e, NEW clean, Chain(e, M, m, TRUE, clean, tokens, total)
      PROVE  Chain(e, M2, m, TRUE, clean, tokens, total)
  <2>1. e \in m..e /\ \A i \in m..e : i \in 0..e /\ i \in Int
    OBVIOUS
  <2>2. ASSUME NEW i \in m..e, M2[i].n > 0
        PROVE  IF \E j \in m..(i - 1) : M2[j].n > 0 THEN M2[i].fresh = NoWork
               ELSE IF M2[i].fresh = NoWork THEN total = tokens /\ clean
                    ELSE M2[i].fresh.total = tokens
    <3>1. \A j \in m..(i - 1) : j \in 0..e /\ j # e
      OBVIOUS
    <3>2. \A j \in m..(i - 1) : M2[j] = M[j]
      BY <3>1
    <3>3. CASE i # e
      <4>1. M2[i] = M[i]
        BY <2>1, <3>3
      <4> QED
        BY <1>4, <2>2, <3>2, <4>1 DEF Chain
    <3>4. CASE i = e
      <4>1. ASSUME \A j \in m..(i - 1) : ~(M2[j].n > 0)
            PROVE  total = tokens /\ clean
        <5>1. ASSUME NEW j \in m..e PROVE M[j].n = 0
          <6>1. CASE j = e
            BY <6>1
          <6>2. CASE j # e
            <7>1. j \in m..(i - 1) /\ M[j].n \in Nat
              BY <2>1, <3>4, <6>2
            <7>2. ~(M[j].n > 0)
              BY <3>2, <4>1, <7>1
            <7> QED
              BY <7>1, <7>2
          <6> QED
            BY <6>1, <6>2
        <5> QED
          BY <1>4, <5>1 DEF Chain
      <4> QED
        BY <3>4, <4>1
    <3> QED
      BY <3>3, <3>4
  <2> QED
    BY <2>1, <2>2 DEF Chain
<1>5. Chain(e, M2, IF drop /\ stale > 0 THEN k ELSE 0, TRUE,
            ~(drop /\ stale > 0), tokens, total)
  <2>1. 0 \in 0..e /\ k \in 0..e
    OBVIOUS
  <2>2. CASE drop /\ stale > 0
    <3>1. Chain(e, M, k, TRUE, ~(drop /\ stale > 0), tokens, total)
      BY <1>2, <2>2
    <3>2. Chain(e, M2, k, TRUE, ~(drop /\ stale > 0), tokens, total)
      BY <1>4, <3>1
    <3> QED
      BY <2>2, <3>2
  <2>3. CASE ~(drop /\ stale > 0)
    <3>1. Chain(e, M, 0, TRUE, ~(drop /\ stale > 0), tokens, total)
      BY <1>2, <2>3
    <3>2. Chain(e, M2, 0, TRUE, ~(drop /\ stale > 0), tokens, total)
      BY <1>4, <2>1, <3>1
    <3> QED
      BY <2>3, <3>2
  <2> QED
    BY <2>2, <2>3
<1> QED
  BY <1>2, <1>3, <1>5 DEF Account

\* A request of which no row is left to hear is admitted with a row of its own.
LEMMA RowAdmitted ==
    ASSUME NEW e \in Nat, NEW M, NEW M2, NEW flying \in Int, NEW stale \in Int,
           NEW drop \in BOOLEAN, NEW tokens \in Int, NEW total \in Int,
           \A i \in 0..e : M[i].n \in Nat,
           \A i \in 0..e : i # e => M2[i] = M[i],
           M2[e].n \in Nat, M2[e].n > 0, M2[e].fresh # NoWork, M2[e].fresh.total = tokens,
           ~(stale > 0 /\ ~drop),
           Account(e, M, flying, stale, drop, FALSE, tokens, total)
    PROVE  Account(e, M2, flying, stale, drop, TRUE, tokens, total)
<1>1. PICK S : /\ Sums(e, M, S)
               /\ \E k \in 0..e :
                     /\ flying = S[e] /\ stale = S[k] /\ \A i \in k..e : M[i].n = 0
  BY DEF Account
<1>2. PICK k \in 0..e : flying = S[e] /\ stale = S[k] /\ \A i \in k..e : M[i].n = 0
  BY <1>1
<1>3. Sums(e, M2, S)
  BY <1>1, SumsBefore
<1> DEFINE m == IF drop /\ stale > 0 THEN k ELSE 0
<1>4. m \in 0..e /\ \A i \in m..e : M[i].n = 0
  <2>1. CASE drop /\ stale > 0
    BY <1>2, <2>1
  <2>2. CASE ~(drop /\ stale > 0)
    <3>1. S \in [0..e -> Nat]
      BY <1>1 DEF Sums
    <3>2. S[k] \in Nat /\ ~(stale > 0)
      BY <2>2, <3>1
    <3>3. S[k] = 0
      BY <1>2, <3>2
    <3>4. ASSUME NEW i \in 0..e, i < k PROVE M[i].n = 0
      <4>1. S[i] + M[i].n <= S[k]
        BY <1>1, <3>4 DEF Sums
      <4>2. S[i] \in Nat /\ M[i].n \in Nat
        BY <3>1
      <4> QED
        BY <3>3, <4>1, <4>2
    <3>5. ASSUME NEW i \in 0..e, ~(i < k) PROVE M[i].n = 0
      <4>1. i \in k..e
        BY <3>5
      <4> QED
        BY <1>2, <4>1
    <3> QED
      BY <2>2, <3>4, <3>5
  <2> QED
    BY <2>1, <2>2
<1> HIDE DEF m
<1>5. Chain(e, M2, m, TRUE, ~(drop /\ stale > 0), tokens, total)
  <2>1. \A i \in m..e : i # e => M2[i].n = 0
    <3>1. \A i \in m..e : i \in 0..e
      BY <1>4
    <3> QED
      BY <1>4, <3>1
  <2>2. \A i \in m..e : M2[i].n > 0 => i = e
    BY <2>1
  <2>3. \A j \in m..(e - 1) : M2[j].n = 0
    <3>1. \A j \in m..(e - 1) : j \in m..e /\ j # e
      BY <1>4
    <3> QED
      BY <2>1, <3>1
  <2>4. e \in m..e
    BY <1>4
  <2>5. \A i \in m..e : M2[i].n > 0 =>
          /\ ~\E j \in m..(i - 1) : M2[j].n > 0
          /\ M2[i].fresh # NoWork /\ M2[i].fresh.total = tokens
    BY <2>2, <2>3
  <2>6. ~\A i \in m..e : M2[i].n = 0
    BY <2>4
  <2> QED
    BY <2>5, <2>6 DEF Chain
<1> QED
  BY <1>2, <1>3, <1>5 DEF Account, m

\* The row at the head is processed: every sum behind it falls by its tokens.
Rest(e, S, n) == [i \in 0..e |-> IF i = 0 THEN 0 ELSE S[i] - n]
LEMMA SumsBehind ==
    ASSUME NEW e \in Nat, NEW M, NEW M2, NEW S,
           \A i \in 0..e : M[i].n \in Nat,
           M2[0].n = 0, \A i \in 0..e : i # 0 => M2[i] = M[i],
           Sums(e, M, S)
    PROVE  /\ Sums(e, M2, Rest(e, S, M[0].n))
           /\ \A i \in 0..e : i # 0 => S[i] >= M[0].n
<1>1. S \in [0..e -> Nat] /\ S[0] = 0 /\ 0 \in 0..e
  BY DEF Sums
<1>2. ASSUME NEW i \in 0..e, i # 0 PROVE S[i] >= M[0].n
  <2>1. S[0] + M[0].n <= S[i]
    BY <1>2 DEF Sums
  <2>2. M[0].n \in Nat
    OBVIOUS
  <2> QED
    BY <1>1, <2>1, <2>2
<1> DEFINE n == M[0].n
           S2 == [i \in 0..e |-> IF i = 0 THEN 0 ELSE S[i] - n]
<1>3. n \in Nat
  OBVIOUS
<1>4. ASSUME NEW i \in 0..e PROVE S2[i] \in Nat /\ S2[i] = IF i = 0 THEN 0 ELSE S[i] - n
  <2>1. S[i] \in Nat
    BY <1>1
  <2> QED
    BY <1>2, <1>3, <2>1
<1>5. S2 \in [0..e -> Nat] /\ S2[0] = 0
  BY <1>1, <1>4
<1>6. ASSUME NEW i \in 0..(e - 1) PROVE S2[i + 1] = S2[i] + M2[i].n
  <2>1. i \in 0..e /\ i + 1 \in 0..e /\ i + 1 # 0
    OBVIOUS
  <2>2. S[i + 1] = S[i] + M[i].n /\ S[i] \in Nat /\ S[i + 1] \in Nat
    BY <1>1, <2>1 DEF Sums
  <2>3. CASE i = 0
    BY <1>1, <1>3, <1>4, <2>1, <2>2, <2>3
  <2>4. CASE i # 0
    <3>1. M2[i] = M[i] /\ M[i].n \in Nat
      BY <2>1, <2>4
    <3>2. S2[i + 1] = S[i + 1] - n /\ S2[i] = S[i] - n
      BY <1>4, <2>1, <2>4
    <3> QED
      BY <1>3, <2>2, <3>1, <3>2
  <2> QED
    BY <2>3, <2>4
<1>7. ASSUME NEW i \in 0..e, NEW j \in 0..e, i < j PROVE S2[i] + M2[i].n <= S2[j]
  <2>1. S[i] + M[i].n <= S[j] /\ S[i] \in Nat /\ S[j] \in Nat /\ M[i].n \in Nat
    BY <1>1, <1>7 DEF Sums
  <2>2. j # 0
    BY <1>7
  <2>3. S2[j] = S[j] - n /\ S2[j] \in Nat
    BY <1>4, <2>2
  <2>4. CASE i = 0
    <3>1. S2[i] = 0 /\ M2[i].n = 0
      BY <1>4, <2>4
    <3> QED
      BY <2>3, <3>1
  <2>5. CASE i # 0
    <3>1. M2[i] = M[i] /\ S2[i] = S[i] - n
      BY <1>4, <2>5
    <3> QED
      BY <1>3, <2>1, <2>3, <3>1
  <2> QED
    BY <2>4, <2>5
<1> QED
  BY <1>2, <1>5, <1>6, <1>7 DEF Sums, Rest

\* Its rows up to the last stale one will be dropped.
Dropping(drop, stale) == drop /\ stale > 0

\* The rows M of a request, before and after the step in place 0 is processed.
Processed(e, M, M2) ==
    /\ \A i \in 0..e : M[i].n \in Nat
    /\ M2[0].n = 0 /\ \A i \in 0..e : i # 0 => M2[i] = M[i]

\* A row that will be dropped: what is left to hear does not depend on what the
\* runner makes of it.
LEMMA RowDropped ==
    ASSUME NEW e \in Nat, NEW M, NEW M2, NEW flying \in Int, NEW stale \in Int,
           NEW runs, NEW tokens \in Int, NEW total \in Int, NEW total2 \in Int,
           NEW flying2, NEW stale2, NEW drop \in BOOLEAN,
           flying2 = flying - M[0].n, stale2 = stale - M[0].n,
           Processed(e, M, M2), Dropping(drop, stale),
           Account(e, M, flying, stale, drop, runs, tokens, total)
    PROVE  Account(e, M2, flying2, stale2, drop, runs, tokens, total2)
<1>0. /\ \A i \in 0..e : M[i].n \in Nat
      /\ M2[0].n = 0 /\ \A i \in 0..e : i # 0 => M2[i] = M[i]
  BY DEF Processed
<1>a. drop = TRUE /\ stale > 0
  BY DEF Dropping
<1> USE <1>0, <1>a
<1>1. PICK S : /\ Sums(e, M, S)
               /\ \E k \in 0..e :
                     /\ flying = S[e] /\ stale = S[k]
                     /\ ~runs => \A i \in k..e : M[i].n = 0
                     /\ Chain(e, M, k, runs, FALSE, tokens, total)
  BY DEF Account
<1>2. PICK k \in 0..e :
         /\ flying = S[e] /\ stale = S[k]
         /\ ~runs => \A i \in k..e : M[i].n = 0
         /\ Chain(e, M, k, runs, FALSE, tokens, total)
  BY <1>1
<1>3. S[0] = 0 /\ S \in [0..e -> Nat]
  BY <1>1 DEF Sums
<1>4. k # 0 /\ e # 0
  BY <1>2, <1>3
<1> DEFINE n == M[0].n
           S2 == Rest(e, S, n)
<1>5. Sums(e, M2, S2)
  BY <1>1, SumsBehind
<1>6. flying - n = S2[e] /\ stale - n = S2[k]
  BY <1>2, <1>4 DEF Rest
<1>7. \A i \in k..e : M2[i] = M[i] /\ i \in 0..e
  BY <1>4
<1>8. ~runs => \A i \in k..e : M2[i].n = 0
  BY <1>2, <1>7
<1>9. Chain(e, M2, k, runs, FALSE, tokens, total2)
  <2>1. \A i \in k..e : \A j \in k..(i - 1) : M2[j] = M[j]
    <3>1. \A i \in k..e : \A j \in k..(i - 1) : j \in k..e
      OBVIOUS
    <3> QED
      BY <1>7, <3>1
  <2> QED
    BY <1>2, <1>7, <2>1 DEF Chain
<1>10. ASSUME ~(stale - n > 0) PROVE Chain(e, M2, 0, runs, TRUE, tokens, total2)
  <2>1. S2 \in [0..e -> Nat]
    BY <1>5 DEF Sums
  <2>2. S2[k] = 0
    <3>1. S2[k] \in Nat
      BY <2>1
    <3> QED
      BY <1>6, <1>10, <3>1
  <2>3. \A i \in 0..e : M2[i].n \in Nat
    <3>1. \A i \in 0..e : i = 0 \/ M2[i] = M[i]
      OBVIOUS
    <3> QED
      BY <3>1
  <2>4. ASSUME NEW i \in 0..e, i < k PROVE M2[i].n = 0
    <3>1. S2[i] + M2[i].n <= S2[k]
      BY <1>5, <2>4 DEF Sums
    <3>2. S2[i] \in Nat /\ M2[i].n \in Nat
      BY <2>1, <2>3
    <3> QED
      BY <2>2, <3>1, <3>2
  <2>5. ASSUME NEW i \in 0..e, M2[i].n > 0
        PROVE  IF \E j \in 0..(i - 1) : M2[j].n > 0 THEN M2[i].fresh = NoWork
               ELSE IF M2[i].fresh = NoWork THEN total2 = tokens /\ TRUE
                    ELSE M2[i].fresh.total = tokens
    <3>1. ~(i < k)
      BY <2>4, <2>5
    <3>2. i \in k..e
      BY <3>1
    <3>3. IF \E j \in k..(i - 1) : M2[j].n > 0 THEN M2[i].fresh = NoWork
          ELSE IF M2[i].fresh = NoWork THEN total2 = tokens /\ FALSE
               ELSE M2[i].fresh.total = tokens
      BY <1>9, <2>5, <3>2 DEF Chain
    <3>4. ASSUME NEW j \in 0..(i - 1), M2[j].n > 0 PROVE j \in k..(i - 1)
      <4>1. j \in 0..e
        OBVIOUS
      <4>2. ~(j < k)
        BY <2>4, <3>4, <4>1
      <4> QED
        BY <4>2
    <3>5. \A j \in k..(i - 1) : j \in 0..(i - 1)
      OBVIOUS
    <3> QED
      BY <3>3, <3>4, <3>5
  <2>6. ASSUME runs PROVE ~\A i \in 0..e : M2[i].n = 0
    <3>1. ~\A i \in k..e : M2[i].n = 0
      BY <1>9, <2>6 DEF Chain
    <3> QED
      BY <1>7, <3>1
  <2> QED
    BY <2>5, <2>6 DEF Chain
<1>11. Chain(e, M2, IF drop /\ stale - n > 0 THEN k ELSE 0, runs,
             ~(drop /\ stale - n > 0), tokens, total2)
  BY <1>9, <1>10
<1> HIDE DEF S2, n
<1>12. Account(e, M2, flying - n, stale - n, drop, runs, tokens, total2)
  BY <1>5, <1>6, <1>8, <1>11 DEF Account
<1> QED
  BY <1>12 DEF n

\* A row that is heard starts from the tokens of the request.
LEMMA RowStarts ==
    ASSUME NEW e \in Nat, NEW M, NEW flying \in Int, NEW stale \in Int,
           NEW runs, NEW tokens \in Int, NEW total \in Int, NEW drop \in BOOLEAN,
           M[0].n > 0, ~Dropping(drop, stale),
           Account(e, M, flying, stale, drop, runs, tokens, total)
    PROVE  IF M[0].fresh = NoWork THEN total = tokens ELSE M[0].fresh.total = tokens
<1>1. ~(drop /\ stale > 0)
  BY DEF Dropping
<1>2. Chain(e, M, 0, runs, TRUE, tokens, total)
  BY <1>1 DEF Account
<1>3. 0 \in 0..e /\ ~\E j \in 0..(0 - 1) : M[j].n > 0
  OBVIOUS
<1> QED
  BY <1>2, <1>3 DEF Chain

\* What the runner has after it is what the request will have.
LEMMA RowHeard ==
    ASSUME NEW e \in Nat, NEW M, NEW M2, NEW flying \in Int, NEW stale \in Int,
           NEW runs, NEW tokens \in Int, NEW total \in Int, NEW t \in Int,
           NEW flying2, NEW stale2, NEW drop \in BOOLEAN, e >= 1,
           flying2 = flying - M[0].n, stale2 = IF stale > 0 THEN stale - M[0].n ELSE 0,
           Processed(e, M, M2), M[0].n > 0, ~Dropping(drop, stale),
           Account(e, M, flying, stale, drop, runs, tokens, total)
    PROVE  Account(e, M2, flying2, stale2, drop, runs, t, t)
<1>0. /\ \A i \in 0..e : M[i].n \in Nat
      /\ M2[0].n = 0 /\ \A i \in 0..e : i # 0 => M2[i] = M[i]
  BY DEF Processed
<1>a. ~(drop /\ stale > 0)
  BY DEF Dropping
<1> USE <1>0, <1>a
<1>1. PICK S : /\ Sums(e, M, S)
               /\ \E k \in 0..e :
                     /\ flying = S[e] /\ stale = S[k]
                     /\ ~runs => \A i \in k..e : M[i].n = 0
                     /\ Chain(e, M, 0, runs, TRUE, tokens, total)
  BY DEF Account
<1>2. PICK k \in 0..e :
         /\ flying = S[e] /\ stale = S[k]
         /\ ~runs => \A i \in k..e : M[i].n = 0
         /\ Chain(e, M, 0, runs, TRUE, tokens, total)
  BY <1>1
<1>3. S[0] = 0 /\ S \in [0..e -> Nat] /\ 0 \in 0..e
  BY <1>1 DEF Sums
<1> DEFINE n == M[0].n
           S2 == Rest(e, S, n)
           behind == IF stale > 0 THEN stale - n ELSE 0
<1>4. Sums(e, M2, S2)
  BY <1>1, SumsBehind
<1>5. k = 0 <=> ~(stale > 0)
  <2>1. ASSUME k # 0 PROVE stale > 0
    <3>1. S[k] >= n
      BY <1>1, <2>1, SumsBehind
    <3>2. n \in Nat /\ n > 0 /\ S[k] \in Nat
      BY <1>3
    <3> QED
      BY <1>2, <3>1, <3>2
  <2> QED
    BY <1>2, <1>3, <2>1
<1>6. flying - n = S2[e] /\ behind = S2[k]
  BY <1>2, <1>3, <1>5 DEF Rest
<1>7. ~runs => \A i \in k..e : M2[i].n = 0
  <2>1. \A i \in k..e : i \in 0..e
    OBVIOUS
  <2> QED
    BY <1>2, <2>1
<1>8. Chain(e, M2, 0, runs, TRUE, t, t)
  <2>1. ASSUME NEW i \in 0..e, M2[i].n > 0 PROVE M2[i].fresh = NoWork
    <3>1. i # 0
      BY <2>1
    <3>2. M2[i] = M[i] /\ 0 \in 0..(i - 1)
      BY <3>1
    <3>3. M[i].n > 0 /\ \E j \in 0..(i - 1) : M[j].n > 0
      BY <2>1, <3>2
    <3>4. M[i].fresh = NoWork
      BY <1>2, <3>3 DEF Chain
    <3> QED
      BY <3>2, <3>4
  <2> QED
    BY <2>1 DEF Chain
<1>9. ~(drop /\ behind > 0)
  OBVIOUS
<1> HIDE DEF S2, behind, n
<1>10. Account(e, M2, flying - n, behind, drop, runs, t, t)
  BY <1>4, <1>6, <1>7, <1>8, <1>9 DEF Account
<1> QED
  BY <1>10 DEF behind, n

\* A request that was not known has no rows.
LEMMA Newborn ==
    ASSUME NEW e \in Nat, NEW M, NEW tokens \in Int, NEW total \in Int,
           \A i \in 0..e : M[i].n = 0
    PROVE  Account(e, M, 0, 0, FALSE, FALSE, tokens, total)
<1> DEFINE S == [i \in 0..e |-> 0]
<1>1. Sums(e, M, S)
  <2>1. S \in [0..e -> Nat] /\ S[0] = 0
    OBVIOUS
  <2>2. \A i \in 0..(e - 1) : i \in 0..e /\ i + 1 \in 0..e
    OBVIOUS
  <2>3. \A i \in 0..(e - 1) : S[i + 1] = S[i] + M[i].n
    BY <2>2
  <2>4. \A i, j \in 0..e : i < j => S[i] + M[i].n <= S[j]
    OBVIOUS
  <2> QED
    BY <2>1, <2>3, <2>4 DEF Sums
<1>2. 0 \in 0..e /\ 0 = S[e] /\ 0 = S[0]
  OBVIOUS
<1>3. Chain(e, M, 0, FALSE, TRUE, tokens, total)
  BY DEF Chain
<1> HIDE DEF S
<1> QED
  BY <1>1, <1>2, <1>3 DEF Account

-----------------------------------------------------------------------------
(* Sequences and the rows of a step.                                       *)

LEMMA SeqAppend ==
    ASSUME NEW s, NEW x, IsSeq(s)
    PROVE  /\ IsSeq(Append(s, x)) /\ Len(Append(s, x)) = Len(s) + 1 /\ Len(s) \in Nat
           /\ DOMAIN s = 1..Len(s) /\ DOMAIN Append(s, x) = 1..(Len(s) + 1)
           /\ \A i \in 1..Len(s) : Append(s, x)[i] = s[i]
           /\ Append(s, x)[Len(s) + 1] = x
<1>1. PICK S : s \in Seq(S)
  BY DEF IsSeq
<1> DEFINE T == S \cup {x}
<1>2. s \in Seq(T) /\ x \in T
  <2>1. Len(s) \in Nat /\ s \in [1..Len(s) -> S]
    BY <1>1
  <2>2. s \in [1..Len(s) -> T]
    BY <2>1
  <2> QED
    BY <2>1, <2>2, SeqDef
<1> HIDE DEF T
<1>3. Append(s, x) \in Seq(T)
  BY <1>2
<1> QED
  BY <1>2, <1>3 DEF IsSeq

LEMMA SeqTail ==
    ASSUME NEW s, IsSeq(s), s # <<>>
    PROVE  /\ IsSeq(Tail(s)) /\ Len(Tail(s)) = Len(s) - 1 /\ Len(s) \in Nat \ {0}
           /\ DOMAIN s = 1..Len(s) /\ DOMAIN Tail(s) = 1..(Len(s) - 1)
           /\ Head(s) = s[1]
           /\ \A i \in 1..(Len(s) - 1) : Tail(s)[i] = s[i + 1]
<1>1. PICK S : s \in Seq(S)
  BY DEF IsSeq
<1>2. Tail(s) \in Seq(S) /\ Len(Tail(s)) = Len(s) - 1 /\ Len(s) \in Nat \ {0} /\ Head(s) = s[1]
  BY <1>1
<1>3. \A i \in 1..(Len(s) - 1) : Tail(s)[i] = s[i + 1]
  BY <1>1
<1>4. DOMAIN s = 1..Len(s) /\ DOMAIN Tail(s) = 1..(Len(s) - 1)
  BY <1>1, <1>2
<1> QED
  BY <1>2, <1>3, <1>4 DEF IsSeq

LEMMA NoRows == \A r : Share(<<>>, r) = Zero
BY DEF Share

\* A step has the share of a request in its one row, if it has one.
LEMMA ShareOf ==
    ASSUME NEW rows, IsStep(rows), NEW r
    PROVE  /\ Share(rows, r).n \in Nat
           /\ (Share(rows, r).n = 0) <=> ~(\E i \in DOMAIN rows : rows[i].r = r)
           /\ (Share(rows, r).n = 0) => Share(rows, r) = Zero
           /\ \A i \in DOMAIN rows : rows[i].r = r =>
                 Share(rows, r) = [n |-> rows[i].n, fresh |-> rows[i].fresh]
<1>1. CASE ~\E i \in DOMAIN rows : rows[i].r = r
  BY <1>1 DEF Share, Zero
<1>2. ASSUME NEW i \in DOMAIN rows, rows[i].r = r
      PROVE  Share(rows, r) = [n |-> rows[i].n, fresh |-> rows[i].fresh] /\ rows[i].n \in Nat \ {0}
  <2>1. (CHOOSE j \in DOMAIN rows : rows[j].r = r) = i
    BY <1>2 DEF IsStep
  <2>2. rows[i].n \in Nat \ {0}
    BY DEF IsStep, IsRow
  <2> QED
    BY <1>2, <2>1, <2>2 DEF Share
<1> QED
  BY <1>1, <1>2

LEMMA ShareAppend ==
    ASSUME NEW rows, IsStep(rows), NEW row, IsRow(row),
           \A i \in DOMAIN rows : rows[i].r # row.r
    PROVE  /\ IsStep(Append(rows, row))
           /\ \A r : Share(Append(rows, row), r) =
                       IF r = row.r THEN [n |-> row.n, fresh |-> row.fresh] ELSE Share(rows, r)
<1> DEFINE s == Append(rows, row)
<1>1. /\ IsSeq(s) /\ Len(rows) \in Nat
      /\ DOMAIN rows = 1..Len(rows) /\ DOMAIN s = 1..(Len(rows) + 1)
      /\ \A i \in 1..Len(rows) : s[i] = rows[i]
      /\ s[Len(rows) + 1] = row
  BY SeqAppend DEF IsStep
<1> HIDE DEF s
<1>2. IsStep(s)
  <2>1. \A i \in DOMAIN s : (i \in DOMAIN rows /\ s[i] = rows[i])
                            \/ (i = Len(rows) + 1 /\ s[i] = row)
    <3>1. ASSUME NEW i \in 1..(Len(rows) + 1) PROVE i \in 1..Len(rows) \/ i = Len(rows) + 1
      BY <1>1
    <3> QED
      BY <1>1, <3>1
  <2>2. \A i \in DOMAIN s : IsRow(s[i])
    BY <2>1 DEF IsStep
  <2>3. \A i, j \in DOMAIN s : s[i].r = s[j].r => i = j
    BY <2>1 DEF IsStep
  <2> QED
    BY <1>1, <2>2, <2>3 DEF IsStep
<1>3. ASSUME NEW r, r = row.r PROVE Share(s, r) = [n |-> row.n, fresh |-> row.fresh]
  <2>1. Len(rows) + 1 \in DOMAIN s
    BY <1>1
  <2> QED
    BY <1>1, <1>2, <1>3, <2>1, ShareOf
<1>4. ASSUME NEW r, r # row.r PROVE Share(s, r) = Share(rows, r)
  <2>1. CASE \E i \in DOMAIN rows : rows[i].r = r
    <3>1. PICK i \in DOMAIN rows : rows[i].r = r
      BY <2>1
    <3>2. i \in DOMAIN s /\ s[i] = rows[i]
      BY <1>1
    <3>3. Share(s, r) = [n |-> rows[i].n, fresh |-> rows[i].fresh]
      BY <1>2, <3>1, <3>2, ShareOf
    <3> QED
      BY <3>1, <3>3, ShareOf
  <2>2. CASE ~\E i \in DOMAIN rows : rows[i].r = r
    <3>1. ~\E i \in DOMAIN s : s[i].r = r
      BY <1>1, <1>4, <2>2
    <3> QED
      BY <2>2, <3>1 DEF Share
  <2> QED
    BY <2>1, <2>2
<1> QED
  BY <1>2, <1>3, <1>4 DEF s

LEMMA ShareTail ==
    ASSUME NEW rows, IsStep(rows), rows # <<>>
    PROVE  /\ IsStep(Tail(rows)) /\ IsRow(Head(rows))
           /\ Share(rows, Head(rows).r) = [n |-> Head(rows).n, fresh |-> Head(rows).fresh]
           /\ \A r : Share(Tail(rows), r) =
                       IF r = Head(rows).r THEN Zero ELSE Share(rows, r)
<1> DEFINE s == Tail(rows)
<1>1. /\ IsSeq(s) /\ Len(rows) \in Nat \ {0}
      /\ DOMAIN rows = 1..Len(rows) /\ DOMAIN s = 1..(Len(rows) - 1)
      /\ Head(rows) = rows[1]
      /\ \A i \in 1..(Len(rows) - 1) : s[i] = rows[i + 1]
  BY SeqTail DEF IsStep
<1> HIDE DEF s
<1>2. \A i \in DOMAIN s : i + 1 \in DOMAIN rows /\ s[i] = rows[i + 1] /\ i + 1 # 1
  BY <1>1
<1>3. 1 \in DOMAIN rows /\ \A i \in DOMAIN rows : i = 1 \/ (i - 1 \in DOMAIN s /\ s[i - 1] = rows[i])
  BY <1>1
<1>4. IsStep(s)
  <2>1. \A i \in DOMAIN s : IsRow(s[i])
    BY <1>2 DEF IsStep
  <2>2. ASSUME NEW i \in DOMAIN s, NEW j \in DOMAIN s, s[i].r = s[j].r PROVE i = j
    <3>1. i + 1 = j + 1
      BY <1>2, <2>2 DEF IsStep
    <3> QED
      BY <1>1, <3>1
  <2> QED
    BY <1>1, <2>1, <2>2 DEF IsStep
<1>5. IsRow(Head(rows)) /\ Share(rows, Head(rows).r) = [n |-> Head(rows).n, fresh |-> Head(rows).fresh]
  <2>1. IsRow(rows[1]) /\ Head(rows) = rows[1]
    BY <1>1, <1>3 DEF IsStep
  <2>2. Share(rows, rows[1].r) = [n |-> rows[1].n, fresh |-> rows[1].fresh]
    BY <1>3, ShareOf
  <2> QED
    BY <2>1, <2>2
<1>6. ASSUME NEW r, r = Head(rows).r PROVE Share(s, r) = Zero
  <2>1. ~\E i \in DOMAIN s : s[i].r = r
    BY <1>1, <1>2, <1>3, <1>6 DEF IsStep
  <2> QED
    BY <2>1 DEF Share
<1>7. ASSUME NEW r, r # Head(rows).r PROVE Share(s, r) = Share(rows, r)
  <2>1. CASE \E i \in DOMAIN rows : rows[i].r = r
    <3>1. PICK i \in DOMAIN rows : rows[i].r = r
      BY <2>1
    <3>2. i - 1 \in DOMAIN s /\ s[i - 1] = rows[i]
      BY <1>1, <1>3, <1>7, <3>1
    <3>3. Share(s, r) = [n |-> rows[i].n, fresh |-> rows[i].fresh]
      BY <1>4, <3>1, <3>2, ShareOf
    <3> QED
      BY <3>1, <3>3, ShareOf
  <2>2. CASE ~\E i \in DOMAIN rows : rows[i].r = r
    <3>1. ~\E i \in DOMAIN s : s[i].r = r
      BY <1>2, <2>2
    <3> QED
      BY <2>2, <3>1 DEF Share
  <2> QED
    BY <2>1, <2>2
<1> QED
  BY <1>4, <1>5, <1>6, <1>7 DEF s

-----------------------------------------------------------------------------
(* Queues.                                                                 *)

LEMMA QueueAppend ==
    ASSUME NEW s \in Seq(Requests), NEW x \in Requests
    PROVE  /\ Append(s, x) \in Seq(Requests)
           /\ ToSet(Append(s, x)) = ToSet(s) \cup {x}
           /\ Len(Append(s, x)) = Len(s) + 1 /\ \A i \in 1..Len(s) : Append(s, x)[i] = s[i]
           /\ Append(s, x)[Len(s) + 1] = x
           /\ Distinct(s) /\ x \notin ToSet(s) => Distinct(Append(s, x))
<1> DEFINE t == Append(s, x)
<1>1. /\ t \in Seq(Requests) /\ Len(t) = Len(s) + 1 /\ Len(s) \in Nat
      /\ DOMAIN s = 1..Len(s) /\ DOMAIN t = 1..(Len(s) + 1)
      /\ \A i \in 1..Len(s) : t[i] = s[i]
      /\ t[Len(s) + 1] = x
  OBVIOUS
<1> HIDE DEF t
<1>2. Len(s) + 1 \in DOMAIN t /\ \A i \in DOMAIN s : i \in DOMAIN t
  BY <1>1
<1>3. ASSUME NEW i \in DOMAIN t PROVE i \in DOMAIN s \/ i = Len(s) + 1
  BY <1>1
<1>4. ToSet(t) = ToSet(s) \cup {x}
  BY <1>1, <1>2, <1>3 DEF ToSet
<1>5. ASSUME Distinct(s), x \notin ToSet(s) PROVE Distinct(t)
  BY <1>1, <1>3, <1>5 DEF Distinct, ToSet
<1> QED
  BY <1>1, <1>4, <1>5 DEF t

LEMMA QueueTail ==
    ASSUME NEW s \in Seq(Requests), s # <<>>
    PROVE  /\ Tail(s) \in Seq(Requests) /\ Head(s) \in Requests
           /\ ToSet(s) = ToSet(Tail(s)) \cup {Head(s)}
           /\ Distinct(s) => Distinct(Tail(s)) /\ Head(s) \notin ToSet(Tail(s))
<1> DEFINE t == Tail(s)
<1>1. /\ t \in Seq(Requests) /\ Len(s) \in Nat \ {0} /\ Head(s) = s[1]
      /\ DOMAIN s = 1..Len(s) /\ DOMAIN t = 1..(Len(s) - 1)
      /\ \A i \in 1..(Len(s) - 1) : t[i] = s[i + 1]
  OBVIOUS
<1> HIDE DEF t
<1>2. 1 \in DOMAIN s /\ Head(s) \in Requests
  BY <1>1
<1>3. ASSUME NEW i \in DOMAIN t
      PROVE  i + 1 \in DOMAIN s /\ t[i] = s[i + 1] /\ i + 1 # 1 /\ i \in Int
  BY <1>1
<1>4. ASSUME NEW i \in DOMAIN s, i # 1 PROVE i - 1 \in DOMAIN t /\ t[i - 1] = s[i]
  BY <1>1, <1>4
<1>5. ToSet(s) = ToSet(t) \cup {Head(s)}
  BY <1>1, <1>2, <1>3, <1>4 DEF ToSet
<1>6. ASSUME Distinct(s) PROVE Distinct(t) /\ Head(s) \notin ToSet(t)
  <2>1. ASSUME NEW i \in DOMAIN t, NEW j \in DOMAIN t, t[i] = t[j] PROVE i = j
    <3>1. i + 1 = j + 1 /\ i \in Int /\ j \in Int
      BY <1>3, <1>6, <2>1 DEF Distinct
    <3> QED
      BY <3>1
  <2>2. Head(s) \notin ToSet(t)
    BY <1>1, <1>2, <1>3, <1>6 DEF Distinct, ToSet
  <2> QED
    BY <2>1, <2>2 DEF Distinct
<1> QED
  BY <1>1, <1>2, <1>5, <1>6 DEF t

LEMMA QueueFront ==
    ASSUME NEW s \in Seq(Requests), s # <<>>
    PROVE  /\ Front(s) \in Seq(Requests) /\ Last(s) \in Requests /\ Len(s) \in Nat \ {0}
           /\ Len(Front(s)) = Len(s) - 1 /\ \A i \in 1..(Len(s) - 1) : Front(s)[i] = s[i]
           /\ ToSet(s) = ToSet(Front(s)) \cup {Last(s)}
           /\ Distinct(s) => Distinct(Front(s)) /\ Last(s) \notin ToSet(Front(s))
<1> DEFINE t == Front(s)
<1>1. /\ t \in Seq(Requests) /\ Len(s) \in Nat \ {0} /\ Last(s) = s[Len(s)]
      /\ DOMAIN s = 1..Len(s) /\ DOMAIN t = 1..(Len(s) - 1) /\ Len(t) = Len(s) - 1
      /\ \A i \in 1..(Len(s) - 1) : t[i] = s[i]
  <2>1. /\ Len(s) \in Nat \ {0} /\ DOMAIN s = 1..Len(s) /\ Last(s) = s[Len(s)]
    BY DEF Last
  <2>2. t = SubSeq(s, 1, Len(s) - 1)
    BY DEF Front
  <2>3. Len(s) - 1 \in 0..Len(s) /\ (Len(s) - 1) - 1 + 1 = Len(s) - 1
    BY <2>1
  <2>4. /\ t \in Seq(Requests) /\ DOMAIN t = 1..(Len(s) - 1) /\ Len(t) = Len(s) - 1
        /\ \A i \in 1..(Len(s) - 1) : t[i] = s[i]
    BY <2>1, <2>2, <2>3
  <2> QED
    BY <2>1, <2>4
<1> HIDE DEF t
<1>2. Len(s) \in DOMAIN s /\ Last(s) \in Requests
  BY <1>1
<1>3. ASSUME NEW i \in DOMAIN t PROVE i \in DOMAIN s /\ t[i] = s[i] /\ i # Len(s)
  BY <1>1
<1>4. ASSUME NEW i \in DOMAIN s, i # Len(s) PROVE i \in DOMAIN t /\ t[i] = s[i]
  BY <1>1, <1>4
<1>5. ToSet(s) = ToSet(t) \cup {Last(s)}
  BY <1>1, <1>2, <1>3, <1>4 DEF ToSet
<1>6. ASSUME Distinct(s) PROVE Distinct(t) /\ Last(s) \notin ToSet(t)
  BY <1>1, <1>2, <1>3, <1>6 DEF Distinct, ToSet
<1> QED
  BY <1>1, <1>2, <1>5, <1>6 DEF t

LEMMA QueueConcat ==
    ASSUME NEW s \in Seq(Requests), NEW t \in Seq(Requests)
    PROVE  /\ s \o t \in Seq(Requests)
           /\ ToSet(s \o t) = ToSet(s) \cup ToSet(t)
           /\ Distinct(s) /\ Distinct(t) /\ Apart(s, t) => Distinct(s \o t)
<1> DEFINE u == s \o t
<1>1. /\ u \in Seq(Requests) /\ Len(s) \in Nat /\ Len(t) \in Nat
      /\ DOMAIN s = 1..Len(s) /\ DOMAIN t = 1..Len(t) /\ DOMAIN u = 1..(Len(s) + Len(t))
      /\ \A i \in 1..(Len(s) + Len(t)) : u[i] = IF i <= Len(s) THEN s[i] ELSE t[i - Len(s)]
  OBVIOUS
<1> HIDE DEF u
<1>2. ASSUME NEW i \in DOMAIN u
      PROVE  (i \in DOMAIN s /\ u[i] = s[i]) \/ (i - Len(s) \in DOMAIN t /\ u[i] = t[i - Len(s)])
  BY <1>1
<1>3. ASSUME NEW i \in DOMAIN s PROVE i \in DOMAIN u /\ u[i] = s[i]
  BY <1>1
<1>4. ASSUME NEW i \in DOMAIN t PROVE i + Len(s) \in DOMAIN u /\ u[i + Len(s)] = t[i]
  <2>1. i + Len(s) \in 1..(Len(s) + Len(t)) /\ ~(i + Len(s) <= Len(s)) /\ (i + Len(s)) - Len(s) = i
    BY <1>1
  <2> QED
    BY <1>1, <2>1
<1>5. ToSet(u) = ToSet(s) \cup ToSet(t)
  <2>1. ToSet(u) \subseteq ToSet(s) \cup ToSet(t)
    BY <1>2 DEF ToSet
  <2>2. ToSet(s) \subseteq ToSet(u)
    BY <1>3 DEF ToSet
  <2>3. ToSet(t) \subseteq ToSet(u)
    BY <1>4 DEF ToSet
  <2> QED
    BY <2>1, <2>2, <2>3
<1>6. ASSUME Distinct(s), Distinct(t), Apart(s, t) PROVE Distinct(u)
  <2>1. ASSUME NEW i \in DOMAIN u, NEW j \in DOMAIN u, u[i] = u[j] PROVE i = j
    <3>1. CASE i \in DOMAIN s /\ u[i] = s[i] /\ j \in DOMAIN s /\ u[j] = s[j]
      BY <1>6, <2>1, <3>1 DEF Distinct
    <3>2. CASE /\ i - Len(s) \in DOMAIN t /\ u[i] = t[i - Len(s)]
               /\ j - Len(s) \in DOMAIN t /\ u[j] = t[j - Len(s)]
      <4>1. i - Len(s) = j - Len(s)
        BY <1>6, <2>1, <3>2 DEF Distinct
      <4> QED
        BY <1>1, <4>1
    <3>3. CASE /\ i \in DOMAIN s /\ u[i] = s[i]
               /\ j - Len(s) \in DOMAIN t /\ u[j] = t[j - Len(s)]
      BY <1>6, <2>1, <3>3 DEF Apart, ToSet
    <3>4. CASE /\ j \in DOMAIN s /\ u[j] = s[j]
               /\ i - Len(s) \in DOMAIN t /\ u[i] = t[i - Len(s)]
      BY <1>6, <2>1, <3>4 DEF Apart, ToSet
    <3> QED
      BY <1>2, <3>1, <3>2, <3>3, <3>4
  <2> QED
    BY <2>1 DEF Distinct
<1> QED
  BY <1>1, <1>5, <1>6 DEF u

LEMMA QueueRemove ==
    ASSUME NEW s \in Seq(Requests), Distinct(s), NEW x
    PROVE  /\ RemoveFirst(s, x) \in Seq(Requests)
           /\ ToSet(RemoveFirst(s, x)) = ToSet(s) \ {x}
           /\ Distinct(RemoveFirst(s, x))
<1>1. CASE ~\E i \in 1..Len(s) : s[i] = x
  BY <1>1 DEF RemoveFirst, ToSet
<1>2. ASSUME NEW k \in 1..Len(s), s[k] = x
      PROVE  /\ RemoveFirst(s, x) \in Seq(Requests)
             /\ ToSet(RemoveFirst(s, x)) = ToSet(s) \ {x}
             /\ Distinct(RemoveFirst(s, x))
  <2>1. {i \in 1..Len(s) : s[i] = x} = {k}
    BY <1>2 DEF Distinct
  <2>2. SelectInSeq(s, LAMBDA v : v = x) = k
    <3>1. Min({k}) = k
      BY DEF Min
    <3> QED
      BY <2>1, <3>1 DEF SelectInSeq
  <2> DEFINE t == SubSeq(s, 1, k - 1)
             u == SubSeq(s, k + 1, Len(s))
  <2>3. RemoveFirst(s, x) = t \o u
    BY <1>2, <2>2 DEF RemoveFirst, RemoveAt
  <2>4. /\ t \in Seq(Requests) /\ DOMAIN t = 1..(k - 1) /\ Len(s) \in Nat
        /\ \A i \in 1..(k - 1) : t[i] = s[i]
    OBVIOUS
  <2>5. /\ u \in Seq(Requests) /\ DOMAIN u = 1..(Len(s) - k)
        /\ \A i \in 1..(Len(s) - k) : u[i] = s[k + i]
    OBVIOUS
  <2> HIDE DEF t, u
  <2>6. \A i \in DOMAIN t : i \in DOMAIN s /\ i # k /\ t[i] = s[i] /\ i < k
    BY <2>4
  <2>7. \A i \in DOMAIN u : k + i \in DOMAIN s /\ k + i # k /\ u[i] = s[k + i] /\ k + i > k /\ i \in Int
    BY <2>5
  <2>8. \A i \in DOMAIN s : i = k \/ i \in DOMAIN t \/ i - k \in DOMAIN u
    BY <2>4, <2>5
  <2>9. Distinct(t)
    BY <2>6 DEF Distinct
  <2>10. Distinct(u)
    <3>1. ASSUME NEW i \in DOMAIN u, NEW j \in DOMAIN u, u[i] = u[j] PROVE i = j
      <4>1. k + i = k + j /\ i \in Int /\ j \in Int
        BY <2>7, <3>1 DEF Distinct
      <4> QED
        BY <4>1
    <3> QED
      BY <3>1 DEF Distinct
  <2>11. Apart(t, u)
    <3>1. ASSUME NEW i \in DOMAIN t, NEW j \in DOMAIN u, t[i] = u[j] PROVE FALSE
      <4>1. i = k + j
        BY <2>6, <2>7, <3>1 DEF Distinct
      <4>2. i < k /\ k + j > k /\ i \in Int
        BY <2>4, <2>6, <2>7
      <4> QED
        BY <4>1, <4>2
    <3> QED
      BY <3>1 DEF Apart, ToSet
  <2>12. ToSet(t) \cup ToSet(u) = ToSet(s) \ {x}
    <3>1. ASSUME NEW i \in DOMAIN s, s[i] # x PROVE s[i] \in ToSet(t) \cup ToSet(u)
      <4>1. i # k
        BY <1>2, <3>1
      <4>2. CASE i \in DOMAIN t
        BY <2>6, <4>2 DEF ToSet
      <4>3. CASE i - k \in DOMAIN u
        <5>1. k + (i - k) = i
          BY <2>4
        <5> QED
          BY <2>7, <4>3, <5>1 DEF ToSet
      <4> QED
        BY <2>8, <4>1, <4>2, <4>3
    <3>2. ASSUME NEW i \in DOMAIN s, i # k PROVE s[i] \in ToSet(s) \ {x}
      <4>1. k \in DOMAIN s
        BY <2>4
      <4> QED
        BY <1>2, <3>2, <4>1 DEF Distinct, ToSet
    <3>3. ToSet(t) \subseteq ToSet(s) \ {x}
      BY <2>6, <3>2 DEF ToSet
    <3>4. ToSet(u) \subseteq ToSet(s) \ {x}
      BY <2>7, <3>2 DEF ToSet
    <3>5. ToSet(s) \ {x} \subseteq ToSet(t) \cup ToSet(u)
      <4>1. ASSUME NEW y \in ToSet(s) \ {x} PROVE \E i \in DOMAIN s : y = s[i] /\ s[i] # x
        BY DEF ToSet
      <4> QED
        BY <3>1, <4>1
    <3> QED
      BY <3>3, <3>4, <3>5
  <2> QED
    BY <2>3, <2>4, <2>5, <2>9, <2>10, <2>11, <2>12, QueueConcat
<1> QED
  BY <1>1, <1>2

-----------------------------------------------------------------------------
(* The line of steps and the service of one request from state to state.   *)

LEMMA Lines ==
    ASSUME Types
    PROVE  /\ Len(flight) \in Nat /\ DOMAIN flight = 1..Len(flight) /\ End \in Nat /\ End >= 1
           /\ \A i \in 0..End : IsStep(Line(i))
           /\ \A r : \A i \in 0..End : Mine(r)[i] = Share(Line(i), r) /\ Mine(r)[i].n \in Nat
<1>1. Len(flight) \in Nat /\ DOMAIN flight = 1..Len(flight)
  <2>1. IsSeq(flight)
    BY DEF Types
  <2> QED
    BY <2>1 DEF IsSeq
<1>2. End \in Nat /\ End >= 1
  BY <1>1 DEF End
<1>3. ASSUME NEW i \in 0..End PROVE IsStep(Line(i))
  <2>1. i = 0 \/ i = End \/ i \in DOMAIN flight
    BY <1>1 DEF End
  <2> QED
    BY <2>1 DEF Types, Line
<1>4. ASSUME NEW r, NEW i \in 0..End PROVE Mine(r)[i] = Share(Line(i), r) /\ Mine(r)[i].n \in Nat
  BY <1>3, ShareOf DEF Mine
<1> QED
  BY <1>1, <1>2, <1>3, <1>4

LEMMA SameLines ==
    ASSUME flight' = flight, step' = step, plan'.rows = plan.rows
    PROVE  End' = End /\ \A r : Mine(r)' = Mine(r)
BY DEF End, Mine, Line

LEMMA LineGrows ==
    ASSUME Types, flight' = flight, step' = step, NEW row, IsRow(row),
           \A i \in DOMAIN plan.rows : plan.rows[i].r # row.r,
           plan'.rows = Append(plan.rows, row)
    PROVE  /\ End' = End
           /\ \A r : r # row.r => Mine(r)' = Mine(r)
           /\ Mine(row.r)[End].n = 0
           /\ \A i \in 0..End : i # End => Mine(row.r)'[i] = Mine(row.r)[i]
           /\ Mine(row.r)'[End].n = row.n /\ Mine(row.r)'[End].fresh = row.fresh
<1>1. End \in 0..End /\ End # 0 /\ End' = End
  BY Lines DEF End
<1>2. \A i \in 0..End : i = End => Line(i) = plan.rows /\ Line(i)' = Append(plan.rows, row)
  BY <1>1 DEF Line
<1>3. \A i \in 0..End : i # End => Line(i)' = Line(i)
  BY <1>1 DEF Line
<1>4. IsStep(plan.rows)
  BY DEF Types
<1>5. \A r : Share(Append(plan.rows, row), r) =
               IF r = row.r THEN [n |-> row.n, fresh |-> row.fresh] ELSE Share(plan.rows, r)
  BY <1>4, ShareAppend
<1>6. Share(plan.rows, row.r) = Zero
  BY <1>4 DEF Share
<1>7. \A r : \A i \in 0..End : Mine(r)[i] = Share(Line(i), r)
  BY DEF Mine
<1>8. \A r : \A i \in 0..End : Mine(r)'[i] = Share(Line(i)', r)
  BY <1>1 DEF Mine, Share
<1>9. ASSUME NEW r, r # row.r PROVE Mine(r)' = Mine(r)
  <2>1. ASSUME NEW i \in 0..End PROVE Share(Line(i)', r) = Share(Line(i), r)
    <3>1. CASE i = End
      BY <1>2, <1>5, <1>9, <3>1
    <3>2. CASE i # End
      BY <1>3, <3>2
    <3> QED
      BY <3>1, <3>2
  <2>2. \A i \in 0..End : Share(Line(i), r)' = Share(Line(i), r)
    BY <2>1 DEF Share
  <2> QED
    BY <1>1, <2>2 DEF Mine
<1>10. \A i \in 0..End : i # End => Mine(row.r)'[i] = Mine(row.r)[i]
  BY <1>3, <1>7, <1>8
<1>11. \A i \in 0..End : i = End => /\ Mine(row.r)[i] = Zero
                                  /\ Mine(row.r)'[i] = [n |-> row.n, fresh |-> row.fresh]
  <2>1. Share(Append(plan.rows, row), row.r) = [n |-> row.n, fresh |-> row.fresh]
    BY <1>5
  <2> QED
    BY <1>2, <1>6, <1>7, <1>8, <2>1
<1>12. Mine(row.r)[End].n = 0 /\ Mine(row.r)'[End].n = row.n /\ Mine(row.r)'[End].fresh = row.fresh
  BY <1>1, <1>11 DEF Zero
<1> QED
  BY <1>1, <1>9, <1>10, <1>12

LEMMA LineSent ==
    ASSUME Types, step' = step, NEW loads,
           flight' = Append(flight, [rows |-> plan.rows, loads |-> loads]),
           plan'.rows = <<>>
    PROVE  /\ End' = End + 1
           /\ \A r : \A i \in 0..End : Mine(r)'[i] = Mine(r)[i]
           /\ \A r : Mine(r)'[End + 1] = Zero
<1>1. /\ Len(flight) \in Nat /\ Len(flight') = Len(flight) + 1
      /\ \A i \in 1..Len(flight) : flight'[i] = flight[i]
      /\ flight'[Len(flight) + 1].rows = plan.rows
  <2>1. IsSeq(flight)
    BY DEF Types
  <2> QED
    BY <2>1, SeqAppend
<1>2. End' = End + 1 /\ End \in Nat
  BY <1>1 DEF End
<1>3. ASSUME NEW i \in 0..End PROVE Line(i)' = Line(i)
  <2>1. i # End' /\ (i = 0 \/ i \in 1..Len(flight) \/ i = End)
    BY <1>1, <1>2 DEF End
  <2> QED
    BY <1>1, <2>1 DEF Line, End
<1>4. \A i \in 0..(End + 1) : i = End + 1 => Line(i)' = <<>>
  BY <1>2 DEF Line
<1>5. ASSUME NEW r, NEW i \in 0..(End + 1) PROVE Mine(r)'[i] = Share(Line(i)', r)
  BY <1>2 DEF Mine, Share
<1>6. ASSUME NEW r, NEW i \in 0..End PROVE Mine(r)'[i] = Mine(r)[i]
  <2>1. i \in 0..(End + 1) /\ Mine(r)[i] = Share(Line(i), r)
    BY <1>2 DEF Mine
  <2> QED
    BY <1>3, <1>5, <2>1
<1>7. \A r : Mine(r)'[End + 1] = Zero
  <2>1. End + 1 \in 0..(End + 1)
    BY <1>2
  <2> QED
    BY <1>4, <1>5, <2>1, NoRows
<1> QED
  BY <1>2, <1>6, <1>7

LEMMA LineTaken ==
    ASSUME Types, flight # <<>>, step = <<>>,
           flight' = Tail(flight), step' = Head(flight).rows, plan'.rows = plan.rows
    PROVE  /\ End' = End - 1 /\ End >= 2 /\ End \in Nat
           /\ \A r : Mine(r)[0].n = 0
           /\ \A r : \A i \in 0..(End - 1) : Mine(r)'[i] = Mine(r)[i + 1]
<1>1. /\ Len(flight) \in Nat \ {0} /\ Len(flight') = Len(flight) - 1
      /\ \A i \in 1..(Len(flight) - 1) : flight'[i] = flight[i + 1]
      /\ step' = flight[1].rows
  <2>1. IsSeq(flight)
    BY DEF Types
  <2> QED
    BY <2>1, SeqTail
<1>2. End' = End - 1 /\ End \in Nat /\ End >= 2
  BY <1>1 DEF End
<1>3. ASSUME NEW i \in 0..(End - 1) PROVE Line(i)' = Line(i + 1)
  <2>1. CASE i = 0
    <3>1. 0 + 1 = 1 /\ 1 # 0 /\ 1 # End
      BY <1>2
    <3> QED
      BY <1>1, <2>1, <3>1 DEF Line
  <2>2. CASE i = End - 1
    <3>1. i # 0 /\ i = End' /\ i + 1 = End /\ i + 1 # 0
      BY <1>2, <2>2
    <3> QED
      BY <3>1 DEF Line
  <2>3. CASE i # 0 /\ i # End - 1
    <3>0. i # End' /\ i + 1 # 0 /\ i + 1 # End /\ i \in 1..(End - 2)
      BY <1>2, <2>3
    <3>1. i # End' /\ i + 1 # 0 /\ i + 1 # End /\ i \in 1..(Len(flight) - 1)
      <4>1. End - 2 = Len(flight) - 1
        BY <1>1 DEF End
      <4> QED
        BY <3>0, <4>1
    <3> QED
      BY <1>1, <2>3, <3>1 DEF Line
  <2> QED
    BY <2>1, <2>2, <2>3
<1>4. ASSUME NEW r, NEW i \in 0..(End - 1) PROVE Mine(r)'[i] = Mine(r)[i + 1]
  <2>1. i + 1 \in 0..End
    BY <1>2
  <2>2. Mine(r)'[i] = Share(Line(i)', r)
    BY <1>2 DEF Mine, Share
  <2>3. Mine(r)[i + 1] = Share(Line(i + 1), r)
    BY <2>1 DEF Mine
  <2> QED
    BY <1>3, <2>2, <2>3
<1>5. \A r : Mine(r)[0].n = 0
  <2>1. 0 \in 0..End
    BY <1>2
  <2> QED
    BY <2>1, NoRows DEF Mine, Line, Zero
<1> QED
  BY <1>2, <1>4, <1>5

LEMMA LineProcessed ==
    ASSUME Types, step # <<>>, step' = Tail(step), flight' = flight, plan'.rows = plan.rows,
           NEW row, row = Head(step)
    PROVE  /\ IsRow(row) /\ IsStep(step') /\ End' = End
           /\ \A r : r # row.r => Mine(r)' = Mine(r)
           /\ Mine(row.r)[0].n = row.n /\ Mine(row.r)[0].fresh = row.fresh
           /\ Processed(End, Mine(row.r), Mine(row.r)')
<1>1. /\ IsRow(row) /\ IsStep(step')
      /\ Share(step, row.r) = [n |-> row.n, fresh |-> row.fresh]
      /\ \A r : Share(step', r) = IF r = row.r THEN Zero ELSE Share(step, r)
  <2>1. IsStep(step)
    BY DEF Types
  <2> QED
    BY <2>1, ShareTail
<1>2. End' = End /\ End \in Nat
  BY Lines DEF End
<1>3. 0 \in 0..End /\ \A i \in 0..End : i = 0 => Line(i) = step /\ Line(i)' = step'
  BY <1>2 DEF Line
<1>4. \A i \in 0..End : i # 0 => Line(i)' = Line(i)
  BY <1>2 DEF Line
<1>5. \A r : \A i \in 0..End : Mine(r)[i] = Share(Line(i), r)
  BY DEF Mine
<1>6. \A r : \A i \in 0..End : Mine(r)'[i] = Share(Line(i)', r)
  BY <1>2 DEF Mine, Share
<1>7. ASSUME NEW r, r # row.r PROVE Mine(r)' = Mine(r)
  <2>1. ASSUME NEW i \in 0..End PROVE Share(Line(i)', r) = Share(Line(i), r)
    <3>1. CASE i = 0
      BY <1>1, <1>3, <1>7, <3>1
    <3>2. CASE i # 0
      BY <1>4, <3>2
    <3> QED
      BY <3>1, <3>2
  <2>2. \A i \in 0..End : Share(Line(i), r)' = Share(Line(i), r)
    BY <2>1 DEF Share
  <2> QED
    BY <1>2, <2>2 DEF Mine
<1>8. \A i \in 0..End : i = 0 => /\ Mine(row.r)[i] = [n |-> row.n, fresh |-> row.fresh]
                               /\ Mine(row.r)'[i] = Zero
  <2>1. ASSUME NEW i \in 0..End, i = 0
        PROVE  Mine(row.r)[i] = [n |-> row.n, fresh |-> row.fresh]
    <3>1. Mine(row.r)[i] = Share(Line(i), row.r)
      BY <1>5
    <3> QED
      BY <1>1, <1>3, <2>1, <3>1
  <2>2. ASSUME NEW i \in 0..End, i = 0 PROVE Mine(row.r)'[i] = Zero
    <3>1. Mine(row.r)'[i] = Share(Line(i)', row.r)
      BY <1>6
    <3>2. Share(step', row.r) = Zero
      BY <1>1
    <3> QED
      BY <1>3, <2>2, <3>1, <3>2
  <2> QED
    BY <2>1, <2>2
<1>9. /\ Mine(row.r)[0].n = row.n /\ Mine(row.r)[0].fresh = row.fresh
      /\ Mine(row.r)'[0].n = 0
  BY <1>3, <1>8 DEF Zero
<1>10. \A i \in 0..End : i # 0 => Mine(row.r)'[i] = Mine(row.r)[i]
  BY <1>4, <1>5, <1>6
<1>11. Processed(End, Mine(row.r), Mine(row.r)')
  <2>1. \A i \in 0..End : Mine(row.r)[i].n \in Nat
    BY Lines
  <2> QED
    BY <1>9, <1>10, <2>1 DEF Processed
<1> QED
  BY <1>1, <1>2, <1>7, <1>9, <1>11

\* A request of which an action leaves alone what its service depends on.
LEMMA StillServed ==
    ASSUME NEW r \in Requests, Served(r), End' = End, Mine(r)' = Mine(r),
           prompt' = prompt, out'[r] = out[r],
           req'[r].tokens = req[r].tokens, req'[r].flying = req[r].flying,
           req'[r].stale = req[r].stale, req'[r].drop = req[r].drop,
           worker'[r].total = worker[r].total,
           \/ req'[r].status = req[r].status
           \/ req[r].status \in Idle /\ req'[r].status \in Idle
    PROVE  Served(r)'
<1>1. InOrder(r)'
  BY DEF Served, InOrder
<1>2. req'[r].status = "running" <=> req[r].status = "running"
  BY DEF Idle
<1>3. Balanced(r) => Balanced(r)'
  BY <1>2 DEF Balanced
<1>4. /\ req'[r].status = "new" => req[r].status = "new"
      /\ req'[r].status \in Idle \cup {"running"} => req[r].status \in Idle \cup {"running"}
  BY DEF Idle
<1> QED
  BY <1>1, <1>3, <1>4 DEF Served

\* Of a request that is over the client only keeps what it has.
LEMMA OverServed ==
    ASSUME NEW r \in Requests, InOrder(r)', req'[r].status \in {"gone", "finished"}
    PROVE  Served(r)'
BY DEF Served, Idle

-----------------------------------------------------------------------------
(* The steps that move no token: calls from outside, and the turns of the  *)
(* loops that put a request off.                                           *)

LEMMA Sizes ==
    /\ MaxTokens \in Nat /\ MaxModelLen \in Nat /\ BlockSize \in Nat \ {0} /\ Budget \in Nat
    /\ Threshold \in Nat /\ Drafts \in Nat /\ Lookahead \in Nat
    /\ \A p \in Prompts : p \in Nat \ {0}
BY SizeAssumption

LEMMA NoStep == IsStep(<<>>) /\ IsSeq(<<>>)
<1>1. <<>> \in Seq({}) /\ \A i \in DOMAIN <<>> : FALSE
  OBVIOUS
<1> QED
  BY <1>1 DEF IsStep, IsSeq

LEMMA QuietServed ==
    ASSUME IInv, req' = req, worker' = worker, out' = out, prompt' = prompt,
           flight' = flight, step' = step, plan'.rows = plan.rows
    PROVE  \A r \in Requests : Served(r)'
<1>1. End' = End /\ \A r : Mine(r)' = Mine(r)
  BY SameLines
<1> QED
  BY <1>1, StillServed DEF IInv

\* begin, the ends of the loops, the end of an update, pause and reset
LEMMA QuietTypes ==
    ASSUME IInv, req' = req, worker' = worker, out' = out, prompt' = prompt,
           flight' = flight, step' = step, plan' = plan,
           pc' \in {"idle", "running", "waiting", "finish", "output", "reset"}
    PROVE  Types'
BY DEF IInv, Types, IsStep, IsRow, IsReq, IsWork, IsSeq

LEMMA TypesFrom ==
    ASSUME DOMAIN req' = Requests, \A r \in Requests : IsReq(req'[r]),
           DOMAIN worker' = Requests, \A r \in Requests : IsWork(worker'[r]),
           out' \in [Requests -> Seq(Int)], prompt' \in [Requests -> Prompts],
           pc' \in {"idle", "running", "waiting", "finish", "output", "reset"},
           DOMAIN plan' = {"at", "budget", "rows", "victims", "prefill", "ran", "skips", "loads"},
           plan'.at \in Nat \ {0}, plan'.budget \in Int, plan'.skips \in Seq(Requests),
           IsStep(plan'.rows), IsStep(step'),
           IsSeq(flight'), \A i \in DOMAIN flight' : IsStep(flight'[i].rows)
    PROVE  Types'
<1>1. \A r \in Requests : IsReq(req[r])'
  BY DEF IsReq
<1>2. \A r \in Requests : IsWork(worker[r])'
  BY DEF IsWork
<1>3. IsStep(plan.rows)' /\ IsStep(step)' /\ IsSeq(flight)'
      /\ \A i \in DOMAIN flight' : IsStep(flight[i].rows)'
  BY DEF IsStep, IsSeq
<1> QED
  BY <1>1, <1>2, <1>3 DEF Types

LEMMA BeginKeeps == ASSUME IInv, Begin PROVE IInv'
<1>1. /\ plan'.rows = <<>> /\ plan'.skips = <<>> /\ plan'.at = 1 /\ plan'.budget \in Int
      /\ DOMAIN plan' = {"at", "budget", "rows", "victims", "prefill", "ran", "skips", "loads"}
  BY Sizes DEF Begin, NoPlan
<1>2. pc = "idle" /\ pc' = "running" /\ plan.rows = <<>> /\ step = <<>>
  BY DEF Begin, IInv, Planned
<1>3. Types'
  <2>1. <<>> \in Seq(Requests)
    OBVIOUS
  <2>2. IsStep(plan'.rows)
    BY <1>1, NoStep
  <2>3. Types /\ req' = req /\ worker' = worker /\ out' = out /\ prompt' = prompt
        /\ flight' = flight /\ step' = step
    BY DEF Begin, IInv
  <2>4. /\ DOMAIN req' = Requests /\ \A r \in Requests : IsReq(req'[r])
        /\ DOMAIN worker' = Requests /\ \A r \in Requests : IsWork(worker'[r])
        /\ out' \in [Requests -> Seq(Int)] /\ prompt' \in [Requests -> Prompts]
    BY <2>3 DEF Types
  <2>5. /\ IsStep(step') /\ IsSeq(flight') /\ \A i \in DOMAIN flight' : IsStep(flight'[i].rows)
    BY <2>3 DEF Types
  <2> QED
    BY <1>1, <1>2, <2>1, <2>2, <2>4, <2>5, TypesFrom
<1>4. Queues'
  BY <1>2 DEF Begin, IInv, Queues, queues, AllIdle
<1>5. Planned'
  BY <1>1, <1>2 DEF Begin, Planned
<1>6. \A r \in Requests : Served(r)'
  BY <1>1, <1>2, QuietServed DEF Begin
<1> QED
  BY <1>3, <1>4, <1>5, <1>6 DEF IInv

LEMMA QuietKeeps ==
    ASSUME IInv,
           EndUpdate \/ SetPauseState \/ Reset \/ ResetDone \/ RunningDone \/ WaitingDone
    PROVE  IInv'
<1>1. /\ req' = req /\ worker' = worker /\ out' = out /\ prompt' = prompt
      /\ flight' = flight /\ step' = step /\ plan' = plan
      /\ running' = running /\ waiting' = waiting
  BY DEF EndUpdate, OutputOver, SetPauseState, Reset, ResetDone, RunningDone, WaitingDone,
         queues, transfers
<1>2. /\ pc' \in {"idle", "waiting", "finish", "reset"}
      /\ pc' \in {"idle", "reset"} => pc \in {"idle", "output", "reset"} /\ skipped' = skipped
      /\ pc' = "waiting" => pc = "running" /\ skipped' = skipped
      /\ pc # "output" \/ step = <<>>
      /\ skipped' = skipped \/ (pc = "waiting" /\ skipped' = plan.skips \o skipped)
  <2>1. EndUpdate \/ SetPauseState \/ Reset \/ ResetDone \/ RunningDone \/ WaitingDone
    OBVIOUS
  <2> QED
    BY <2>1 DEF EndUpdate, OutputOver, SetPauseState, Between, Reset, ResetDone, RunningDone,
           WaitingDone, queues, transfers, IInv, Types
<1>3. Types'
  BY <1>1, <1>2, QuietTypes
<1>4. Queues'
  <2>1. /\ skipped' \in Seq(Requests) /\ Distinct(skipped') /\ AllIdle(skipped')
        /\ Apart(waiting, skipped')
    <3>1. CASE skipped' = skipped
      BY <1>1, <3>1 DEF IInv, Queues, AllIdle
    <3>2. CASE pc = "waiting" /\ skipped' = plan.skips \o skipped
      <4>1. plan.skips \in Seq(Requests) /\ skipped \in Seq(Requests)
        BY DEF IInv, Types, Queues
      <4>2. /\ skipped' \in Seq(Requests) /\ ToSet(skipped') = ToSet(plan.skips) \cup ToSet(skipped)
            /\ Distinct(skipped')
        BY <3>2, <4>1, QueueConcat DEF IInv, Queues
      <4> QED
        BY <3>2, <4>2 DEF IInv, Queues, AllIdle, Apart
    <3> QED
      BY <1>2, <3>1, <3>2
  <2>2. pc' = "waiting" =>
           /\ Distinct(plan.skips) /\ AllIdle(plan.skips)
           /\ Apart(plan.skips, waiting) /\ Apart(plan.skips, skipped')
    <3>1. ASSUME pc' = "waiting" PROVE plan.skips = <<>>
      BY <1>2, <3>1 DEF IInv, Planned
    <3>2. ToSet(<<>>) = {} /\ Distinct(<<>>)
      BY DEF ToSet, Distinct
    <3> QED
      BY <3>1, <3>2 DEF AllIdle, Apart
  <2> QED
    BY <1>1, <2>1, <2>2 DEF IInv, Queues, AllIdle
<1>5. Planned'
  <2>1. step = <<>>
    BY <1>2 DEF IInv, Planned
  <2> QED
    BY <1>1, <1>2, <2>1 DEF IInv, Planned
<1>6. \A r \in Requests : Served(r)'
  BY <1>1, QuietServed
<1> QED
  BY <1>3, <1>4, <1>5, <1>6 DEF IInv

-----------------------------------------------------------------------------
(* The waiting loop.                                                       *)

LEMMA Extremes ==
    /\ \A a, b \in Int : Min({a, b}) \in Int /\ Max({a, b}) \in Int
    /\ \A a, b, c \in Int : Min({a, b, c}) \in Int
<1>1. ASSUME NEW a \in Int, NEW b \in Int PROVE Min({a, b}) \in Int /\ Max({a, b}) \in Int
  <2>1. \E x \in {a, b} : \A y \in {a, b} : x <= y
    OBVIOUS
  <2>2. \E x \in {a, b} : \A y \in {a, b} : x >= y
    OBVIOUS
  <2>3. Min({a, b}) \in {a, b}
    BY <2>1 DEF Min
  <2>4. Max({a, b}) \in {a, b}
    BY <2>2 DEF Max
  <2> QED
    BY <2>3, <2>4
<1>2. ASSUME NEW a \in Int, NEW b \in Int, NEW c \in Int PROVE Min({a, b, c}) \in Int
  <2>1. \E x \in {a, b, c} : \A y \in {a, b, c} : x <= y
    OBVIOUS
  <2>2. Min({a, b, c}) \in {a, b, c}
    BY <2>1 DEF Min
  <2> QED
    BY <2>2
<1> QED
  BY <1>1, <1>2

\* Requests an action leaves alone.
LEMMA OthersServed ==
    ASSUME IInv, NEW c, End' = End, prompt' = prompt,
           \A r \in Requests \ {c} : /\ Mine(r)' = Mine(r) /\ req'[r] = req[r]
                                     /\ worker'[r] = worker[r] /\ out'[r] = out[r]
    PROVE  \A r \in Requests \ {c} : Served(r)'
<1>1. ASSUME NEW r \in Requests \ {c} PROVE Served(r)'
  <2>1. Served(r)
    BY DEF IInv
  <2>2. /\ Mine(r)' = Mine(r) /\ req'[r] = req[r]
        /\ worker'[r] = worker[r] /\ out'[r] = out[r]
    OBVIOUS
  <2> QED
    BY <2>1, <2>2, StillServed
<1> QED
  BY <1>1

LEMMA CandidateIdle ==
    ASSUME IInv, WaitingLeft
    PROVE  /\ Candidate \in Requests /\ req[Candidate].status \in Idle
           /\ Candidate = IF skipped # <<>> THEN Head(skipped) ELSE Head(waiting)
           /\ skipped # <<>> \/ waiting # <<>>
           /\ pc = "waiting"
<1>1. waiting \in Seq(Requests) /\ skipped \in Seq(Requests) /\ skipped \o waiting # <<>>
  BY DEF IInv, Queues, WaitingLeft
<1>2. CASE skipped # <<>>
  <2>1. Head(skipped \o waiting) = Head(skipped)
    BY <1>1, <1>2
  <2>2. Head(skipped) \in Requests /\ Head(skipped) \in ToSet(skipped)
    BY <1>1, <1>2, QueueTail
  <2> QED
    BY <1>2, <2>1, <2>2 DEF Candidate, IInv, Queues, AllIdle, WaitingLeft
<1>3. CASE skipped = <<>>
  <2>1. skipped \o waiting = waiting
    BY <1>1, <1>3
  <2>2. waiting # <<>>
    BY <1>1, <2>1
  <2>3. Head(waiting) \in Requests /\ Head(waiting) \in ToSet(waiting)
    BY <1>1, <2>2, QueueTail
  <2> QED
    BY <1>3, <2>1, <2>2, <2>3 DEF Candidate, IInv, Queues, AllIdle, WaitingLeft
<1> QED
  BY <1>2, <1>3

LEMMA Popped ==
    ASSUME IInv, WaitingLeft, PopCandidate
    PROVE  /\ waiting' \in Seq(Requests) /\ skipped' \in Seq(Requests)
           /\ Distinct(waiting') /\ Distinct(skipped') /\ Apart(waiting', skipped')
           /\ ToSet(waiting') \subseteq ToSet(waiting) /\ ToSet(skipped') \subseteq ToSet(skipped)
           /\ Candidate \notin ToSet(waiting') \cup ToSet(skipped')
           /\ Candidate \in ToSet(waiting) \cup ToSet(skipped)
<1>1. /\ waiting \in Seq(Requests) /\ skipped \in Seq(Requests)
      /\ Distinct(waiting) /\ Distinct(skipped) /\ Apart(waiting, skipped)
  BY DEF IInv, Queues
<1>2. CASE skipped # <<>>
  <2>1. Candidate = Head(skipped) /\ skipped' = Tail(skipped) /\ waiting' = waiting
    BY <1>2, CandidateIdle DEF PopCandidate
  <2> QED
    BY <1>1, <1>2, <2>1, QueueTail DEF Apart
<1>3. CASE skipped = <<>>
  <2>1. Candidate = Head(waiting) /\ waiting' = Tail(waiting) /\ skipped' = skipped
        /\ waiting # <<>>
    BY <1>3, CandidateIdle DEF PopCandidate
  <2> QED
    BY <1>1, <1>3, <2>1, QueueTail DEF Apart
<1> QED
  BY <1>2, <1>3

LEMMA QueuesFrom ==
    ASSUME running' \in Seq(Requests), waiting' \in Seq(Requests), skipped' \in Seq(Requests),
           Distinct(running'), Distinct(waiting'), Distinct(skipped'), Apart(waiting', skipped'),
           \A r \in ToSet(running') : req'[r].status = "running",
           \A r \in ToSet(waiting') \cup ToSet(skipped') : req'[r].status \in Idle,
           pc' = "waiting" =>
              /\ Distinct(plan'.skips) /\ \A r \in ToSet(plan'.skips) : req'[r].status \in Idle
              /\ Apart(plan'.skips, waiting') /\ Apart(plan'.skips, skipped')
    PROVE  Queues'
BY DEF Queues, AllIdle, Distinct, Apart, ToSet

\* The candidate is set aside until the loop ends.
LEMMA SetAside ==
    ASSUME IInv, WaitingLeft, PopCandidate, plan'.skips = Append(plan.skips, Candidate),
           running' = running, pc' = pc, \A r \in Requests : r # Candidate => req'[r] = req[r],
           req'[Candidate].status \in Idle
    PROVE  Queues' /\ plan'.skips \in Seq(Requests)
<1>1. /\ Candidate \in Requests /\ req[Candidate].status \in Idle /\ pc = "waiting"
  BY CandidateIdle
<1>2. /\ plan.skips \in Seq(Requests) /\ Distinct(plan.skips) /\ AllIdle(plan.skips)
      /\ Apart(plan.skips, waiting) /\ Apart(plan.skips, skipped)
  BY <1>1 DEF IInv, Types, Queues
<1>3. Candidate \notin ToSet(plan.skips)
  BY <1>2, Popped DEF Apart
<1>4. /\ plan'.skips \in Seq(Requests) /\ Distinct(plan'.skips)
      /\ ToSet(plan'.skips) = ToSet(plan.skips) \cup {Candidate}
  BY <1>1, <1>2, <1>3, QueueAppend
<1>5. \A r \in Requests : req[r].status \in Idle => req'[r].status \in Idle
  BY <1>1
<1>6. \A s \in Seq(Requests) : ToSet(s) \subseteq Requests
  BY DEF ToSet
<1>7. \A r \in ToSet(plan'.skips) \cup ToSet(waiting') \cup ToSet(skipped') :
         req'[r].status \in Idle
  <2>1. /\ \A r \in ToSet(plan.skips) \cup ToSet(waiting) \cup ToSet(skipped) :
              r \in Requests /\ req[r].status \in Idle
    BY <1>2, <1>6 DEF AllIdle, IInv, Queues
  <2>2. ToSet(waiting') \subseteq ToSet(waiting) /\ ToSet(skipped') \subseteq ToSet(skipped)
    BY Popped
  <2> QED
    BY <1>4, <1>5, <2>1, <2>2
<1>8. Apart(plan'.skips, waiting') /\ Apart(plan'.skips, skipped')
  BY <1>2, <1>4, Popped DEF Apart
<1>9. \A r \in ToSet(running) : req'[r].status = "running"
  <2>1. \A r \in ToSet(running) : r \in Requests /\ req[r].status = "running"
    BY <1>6 DEF IInv, Queues
  <2> QED
    BY <1>1, <2>1 DEF Idle
<1>10. /\ waiting' \in Seq(Requests) /\ skipped' \in Seq(Requests)
       /\ Distinct(waiting') /\ Distinct(skipped') /\ Apart(waiting', skipped')
  BY Popped
<1>11. running' \in Seq(Requests) /\ Distinct(running') /\ \A r \in ToSet(running') : req'[r].status = "running"
  BY <1>9 DEF IInv, Queues
<1>12. Queues'
  BY <1>4, <1>7, <1>8, <1>10, <1>11, QueuesFrom
<1> QED
  BY <1>4, <1>12

LEMMA SkipWaitingKeeps == ASSUME IInv, SkipWaiting PROVE IInv'
<1>1. /\ WaitingLeft /\ PopCandidate /\ req' = req /\ worker' = worker /\ out' = out
      /\ prompt' = prompt /\ flight' = flight /\ step' = step /\ running' = running /\ pc' = pc
      /\ plan' = [plan EXCEPT !.skips = Append(@, Candidate)]
  BY DEF SkipWaiting
<1>2. pc = "waiting" /\ req[Candidate].status \in Idle
  BY <1>1, CandidateIdle
<1>3. /\ plan'.rows = plan.rows /\ plan'.at = plan.at /\ plan'.budget = plan.budget
      /\ plan'.skips = Append(plan.skips, Candidate) /\ DOMAIN plan' = DOMAIN plan
  BY <1>1 DEF IInv, Types
<1>4. Queues' /\ plan'.skips \in Seq(Requests)
  BY <1>1, <1>2, <1>3, SetAside
<1>5. Types'
  <2>1. Types
    BY DEF IInv
  <2> QED
    BY <1>1, <1>3, <1>4, <2>1, TypesFrom DEF Types
<1>6. Planned'
  BY <1>1, <1>2, <1>3 DEF IInv, Planned
<1>7. \A r \in Requests : Served(r)'
  BY <1>1, <1>3, QuietServed
<1> QED
  BY <1>4, <1>5, <1>6, <1>7 DEF IInv

LEMMA LoadKeeps == ASSUME IInv, Load PROVE IInv'
<1>1. PICK ext \in Matched(Candidate) :
         Allocated(Candidate, [req[Candidate] EXCEPT !.status = "remote", !.computed = ext],
                   Needed(req[Candidate], ext))
  BY DEF Load
<1>2. /\ WaitingLeft /\ PopCandidate /\ worker' = worker /\ out' = out
      /\ prompt' = prompt /\ flight' = flight /\ step' = step /\ running' = running /\ pc' = pc
      /\ plan' = [plan EXCEPT !.skips = Append(@, Candidate), !.loads = @ \cup {Candidate}]
  BY DEF Load, Admissible
<1>3. pc = "waiting" /\ Candidate \in Requests /\ req[Candidate].status \in Idle
  BY <1>2, CandidateIdle
<1>4. /\ plan'.rows = plan.rows /\ plan'.at = plan.at /\ plan'.budget = plan.budget
      /\ plan'.skips = Append(plan.skips, Candidate) /\ DOMAIN plan' = DOMAIN plan
  BY <1>2 DEF IInv, Types
<1> DEFINE q == req[Candidate]
           q2 == req'[Candidate]
<1>5. ext \in Int
  BY <1>3, Sizes DEF Matched, IInv, Types, IsReq
<1>6. /\ DOMAIN req' = Requests /\ \A r \in Requests : r # Candidate => req'[r] = req[r]
      /\ IsReq(q2) /\ q2.status = "remote" /\ q2.tokens = q.tokens /\ q2.flying = q.flying
      /\ q2.stale = q.stale /\ q2.drop = q.drop
  BY <1>1, <1>3, <1>5 DEF Allocated, IInv, Types, IsReq, Fields, Statuses
<1>7. Queues' /\ plan'.skips \in Seq(Requests)
  BY <1>2, <1>4, <1>6, SetAside DEF Idle
<1>8. Types'
  <2>1. \A r \in Requests : IsReq(req'[r])
    BY <1>6 DEF IInv, Types
  <2>2. Types
    BY DEF IInv
  <2> QED
    BY <1>2, <1>4, <1>6, <1>7, <2>1, <2>2, TypesFrom DEF Types
<1>9. Planned'
  <2>1. \A i \in DOMAIN plan.rows : plan.rows[i].r \in Requests
    BY DEF IInv, Types, IsStep, IsRow
  <2>2. \A i \in DOMAIN plan.rows : req'[plan.rows[i].r].status = "running"
    BY <1>3, <1>6, <2>1 DEF IInv, Planned, Idle
  <2> QED
    BY <1>2, <1>3, <1>4, <2>2 DEF IInv, Planned
<1>10. \A r \in Requests : Served(r)'
  <2>1. End' = End /\ \A r : Mine(r)' = Mine(r)
    BY <1>2, <1>4, SameLines
  <2>2. \A r \in Requests : Served(r)
    BY DEF IInv
  <2> QED
    BY <1>2, <1>3, <1>6, <2>1, <2>2, StillServed DEF Idle
<1> QED
  BY <1>7, <1>8, <1>9, <1>10 DEF IInv

LEMMA PromoteKeeps == ASSUME IInv, Promote PROVE IInv'
<1>1. /\ WaitingLeft /\ worker' = worker /\ out' = out /\ prompt' = prompt /\ flight' = flight
      /\ step' = step /\ running' = running /\ waiting' = waiting /\ skipped' = skipped
      /\ pc' = pc /\ plan' = plan
  BY DEF Promote, queues
<1>2. pc = "waiting" /\ Candidate \in Requests /\ req[Candidate].status \in Idle
  BY <1>1, CandidateIdle
<1> DEFINE q == req[Candidate]
           q1 == [q EXCEPT !.status = IF q.again THEN "preempted" ELSE "waiting"]
           q2 == req'[Candidate]
<1>3. \/ req' = [req EXCEPT ![Candidate] = [q1 EXCEPT !.blocks = <<>>]]
      \/ req' = [req EXCEPT ![Candidate] = q1]
      \/ req' = [req EXCEPT ![Candidate] = [q1 EXCEPT !.computed = Min({@, q1.tokens - 1})]]
  <2>1. CASE Candidate \in failed /\ q1.computed = 0
    BY <2>1 DEF Promote
  <2>2. CASE Candidate \in failed /\ q1.computed > 0
    <3>1. ~(Candidate \in failed /\ q1.computed = 0)
      BY <2>2
    <3> QED
      BY <2>2, <3>1 DEF Promote
  <2>3. CASE ~(Candidate \in failed /\ q1.computed = 0) /\ ~(Candidate \in failed /\ q1.computed > 0)
    BY <2>3 DEF Promote
  <2> QED
    BY <2>1, <2>2, <2>3
<1>4. /\ IsReq(q1) /\ q1.status \in Idle /\ q1.tokens = q.tokens /\ q1.flying = q.flying
      /\ q1.stale = q.stale /\ q1.drop = q.drop
      /\ q1.computed \in Int /\ q1.tokens - 1 \in Int
  BY <1>2 DEF IInv, Types, IsReq, Fields, Statuses, Idle
<1>5. Min({q1.computed, q1.tokens - 1}) \in Int
  <2> HIDE DEF q1
  <2> QED
    BY <1>4, Extremes
<1> HIDE DEF q1
<1>6. /\ DOMAIN req' = Requests /\ \A r \in Requests : r # Candidate => req'[r] = req[r]
      /\ IsReq(q2) /\ q2.status \in Idle /\ q2.tokens = q.tokens /\ q2.flying = q.flying
      /\ q2.stale = q.stale /\ q2.drop = q.drop
  <2>1. DOMAIN req = Requests
    BY DEF IInv, Types
  <2>2. CASE req' = [req EXCEPT ![Candidate] = [q1 EXCEPT !.blocks = <<>>]]
    BY <1>2, <1>4, <2>1, <2>2 DEF IsReq, Fields
  <2>3. CASE req' = [req EXCEPT ![Candidate] = q1]
    BY <1>2, <1>4, <2>1, <2>3
  <2>4. CASE req' = [req EXCEPT ![Candidate] =
                        [q1 EXCEPT !.computed = Min({@, q1.tokens - 1})]]
    <3>1. q2 = [q1 EXCEPT !.computed = Min({q1.computed, q1.tokens - 1})]
      BY <1>2, <2>1, <2>4
    <3>2. DOMAIN req' = Requests /\ \A r \in Requests : r # Candidate => req'[r] = req[r]
      BY <2>1, <2>4
    <3> HIDE DEF q2
    <3> QED
      BY <1>4, <1>5, <3>1, <3>2 DEF IsReq, Fields
  <2> QED
    BY <1>3, <2>2, <2>3, <2>4
<1>7. \A r \in Requests : /\ req[r].status \in Idle => req'[r].status \in Idle
                          /\ req[r].status = "running" => req'[r].status = "running"
  BY <1>2, <1>6 DEF Idle
<1>8. Queues'
  <2>1. \A s \in Seq(Requests) : ToSet(s) \subseteq Requests
    BY DEF ToSet
  <2>2. \A s \in Seq(Requests) : AllIdle(s) => AllIdle(s)'
    BY <1>7, <2>1 DEF AllIdle
  <2>3. /\ waiting \in Seq(Requests) /\ skipped \in Seq(Requests) /\ running \in Seq(Requests)
        /\ plan.skips \in Seq(Requests)
    BY DEF IInv, Types, Queues
  <2>4. /\ AllIdle(waiting) => AllIdle(waiting)'
        /\ AllIdle(skipped) => AllIdle(skipped)'
        /\ AllIdle(plan.skips) => AllIdle(plan.skips)'
    BY <1>1, <2>2, <2>3 DEF AllIdle
  <2>5. \A r \in ToSet(running) : req'[r].status = "running"
    BY <1>7, <2>1, <2>3 DEF IInv, Queues
  <2> QED
    BY <1>1, <2>4, <2>5 DEF IInv, Queues
<1>9. Types'
  <2>1. \A r \in Requests : IsReq(req'[r])
    BY <1>6 DEF IInv, Types
  <2>2. Types
    BY DEF IInv
  <2> QED
    BY <1>1, <1>6, <2>1, <2>2, TypesFrom DEF Types
<1>10. Planned'
  <2>1. \A i \in DOMAIN plan.rows : plan.rows[i].r \in Requests
    BY DEF IInv, Types, IsStep, IsRow
  <2> QED
    BY <1>1, <1>2, <1>7, <2>1 DEF IInv, Planned
<1>11. \A r \in Requests : Served(r)'
  <2>1. End' = End /\ \A r : Mine(r)' = Mine(r)
    BY <1>1, SameLines
  <2>2. \A r \in Requests : Served(r)
    BY DEF IInv
  <2> QED
    BY <1>1, <1>2, <1>6, <2>1, <2>2, StillServed
<1> QED
  BY <1>8, <1>9, <1>10, <1>11 DEF IInv

-----------------------------------------------------------------------------
(* The number of tokens of a row is a number.                              *)

LEMMA AlignedInt ==
    ASSUME NEW q, q.tokens \in Int, NEW p \in Int, NEW start \in Int, NEW n \in Int
    PROVE  Aligned(q, p, start, n) \in Int
<1> DEFINE prefillEnd == Max({p, q.tokens - 1})
           last  == Max({0, q.tokens - (q.tokens % BlockSize) - BlockSize})
           limit == IF Threshold > 0 THEN Min({Budget, Threshold}) ELSE Budget
           floor == ((start + n) \div BlockSize) * BlockSize
           end   == IF start + n < prefillEnd /\ (floor > start \/ BlockSize <= limit)
                    THEN floor ELSE start + n
           next  == IF start % BlockSize = 0 THEN 0
                    ELSE (start \div BlockSize + 1) * BlockSize
           stops == {s \in {next, last} : start < s /\ s < end}
<1>1. Aligned(q, p, start, n) =
         IF start >= prefillEnd THEN n ELSE Max({0, Min(stops \cup {end}) - start})
  BY DEF Aligned
<1>2. floor \in Int
  <2>1. (start + n) \div BlockSize \in Int /\ BlockSize \in Int
    BY Sizes
  <2> QED
    BY <2>1
<1>3. next \in Int
  <2>1. start \div BlockSize + 1 \in Int /\ BlockSize \in Int
    BY Sizes
  <2> QED
    BY <2>1
<1>4. last \in Int
  <2>1. q.tokens - (q.tokens % BlockSize) - BlockSize \in Int
    BY Sizes
  <2> QED
    BY <2>1, Extremes
<1> HIDE DEF floor, next, last, prefillEnd, limit
<1>5. end \in Int
  BY <1>2
<1> HIDE DEF end
<1>6. stops \subseteq {next, last}
  OBVIOUS
<1> HIDE DEF stops
<1>7. Min(stops \cup {end}) \in Int
  <2> DEFINE S == stops \cup {end}
  <2>1. \E x \in S : \A y \in S : x <= y
    <3>1. CASE next \in stops /\ last \in stops
      <4>1. S = {next, last, end}
        BY <1>6, <3>1
      <4> QED
        BY <1>3, <1>4, <1>5, <4>1
    <3>2. CASE next \in stops /\ last \notin stops
      <4>1. S = {next, end}
        BY <1>6, <3>2
      <4> QED
        BY <1>3, <1>5, <4>1
    <3>3. CASE next \notin stops /\ last \in stops
      <4>1. S = {last, end}
        BY <1>6, <3>3
      <4> QED
        BY <1>4, <1>5, <4>1
    <3>4. CASE next \notin stops /\ last \notin stops
      <4>1. S = {end}
        BY <1>6, <3>4
      <4> QED
        BY <1>5, <4>1
    <3> QED
      BY <3>1, <3>2, <3>3, <3>4
  <2>2. Min(S) \in S
    BY <2>1 DEF Min
  <2>3. \A x \in S : x \in Int
    BY <1>3, <1>4, <1>5, <1>6
  <2> QED
    BY <2>2, <2>3
<1>8. Max({0, Min(stops \cup {end}) - start}) \in Int
  <2> DEFINE rest == Min(stops \cup {end}) - start
  <2>1. rest \in Int /\ 0 \in Int
    BY <1>7
  <2> HIDE DEF rest
  <2>2. Max({0, rest}) \in Int
    BY <2>1, Extremes
  <2> QED
    BY <2>2 DEF rest
<1> QED
  BY <1>1, <1>8

LEMMA ClippedInt ==
    ASSUME NEW q, q.tokens \in Int, NEW p \in Int, NEW start \in Int, NEW n \in Int
    PROVE  Clipped(q, p, start, n) \in Int
<1>1. ASSUME NEW m \in Int PROVE Reserved(q, start, m) \in Int
  <2> DEFINE remaining == q.tokens - start - m
             ahead == IF mode = "mtp" THEN Lookahead ELSE IF mode = "async" THEN 1 ELSE 0
             kept == IF 0 < remaining /\ remaining < ahead THEN m - (ahead - remaining) ELSE m
  <2>1. kept \in Int
    BY Sizes
  <2>2. Reserved(q, start, m) = Max({0, kept})
    BY DEF Reserved
  <2> HIDE DEF kept
  <2>3. Max({0, kept}) \in Int
    BY <2>1, 0 \in Int, Extremes
  <2> QED
    BY <2>2, <2>3
<1>2. (IF mode = "mtp" THEN Aligned(q, p, start, n) ELSE n) \in Int
  BY AlignedInt
<1> QED
  BY <1>1, <1>2 DEF Clipped

LEMMA TrimmedReq ==
    ASSUME NEW q, IsReq(q)
    PROVE  /\ IsReq(Trimmed(q)) /\ Trimmed(q).status = q.status /\ Trimmed(q).tokens = q.tokens
           /\ Trimmed(q).flying = q.flying /\ Trimmed(q).stale = q.stale
           /\ Trimmed(q).drop = q.drop
<1> DEFINE slots == MaxModelLen - q.computed - 1
<1>1. slots \in Int /\ slots - 1 \in Int /\ q.spec \in Int
  BY Sizes DEF IsReq
<1>2. Min({q.spec, slots - 1}) \in Int
  <2> HIDE DEF slots
  <2> QED
    BY <1>1, Extremes
<1>3. Trimmed(q) = q \/ Trimmed(q) = [q EXCEPT !.spec = Min({q.spec, slots - 1})]
  BY DEF Trimmed
<1> HIDE DEF slots
<1> QED
  BY <1>2, <1>3 DEF IsReq, Fields

LEMMA RunningTokensInt ==
    ASSUME NEW q, IsReq(q), NEW p \in Int, plan.budget \in Int
    PROVE  RunningTokens(q, p) \in Int
<1> DEFINE verify == IF q.spec > 0 /\ ~q.chunk THEN q.spec + 1 ELSE 0
           wanted == q.tokens + q.spec + q.holders - q.computed
           want == Max({verify, wanted})
           room == MaxModelLen - q.computed - 1
           n == Clipped(q, p, q.computed, Min({Capped(want), plan.budget, room}))
<1>1. verify \in Int /\ wanted \in Int /\ room \in Int
  BY Sizes DEF IsReq
<1>2. RunningTokens(q, p) = IF n < verify THEN 0 ELSE n
  BY DEF RunningTokens
<1> HIDE DEF verify, wanted, room
<1>3. want \in Int
  BY <1>1, Extremes
<1> HIDE DEF want
<1>4. Capped(want) \in Int
  BY <1>3, Sizes DEF Capped
<1>5. Min({Capped(want), plan.budget, room}) \in Int
  BY <1>1, <1>4, Extremes
<1>6. n \in Int
  BY <1>5, ClippedInt DEF IsReq
<1> QED
  BY <1>2, <1>6

LEMMA WaitingTokensInt ==
    ASSUME NEW q, IsReq(q), NEW p \in Int, plan.budget \in Int
    PROVE  WaitingTokens(q, p) \in Int
<1> DEFINE k == IF Padded(q) THEN 1 + K ELSE q.tokens - q.computed
           want == Min({Capped(k), plan.budget})
           n == Clipped(q, p, q.computed, want)
<1>1. k \in Int
  BY Sizes DEF K, IsReq
<1>2. WaitingTokens(q, p) = IF Padded(q) /\ 0 < n /\ n < 1 + K THEN 1 ELSE n
  BY DEF WaitingTokens
<1> HIDE DEF k
<1>3. Capped(k) \in Int
  BY <1>1, Sizes DEF Capped
<1>4. want \in Int
  BY <1>3, Extremes
<1> HIDE DEF want
<1>5. n \in Int
  BY <1>4, ClippedInt DEF IsReq
<1> QED
  BY <1>2, <1>5

-----------------------------------------------------------------------------
(* Rows are planned.                                                       *)

\* plan'.rows holds one more row, for c, and the other requests are as before.
LEMMA RowTypes ==
    ASSUME IInv, NEW c \in Requests, NEW row, IsRow(row), row.r = c,
           \A i \in DOMAIN plan.rows : plan.rows[i].r # c,
           flight' = flight, step' = step, worker' = worker, out' = out, prompt' = prompt,
           pc' = pc, plan'.rows = Append(plan.rows, row), DOMAIN plan' = DOMAIN plan,
           plan'.at \in Nat \ {0}, plan'.budget \in Int, plan'.skips = plan.skips,
           DOMAIN req' = Requests, IsReq(req'[c]), req'[c].status = "running",
           \A r \in Requests : r # c => req'[r] = req[r]
    PROVE  /\ Types'
           /\ \A i \in DOMAIN plan'.rows : req'[plan'.rows[i].r].status = "running"
           /\ \A i \in DOMAIN plan'.rows :
                 plan'.rows[i] = row \/ \E j \in DOMAIN plan.rows : plan'.rows[i] = plan.rows[j]
<1>1. Types
  BY DEF IInv
<1>2. IsStep(plan.rows)
  BY <1>1 DEF Types
<1>3. IsStep(plan'.rows)
  BY <1>2, ShareAppend
<1>4. \A r \in Requests : IsReq(req'[r])
  BY <1>1 DEF Types
<1>5. Types'
  BY <1>1, <1>3, <1>4, TypesFrom DEF Types
<1>6. \A i \in DOMAIN plan'.rows :
         plan'.rows[i] = row \/ \E j \in DOMAIN plan.rows : plan'.rows[i] = plan.rows[j]
  <2>1. /\ Len(plan.rows) \in Nat /\ DOMAIN plan.rows = 1..Len(plan.rows)
        /\ DOMAIN plan'.rows = 1..(Len(plan.rows) + 1)
        /\ \A i \in 1..Len(plan.rows) : plan'.rows[i] = plan.rows[i]
        /\ plan'.rows[Len(plan.rows) + 1] = row
    BY <1>2, SeqAppend DEF IsStep
  <2>2. \A i \in 1..(Len(plan.rows) + 1) : i \in 1..Len(plan.rows) \/ i = Len(plan.rows) + 1
    BY <2>1
  <2> QED
    BY <2>1, <2>2
<1>7. ASSUME NEW i \in DOMAIN plan'.rows PROVE req'[plan'.rows[i].r].status = "running"
  <2>1. CASE plan'.rows[i] = row
    BY <2>1
  <2>2. ASSUME NEW j \in DOMAIN plan.rows, plan'.rows[i] = plan.rows[j]
        PROVE  req'[plan'.rows[i].r].status = "running"
    <3>1. plan.rows[j].r \in Requests /\ plan.rows[j].r # c /\ req[plan.rows[j].r].status = "running"
      BY <1>2 DEF IInv, Planned, IsStep, IsRow
    <3> QED
      BY <2>2, <3>1
  <2> QED
    BY <1>6, <2>1, <2>2
<1> QED
  BY <1>5, <1>6, <1>7

LEMMA InToSet == \A s \in Seq(Requests) : ToSet(s) \subseteq Requests
BY DEF ToSet

LEMMA AdmitKeeps == ASSUME IInv, Admit PROVE IInv'
<1>1. PICK c : c = Candidate
  OBVIOUS
<1> DEFINE q == req[c]
           n == WaitingTokens(q, prompt[c])
           pad == Padded(q) /\ n = 1 + K
<1>2. PICK row : row = Row(c, n, IF pad THEN K ELSE 0, pad,
                           [total |-> q.tokens, computed |-> q.computed])
  OBVIOUS
<1>3. /\ WaitingLeft /\ PopCandidate /\ ~MustSkip(c) /\ c \notin recvd /\ n > 0
      /\ worker' = worker /\ out' = out /\ prompt' = prompt /\ flight' = flight /\ step' = step
      /\ pc' = pc /\ running' = Append(running, c)
      /\ Allocated(c, [q EXCEPT !.status = "running"], Needed(q, q.computed + n + K))
      /\ plan' = [plan EXCEPT !.budget = @ - n, !.rows = Append(@, row)]
  BY <1>1, <1>2 DEF Admit, Admissible, CanAdmit
<1>4. c \in Requests /\ q.status \in Idle /\ pc = "waiting"
  BY <1>1, <1>3, CandidateIdle
<1>5. /\ Types /\ Queues /\ Planned /\ Served(c) /\ IsReq(q) /\ DOMAIN req = Requests
      /\ prompt[c] \in Nat \ {0} /\ plan.budget \in Int /\ out[c] \in Seq(Int)
      /\ worker[c].total \in Int
  <2>1. Types /\ Queues /\ Planned /\ Served(c)
    BY <1>4 DEF IInv
  <2>2. IsReq(q) /\ DOMAIN req = Requests /\ plan.budget \in Int
    BY <1>4, <2>1 DEF Types
  <2>3. prompt[c] \in Nat \ {0} /\ out[c] \in Seq(Int)
    BY <1>4, <2>1, Sizes DEF Types
  <2>4. worker[c].total \in Int
    BY <1>4, <2>1 DEF Types, IsWork
  <2> QED
    BY <2>1, <2>2, <2>3, <2>4
<1>6. n \in Nat \ {0}
  <2>1. IsReq(q) /\ prompt[c] \in Int /\ plan.budget \in Int
    BY <1>5
  <2>2. n \in Int
    BY <2>1, WaitingTokensInt
  <2> HIDE DEF n
  <2> QED
    BY <1>3, <2>2
<1> HIDE DEF n
<1>7. q.tokens = prompt[c] + Len(out[c]) /\ Balanced(c) /\ q.tokens > 0
  <2>1. Len(out[c]) \in Nat
    BY <1>5
  <2> QED
    BY <1>4, <1>5, <2>1 DEF Served
<1>8. /\ IsRow(row) /\ row.r = c /\ row.n = n /\ row.fresh # NoWork /\ row.fresh.total = q.tokens
  <2>1. (IF pad THEN K ELSE 0) \in Int
    BY Sizes DEF K
  <2> HIDE DEF pad
  <2>2. IsWork(row.fresh) /\ row.fresh.total = q.tokens
    BY <1>2, <1>5 DEF Row, IsWork, IsReq
  <2>3. row.fresh # NoWork
    BY <1>7, <2>2 DEF NoWork
  <2>4. row.r = c /\ row.n = n /\ row.drafts = IF pad THEN K ELSE 0
    BY <1>2 DEF Row
  <2> QED
    BY <1>4, <1>6, <2>1, <2>2, <2>3, <2>4 DEF IsRow
<1>9. \A i \in DOMAIN plan.rows : plan.rows[i].r # row.r
  BY <1>4, <1>5, <1>8 DEF Planned, Idle
<1>10. /\ DOMAIN req' = Requests /\ \A r \in Requests : r # c => req'[r] = req[r]
       /\ IsReq(req'[c]) /\ req'[c].status = "running" /\ req'[c].tokens = q.tokens
       /\ req'[c].flying = q.flying /\ req'[c].stale = q.stale /\ req'[c].drop = q.drop
  BY <1>3, <1>4, <1>5 DEF Allocated, IsReq, Fields, Statuses
<1>11. /\ plan'.rows = Append(plan.rows, row) /\ DOMAIN plan' = DOMAIN plan
       /\ plan'.at = plan.at /\ plan'.skips = plan.skips /\ plan'.budget \in Int
  BY <1>3, <1>5, <1>6 DEF Types
<1>12. Types' /\ \A i \in DOMAIN plan'.rows : req'[plan'.rows[i].r].status = "running"
  <2>1. plan.at \in Nat \ {0}
    BY <1>5 DEF Types
  <2> QED
    BY <1>3, <1>4, <1>8, <1>9, <1>10, <1>11, <2>1, RowTypes
<1>13. Planned'
  BY <1>3, <1>4, <1>5, <1>12 DEF Planned
<1>14. Queues'
  <2>1. /\ waiting' \in Seq(Requests) /\ skipped' \in Seq(Requests)
        /\ Distinct(waiting') /\ Distinct(skipped') /\ Apart(waiting', skipped')
        /\ ToSet(waiting') \subseteq ToSet(waiting) /\ ToSet(skipped') \subseteq ToSet(skipped)
        /\ c \notin ToSet(waiting') \cup ToSet(skipped')
        /\ c \in ToSet(waiting) \cup ToSet(skipped)
    BY <1>1, <1>3, Popped
  <2>2. /\ running \in Seq(Requests) /\ Distinct(running) /\ plan.skips \in Seq(Requests)
        /\ \A r \in ToSet(running) : r \in Requests /\ req[r].status = "running"
        /\ \A r \in ToSet(waiting) \cup ToSet(skipped) \cup ToSet(plan.skips) :
              r \in Requests /\ req[r].status \in Idle
        /\ Distinct(plan.skips) /\ Apart(plan.skips, waiting) /\ Apart(plan.skips, skipped)
    BY <1>4, <1>5, InToSet DEF Types, Queues, AllIdle
  <2>3. c \notin ToSet(running)
    BY <1>4, <2>2 DEF Idle
  <2>4. /\ running' \in Seq(Requests) /\ Distinct(running')
        /\ ToSet(running') = ToSet(running) \cup {c}
    BY <1>3, <1>4, <2>2, <2>3, QueueAppend
  <2>5. \A r \in ToSet(running') : req'[r].status = "running"
    BY <1>10, <2>2, <2>3, <2>4
  <2>6. c \notin ToSet(plan.skips)
    BY <2>1, <2>2 DEF Apart
  <2>7. \A r \in ToSet(waiting') \cup ToSet(skipped') \cup ToSet(plan.skips) : req'[r].status \in Idle
    BY <1>10, <2>1, <2>2, <2>6
  <2>8. Apart(plan.skips, waiting') /\ Apart(plan.skips, skipped')
    BY <2>1, <2>2 DEF Apart
  <2> QED
    BY <1>11, <2>1, <2>2, <2>4, <2>5, <2>7, <2>8, QueuesFrom
<1>15. /\ End' = End /\ \A r : r # c => Mine(r)' = Mine(r)
       /\ \A i \in 0..End : i # End => Mine(c)'[i] = Mine(c)[i]
       /\ Mine(c)'[End].n = n /\ Mine(c)'[End].fresh = row.fresh
  BY <1>3, <1>5, <1>8, <1>9, <1>11, LineGrows
<1>16. Served(c)'
  <2>1. ~(q.stale > 0 /\ ~q.drop)
    BY <1>3 DEF MustSkip
  <2>2. End \in Nat /\ \A i \in 0..End : Mine(c)[i].n \in Nat
    BY <1>5, Lines
  <2>3. Account(End, Mine(c), q.flying, q.stale, q.drop, FALSE, q.tokens, worker[c].total)
    <3>1. ~(q.status = "running")
      BY <1>4 DEF Idle
    <3> QED
      BY <1>7, <3>1 DEF Balanced
  <2>4. /\ q.flying \in Int /\ q.stale \in Int /\ q.drop \in BOOLEAN /\ q.tokens \in Int
    BY <1>5 DEF IsReq
  <2>5. Account(End, Mine(c)', q.flying, q.stale, q.drop, TRUE, q.tokens, worker[c].total)
    <3> DEFINE M == Mine(c)
               M2 == Mine(c)'
               t == worker[c].total
    <3>1. /\ \A i \in 0..End : i # End => M2[i] = M[i]
          /\ M2[End].n \in Nat /\ M2[End].n > 0
          /\ M2[End].fresh # NoWork /\ M2[End].fresh.total = q.tokens
      BY <1>6, <1>8, <1>15
    <3>2. /\ End \in Nat /\ \A i \in 0..End : M[i].n \in Nat
          /\ Account(End, M, q.flying, q.stale, q.drop, FALSE, q.tokens, t) /\ t \in Int
      BY <1>5, <2>2, <2>3
    <3> HIDE DEF M, M2, t
    <3>3. Account(End, M2, q.flying, q.stale, q.drop, TRUE, q.tokens, t)
      BY <2>1, <2>4, <3>1, <3>2, RowAdmitted
    <3> QED
      BY <3>3 DEF M2, t
  <2>6. Balanced(c)'
    BY <1>3, <1>10, <1>15, <2>5 DEF Balanced
  <2>7. InOrder(c)'
    BY <1>3, <1>5 DEF Served, InOrder
  <2> QED
    BY <1>3, <1>7, <1>10, <2>6, <2>7 DEF Served
<1>17. \A r \in Requests \ {c} : Served(r)'
  BY <1>3, <1>10, <1>15, OthersServed
<1> QED
  BY <1>12, <1>13, <1>14, <1>16, <1>17 DEF IInv

LEMMA SkipRunningKeeps == ASSUME IInv, SkipRunning PROVE IInv'
<1>1. PICK c : c = Current
  OBVIOUS
<1>2. /\ pc = "running" /\ plan.at <= Len(running) /\ worker' = worker /\ out' = out
      /\ prompt' = prompt /\ flight' = flight /\ step' = step /\ pc' = pc /\ running' = running
      /\ waiting' = waiting /\ skipped' = skipped /\ plan' = [plan EXCEPT !.at = @ + 1]
      /\ req' = req \/ req' = [req EXCEPT ![c] = Trimmed(req[c])]
  BY <1>1 DEF SkipRunning, RunningLeft, queues
<1>3. Types /\ Queues /\ Planned
  BY DEF IInv
<1>4. plan.at \in 1..Len(running) /\ c = running[plan.at] /\ c \in Requests
  BY <1>1, <1>2, <1>3 DEF Types, Queues, Current
<1>5. IsReq(req[c]) /\ DOMAIN req = Requests
  BY <1>3, <1>4 DEF Types
<1>6. /\ DOMAIN req' = Requests /\ \A r \in Requests : r # c => req'[r] = req[r]
      /\ IsReq(req'[c]) /\ req'[c].status = req[c].status /\ req'[c].tokens = req[c].tokens
      /\ req'[c].flying = req[c].flying /\ req'[c].stale = req[c].stale
      /\ req'[c].drop = req[c].drop
  BY <1>2, <1>4, <1>5, TrimmedReq
<1>7. \A r \in Requests : req'[r].status = req[r].status
  BY <1>6
<1>8. /\ plan'.rows = plan.rows /\ plan'.at = plan.at + 1 /\ plan'.skips = plan.skips
      /\ plan'.budget = plan.budget /\ DOMAIN plan' = DOMAIN plan
  BY <1>2, <1>3 DEF Types
<1>9. Types'
  <2>1. \A r \in Requests : IsReq(req'[r])
    BY <1>3, <1>6 DEF Types
  <2>2. plan'.at \in Nat \ {0}
    BY <1>3, <1>8 DEF Types
  <2> QED
    BY <1>2, <1>3, <1>6, <1>8, <2>1, <2>2, TypesFrom DEF Types
<1>10. Queues'
  <2>1. \A r \in ToSet(running) : req'[r].status = "running"
    BY <1>3, <1>7, InToSet DEF Queues
  <2>2. \A r \in ToSet(waiting) \cup ToSet(skipped) : req'[r].status \in Idle
    BY <1>3, <1>7, InToSet DEF Queues, AllIdle
  <2> QED
    BY <1>2, <1>3, <2>1, <2>2, QueuesFrom DEF Queues
<1>11. Planned'
  <2>1. \A i \in DOMAIN plan.rows : req'[plan.rows[i].r].status = "running"
    BY <1>3, <1>7 DEF Planned, Types, IsStep, IsRow
  <2>2. \A i \in DOMAIN plan.rows : \E j \in DOMAIN running :
           j < plan'.at /\ plan.rows[i].r = running[j]
    <3>1. \A j \in DOMAIN running : j < plan.at => j < plan'.at
      BY <1>3, <1>8 DEF Types, Queues
    <3> QED
      BY <1>2, <1>3, <3>1 DEF Planned
  <2> QED
    BY <1>2, <1>3, <1>8, <2>1, <2>2 DEF Planned
<1>12. \A r \in Requests : Served(r)'
  <2>1. End' = End /\ \A r : Mine(r)' = Mine(r)
    BY <1>2, <1>8, SameLines
  <2>2. \A r \in Requests : Served(r)
    BY DEF IInv
  <2> QED
    BY <1>2, <1>4, <1>6, <2>1, <2>2, StillServed
<1> QED
  BY <1>9, <1>10, <1>11, <1>12 DEF IInv

LEMMA ScheduleRunningKeeps == ASSUME IInv, ScheduleRunning PROVE IInv'
<1>1. PICK c : c = Current
  OBVIOUS
<1> DEFINE q == Trimmed(req[c])
           n == RunningTokens(q, prompt[c])
           more == Needed(q, q.computed + n + K)
           beyond == n + q.computed - q.tokens - q.holders
           drafts == Max({0, Min({q.spec, beyond})})
<1>2. PICK row : row = Row(c, n, drafts, FALSE, NoWork)
  OBVIOUS
<1>3. /\ pc = "running" /\ plan.at <= Len(running) /\ worker' = worker /\ out' = out
      /\ prompt' = prompt /\ flight' = flight /\ step' = step /\ pc' = pc /\ running' = running
      /\ waiting' = waiting /\ skipped' = skipped /\ n > 0
      /\ Allocated(c, [q EXCEPT !.spec = 0], more)
      /\ plan' = [plan EXCEPT !.at = @ + 1, !.budget = @ - n, !.ran = TRUE,
                              !.prefill = @ \/ q.chunk, !.rows = Append(@, row)]
  BY <1>1, <1>2 DEF ScheduleRunning, RunningLeft, queues
<1>4. Types /\ Queues /\ Planned
  BY DEF IInv
<1>5. /\ plan.at \in 1..Len(running) /\ c = running[plan.at] /\ c \in Requests
      /\ c \in ToSet(running) /\ DOMAIN running = 1..Len(running)
  BY <1>1, <1>3, <1>4 DEF Types, Queues, Current, ToSet
<1>6. /\ IsReq(req[c]) /\ DOMAIN req = Requests /\ prompt[c] \in Nat \ {0}
      /\ plan.budget \in Int /\ worker[c].total \in Int /\ req[c].status = "running"
  BY <1>4, <1>5, Sizes DEF Types, IsWork, Queues
<1>7. /\ IsReq(q) /\ q.status = "running" /\ q.tokens = req[c].tokens
      /\ q.flying = req[c].flying /\ q.stale = req[c].stale /\ q.drop = req[c].drop
  BY <1>6, TrimmedReq
<1> HIDE DEF q
<1>8. n \in Nat \ {0}
  <2>1. n \in Int
    BY <1>6, <1>7, RunningTokensInt
  <2> HIDE DEF n
  <2> QED
    BY <1>3, <2>1
<1> HIDE DEF n
<1>9. drafts \in Int
  <2>1. beyond \in Int /\ q.spec \in Int /\ 0 \in Int
    BY <1>7, <1>8 DEF IsReq
  <2> HIDE DEF beyond
  <2>2. Min({q.spec, beyond}) \in Int
    BY <2>1, Extremes
  <2> QED
    BY <2>1, <2>2, Extremes
<1> HIDE DEF drafts
<1>10. IsRow(row) /\ row.r = c /\ row.n = n /\ row.fresh = NoWork
  BY <1>2, <1>5, <1>8, <1>9 DEF Row, IsRow, IsWork, NoWork
<1>11. \A i \in DOMAIN plan.rows : plan.rows[i].r # row.r
  <2>1. ASSUME NEW j \in DOMAIN running, j < plan.at PROVE running[j] # c
    <3>1. j # plan.at
      BY <1>5, <2>1
    <3> QED
      BY <1>4, <1>5, <3>1 DEF Queues, Distinct
  <2> QED
    BY <1>3, <1>4, <1>10, <2>1 DEF Planned
<1>12. /\ DOMAIN req' = Requests /\ \A r \in Requests : r # c => req'[r] = req[r]
       /\ IsReq(req'[c]) /\ req'[c].status = "running" /\ req'[c].tokens = q.tokens
       /\ req'[c].flying = q.flying /\ req'[c].stale = q.stale /\ req'[c].drop = q.drop
  BY <1>3, <1>5, <1>6, <1>7 DEF Allocated, IsReq, Fields, Statuses
<1>13. /\ plan'.rows = Append(plan.rows, row) /\ DOMAIN plan' = DOMAIN plan
       /\ plan'.at = plan.at + 1 /\ plan'.skips = plan.skips /\ plan'.budget \in Int
       /\ plan'.at \in Nat \ {0}
  BY <1>3, <1>4, <1>8 DEF Types
<1>0. /\ flight' = flight /\ step' = step /\ worker' = worker /\ out' = out
      /\ prompt' = prompt /\ pc' = pc
  BY <1>3
<1>14. /\ Types' /\ \A i \in DOMAIN plan'.rows : req'[plan'.rows[i].r].status = "running"
       /\ \A i \in DOMAIN plan'.rows :
             plan'.rows[i] = row \/ \E j \in DOMAIN plan.rows : plan'.rows[i] = plan.rows[j]
  <2>1. \A i \in DOMAIN plan.rows : plan.rows[i].r # c
    BY <1>10, <1>11
  <2>2. IsRow(row) /\ row.r = c /\ c \in Requests
    BY <1>5, <1>10
  <2> QED
    BY <1>0, <1>12, <1>13, <2>1, <2>2, RowTypes
<1>15. Planned'
  <2>1. ASSUME NEW i \in DOMAIN plan'.rows
        PROVE  \E j \in DOMAIN running : j < plan'.at /\ plan'.rows[i].r = running[j]
    <3>1. CASE plan'.rows[i] = row
      <4>1. plan.at \in DOMAIN running /\ plan.at < plan'.at
        BY <1>5, <1>13
      <4> QED
        BY <1>5, <1>10, <3>1, <4>1
    <3>2. ASSUME NEW k \in DOMAIN plan.rows, plan'.rows[i] = plan.rows[k]
          PROVE  \E j \in DOMAIN running : j < plan'.at /\ plan'.rows[i].r = running[j]
      <4>1. PICK j \in DOMAIN running : j < plan.at /\ plan.rows[k].r = running[j]
        BY <1>3, <1>4 DEF Planned
      <4>2. j < plan'.at
        BY <1>5, <1>13, <4>1
      <4> QED
        BY <3>2, <4>1, <4>2
    <3> QED
      BY <1>14, <3>1, <3>2
  <2>2. pc' = "running" /\ step' = <<>> /\ plan'.skips = <<>> /\ running' = running
    BY <1>0, <1>3, <1>4, <1>13 DEF Planned
  <2>3. \A i \in DOMAIN plan'.rows : req'[plan'.rows[i].r].status = "running"
    BY <1>14
  <2> QED
    BY <2>1, <2>2, <2>3 DEF Planned
<1>16. Queues'
  <2>1. \A r \in Requests : req'[r].status = req[r].status
    BY <1>6, <1>12
  <2>2. \A r \in ToSet(running) : req'[r].status = "running"
    BY <1>4, <2>1, InToSet DEF Queues
  <2>3. \A r \in ToSet(waiting) \cup ToSet(skipped) : req'[r].status \in Idle
    BY <1>4, <2>1, InToSet DEF Queues, AllIdle
  <2> QED
    BY <1>3, <1>4, <2>2, <2>3, QueuesFrom DEF Queues
<1>17. /\ End' = End /\ \A r : r # c => Mine(r)' = Mine(r)
       /\ Mine(c)[End].n = 0
       /\ \A i \in 0..End : i # End => Mine(c)'[i] = Mine(c)[i]
       /\ Mine(c)'[End].n = n /\ Mine(c)'[End].fresh = NoWork
  BY <1>3, <1>4, <1>10, <1>11, <1>13, LineGrows
<1>18. Served(c)'
  <2>0. Served(c)
    BY <1>5 DEF IInv
  <2>1. Account(End, Mine(c), q.flying, q.stale, q.drop, TRUE, q.tokens, worker[c].total)
    <3>1. Balanced(c)
      BY <1>6, <2>0 DEF Served
    <3> QED
      BY <1>6, <1>7, <3>1 DEF Balanced
  <2>2. /\ q.flying \in Int /\ q.stale \in Int /\ q.drop \in BOOLEAN /\ q.tokens \in Int
    BY <1>7 DEF IsReq
  <2>3. Account(End, Mine(c)', q.flying, q.stale, q.drop, TRUE, q.tokens, worker[c].total)
    <3> DEFINE M == Mine(c)
               M2 == Mine(c)'
               t == worker[c].total
    <3>1. /\ \A i \in 0..End : i # End => M2[i] = M[i]
          /\ M2[End].n \in Nat /\ M2[End].n > 0 /\ M2[End].fresh = NoWork /\ M[End].n = 0
      BY <1>8, <1>17
    <3>2. End \in Nat /\ \A i \in 0..End : M[i].n \in Nat
      BY <1>4, Lines
    <3>3. Account(End, M, q.flying, q.stale, q.drop, TRUE, q.tokens, t) /\ t \in Int
      BY <1>6, <2>1
    <3> HIDE DEF M, M2, t
    <3>4. Account(End, M2, q.flying, q.stale, q.drop, TRUE, q.tokens, t)
      BY <2>2, <3>1, <3>2, <3>3, RowPlanned
    <3> QED
      BY <3>4 DEF M2, t
  <2>4. Balanced(c)'
    BY <1>3, <1>12, <1>17, <2>3 DEF Balanced
  <2>5. InOrder(c)'
    BY <1>3, <2>0 DEF Served, InOrder
  <2>6. req[c].tokens = prompt[c] + Len(out[c])
    BY <1>6, <2>0 DEF Served
  <2> QED
    BY <1>3, <1>7, <1>12, <2>4, <2>5, <2>6 DEF Served
<1>19. \A r \in Requests \ {c} : Served(r)'
  BY <1>3, <1>12, <1>17, OthersServed
<1> QED
  BY <1>14, <1>15, <1>16, <1>18, <1>19 DEF IInv

-----------------------------------------------------------------------------
(* Requests are preempted.                                                 *)

LEMMA PreemptKeeps ==
    ASSUME IInv, running # <<>>, NEW d \in BOOLEAN, PreemptLast(d),
           pc = "reset" \/ (pc = "running" /\ plan.at <= Len(running)),
           pc' = pc \/ (pc = "running" /\ pc' = "finish"),
           flight' = flight, step' = step, worker' = worker, out' = out, prompt' = prompt,
           skipped' = skipped, plan'.rows = plan.rows, plan'.at = plan.at,
           plan'.budget = plan.budget, plan'.skips = plan.skips, DOMAIN plan' = DOMAIN plan
    PROVE  IInv'
<1>1. PICK v : v = Last(running)
  OBVIOUS
<1>2. /\ req' = [req EXCEPT ![v] = Preempted(@, d)]
      /\ running' = Front(running) /\ waiting' = <<v>> \o waiting
  BY <1>1 DEF PreemptLast
<1>3. Types /\ Queues /\ Planned
  BY DEF IInv
<1>4. /\ running' \in Seq(Requests) /\ v \in Requests /\ Len(running) \in Nat \ {0}
      /\ Len(running') = Len(running) - 1
      /\ \A i \in 1..(Len(running) - 1) : running'[i] = running[i]
      /\ ToSet(running) = ToSet(running') \cup {v}
      /\ Distinct(running') /\ v \notin ToSet(running')
  <2>1. running \in Seq(Requests) /\ Distinct(running)
    BY <1>3 DEF Queues
  <2> QED
    BY <1>1, <1>2, <2>1, QueueFront
<1>5. req[v].status = "running" /\ IsReq(req[v]) /\ DOMAIN req = Requests
  BY <1>3, <1>4 DEF Queues, Types
<1>6. /\ DOMAIN req' = Requests /\ \A r \in Requests : r # v => req'[r] = req[r]
      /\ IsReq(req'[v]) /\ req'[v].status = "preempted" /\ req'[v].tokens = req[v].tokens
      /\ req'[v].flying = req[v].flying /\ req'[v].stale = req[v].flying
      /\ req'[v].drop = (d \/ (req[v].drop /\ req[v].stale > 0))
  <2>1. req'[v] = Preempted(req[v], d)
    BY <1>2, <1>4, <1>5
  <2>2. DOMAIN req' = Requests /\ \A r \in Requests : r # v => req'[r] = req[r]
    BY <1>2, <1>5
  <2>3. /\ DOMAIN req'[v] = Fields /\ req'[v].status = "preempted"
        /\ req'[v].tokens = req[v].tokens /\ req'[v].flying = req[v].flying
        /\ req'[v].stale = req[v].flying
        /\ req'[v].computed = 0 /\ req'[v].holders = 0 /\ req'[v].spec = 0
    BY <1>5, <2>1 DEF Preempted, IsReq, Fields
  <2>4. req'[v].drop = (d \/ (req[v].drop /\ req[v].stale > 0))
    BY <1>5, <2>1 DEF Preempted, IsReq, Fields
  <2>5. req'[v].drop \in BOOLEAN
    BY <2>4
  <2>6. IsReq(req'[v])
    BY <1>5, <2>3, <2>5 DEF IsReq, Statuses
  <2> QED
    BY <2>2, <2>3, <2>4, <2>6
<1>7. \A i \in DOMAIN plan.rows : plan.rows[i].r # v /\ plan.rows[i].r \in Requests
  <2>1. \A i \in DOMAIN plan.rows : plan.rows[i].r \in Requests
    BY <1>3 DEF Types, IsStep, IsRow
  <2>2. CASE pc = "reset"
    <3>1. plan.rows = <<>>
      BY <1>3, <2>2 DEF Planned
    <3> QED
      BY <3>1
  <2>3. CASE pc = "running" /\ plan.at <= Len(running)
    <3>1. ASSUME NEW i \in DOMAIN plan.rows PROVE plan.rows[i].r # v
      <4>1. PICK j \in DOMAIN running : j < plan.at /\ plan.rows[i].r = running[j]
        BY <1>3, <2>3 DEF Planned
      <4>2. j \in 1..(Len(running) - 1)
        BY <1>3, <1>4, <2>3, <4>1 DEF Types, Queues
      <4>3. running'[j] \in ToSet(running')
        BY <1>4, <4>2 DEF ToSet
      <4> QED
        BY <1>4, <4>1, <4>2, <4>3
    <3> QED
      BY <2>1, <3>1
  <2> QED
    BY <2>2, <2>3
<1>8. Types'
  <2>1. \A r \in Requests : IsReq(req'[r])
    BY <1>3, <1>6 DEF Types
  <2>2. pc' \in {"idle", "running", "waiting", "finish", "output", "reset"}
    BY <1>3 DEF Types
  <2> QED
    BY <1>3, <1>6, <2>1, <2>2, TypesFrom DEF Types
<1>9. Queues'
  <2>1. /\ waiting \in Seq(Requests) /\ <<v>> \in Seq(Requests)
        /\ Distinct(waiting) /\ Distinct(<<v>>) /\ ToSet(<<v>>) = {v}
    BY <1>3, <1>4 DEF Queues, Distinct, ToSet
  <2>2. /\ \A r \in ToSet(waiting) \cup ToSet(skipped) : r \in Requests /\ req[r].status \in Idle
        /\ \A r \in ToSet(running) : r \in Requests /\ req[r].status = "running"
    BY <1>3, InToSet DEF Queues, AllIdle
  <2>3. v \notin ToSet(waiting) /\ v \notin ToSet(skipped)
    BY <1>5, <2>2 DEF Idle
  <2>4. /\ waiting' \in Seq(Requests) /\ Distinct(waiting')
        /\ ToSet(waiting') = {v} \cup ToSet(waiting)
    <3>1. Apart(<<v>>, waiting)
      BY <2>1, <2>3 DEF Apart
    <3> QED
      BY <1>2, <2>1, <3>1, QueueConcat
  <2>5. Apart(waiting', skipped')
    BY <1>3, <2>3, <2>4 DEF Queues, Apart
  <2>6. \A r \in ToSet(running') : req'[r].status = "running"
    BY <1>4, <1>6, <2>2
  <2>7. \A r \in ToSet(waiting') \cup ToSet(skipped') : req'[r].status \in Idle
    BY <1>6, <2>2, <2>4 DEF Idle
  <2>8. pc' # "waiting" /\ skipped' \in Seq(Requests) /\ Distinct(skipped')
    BY <1>3 DEF Queues
  <2> QED
    BY <1>4, <2>4, <2>5, <2>6, <2>7, <2>8, QueuesFrom
<1>10. Planned'
  <2>1. \A i \in DOMAIN plan.rows : req'[plan.rows[i].r].status = "running"
    BY <1>3, <1>6, <1>7 DEF Planned
  <2>2. ASSUME pc' = "running", NEW i \in DOMAIN plan.rows
        PROVE  \E j \in DOMAIN running' : j < plan'.at /\ plan.rows[i].r = running'[j]
    <3>1. pc = "running" /\ plan.at <= Len(running)
      BY <2>2
    <3>2. PICK j \in DOMAIN running : j < plan.at /\ plan.rows[i].r = running[j]
      BY <1>3, <3>1 DEF Planned
    <3>3. j \in 1..(Len(running) - 1)
      BY <1>3, <1>4, <3>1, <3>2 DEF Types, Queues
    <3>4. j \in DOMAIN running'
      BY <1>4, <3>3
    <3> QED
      BY <1>4, <3>2, <3>3, <3>4
  <2>3. pc' = "running" => plan.skips = <<>>
    BY <1>3 DEF Planned
  <2>4. pc' \in {"idle", "output", "reset"} => plan.rows = <<>>
    BY <1>3 DEF Planned
  <2>5. step = <<>>
    BY <1>3 DEF Planned
  <2> QED
    BY <2>1, <2>2, <2>3, <2>4, <2>5 DEF Planned
<1>11. End' = End /\ \A r : Mine(r)' = Mine(r)
  BY SameLines
<1>12. Served(v)'
  <2>1. Served(v)
    BY <1>4 DEF IInv
  <2>2. Balanced(v) /\ req[v].tokens = prompt[v] + Len(out[v])
    BY <1>5, <2>1 DEF Served
  <2> DEFINE q == req[v]
             M == Mine(v)
             t == worker[v].total
             drop2 == req'[v].drop
  <2>3. Account(End, M, q.flying, q.stale, q.drop, TRUE, q.tokens, t)
    BY <1>5, <2>2 DEF Balanced
  <2>4. /\ q.flying \in Int /\ q.stale \in Int /\ q.drop \in BOOLEAN /\ q.tokens \in Int
        /\ t \in Int
    BY <1>3, <1>4, <1>5 DEF IsReq, Types, IsWork
  <2>5. End \in Nat /\ \A i \in 0..End : M[i].n \in Nat
    BY <1>3, Lines
  <2>6. M[End].n = 0
    <3>1. Share(plan.rows, v) = Zero
      BY <1>7 DEF Share
    <3>2. Line(End) = plan.rows /\ End \in 0..End
      BY <1>3, Lines DEF Line
    <3> QED
      BY <3>1, <3>2 DEF Mine, Zero
  <2>7. Account(End, M, q.flying, q.flying, drop2, FALSE, q.tokens, t)
    <3>1. drop2 \in BOOLEAN /\ (q.drop /\ q.stale > 0 => drop2)
      BY <1>6 DEF IsReq
    <3> DEFINE flying == q.flying
               stale == q.stale
               drop == q.drop
               tokens == q.tokens
               e == End
    <3>2. /\ flying \in Int /\ stale \in Int /\ drop \in BOOLEAN /\ tokens \in Int /\ t \in Int
          /\ drop2 \in BOOLEAN /\ (drop /\ stale > 0 => drop2)
          /\ e \in Nat /\ (\A i \in 0..e : M[i].n \in Nat) /\ M[e].n = 0
          /\ Account(e, M, flying, stale, drop, TRUE, tokens, t)
      BY <2>3, <2>4, <2>5, <2>6, <3>1
    <3> HIDE DEF q, M, t, drop2, flying, stale, drop, tokens, e
    <3>3. \A d2 \in BOOLEAN : (drop /\ stale > 0 => d2) =>
             Account(e, M, flying, flying, d2, FALSE, tokens, t)
      BY <3>2, BecomesStale, ZenonT(30)
    <3>4. Account(e, M, flying, flying, drop2, FALSE, tokens, t)
      BY <3>2, <3>3
    <3> QED
      BY <3>4 DEF flying, tokens, e
  <2>8. Balanced(v)'
    <3>1. ~(req'[v].status = "running")
      BY <1>6
    <3> QED
      BY <1>6, <1>11, <2>7, <3>1 DEF Balanced
  <2>9. InOrder(v)'
    BY <2>1 DEF Served, InOrder
  <2> QED
    BY <1>6, <2>2, <2>8, <2>9 DEF Served
<1>13. \A r \in Requests \ {v} : Served(r)'
  BY <1>6, <1>11, OthersServed
<1> QED
  BY <1>8, <1>9, <1>10, <1>12, <1>13 DEF IInv

LEMMA PreemptRunningKeeps == ASSUME IInv, PreemptRunning PROVE IInv'
<1>1. PICK d \in BOOLEAN : d = (mode = "strict")
  OBVIOUS
<1>2. /\ PreemptLast(d) /\ pc = "running" /\ plan.at <= Len(running)
      /\ pc' = pc \/ pc' = "finish"
      /\ flight' = flight /\ step' = step /\ worker' = worker /\ out' = out /\ prompt' = prompt
      /\ skipped' = skipped /\ plan' = [plan EXCEPT !.victims = @ \cup {Last(running)}]
  BY <1>1 DEF PreemptRunning, RunningLeft, PreemptLast
<1>3. /\ plan'.rows = plan.rows /\ plan'.at = plan.at /\ plan'.budget = plan.budget
      /\ plan'.skips = plan.skips /\ DOMAIN plan' = DOMAIN plan /\ plan.at \in Nat \ {0}
  BY <1>2 DEF IInv, Types
<1>4. running # <<>>
  BY <1>2, <1>3 DEF IInv, Queues
<1> QED
  BY <1>2, <1>3, <1>4, PreemptKeeps

LEMMA ResetRunningKeeps == ASSUME IInv, ResetRunning PROVE IInv'
BY PreemptKeeps DEF ResetRunning

-----------------------------------------------------------------------------
(* A step is sent off and taken back.                                      *)

LEMMA AdvancedReq ==
    ASSUME NEW q, IsReq(q), NEW row, IsRow(row)
    PROVE  LET q2 == Advanced(q, row)
           IN  /\ IsReq(q2) /\ q2.status = q.status /\ q2.tokens = q.tokens
               /\ q2.flying = q.flying + row.n /\ q2.stale = q.stale /\ q2.drop = q.drop
<1> DEFINE base == [q EXCEPT !.computed = q.computed + row.n, !.flying = @ + row.n,
                             !.chunk = q.computed + row.n < q.tokens + q.holders,
                             !.seq = IF Transfers THEN pool.ahead + 1 ELSE 0]
           q2 == Advanced(q, row)
<1>1. q2 = base \/ q2 = [base EXCEPT !.holders = @ + 1 + row.drafts, !.spec = K]
  BY DEF Advanced
<1>2. K \in Int /\ row.n \in Int /\ row.drafts \in Int
  BY Sizes DEF K, IsRow
<1>3. /\ IsReq(base) /\ base.status = q.status /\ base.tokens = q.tokens
      /\ base.flying = q.flying + row.n /\ base.stale = q.stale /\ base.drop = q.drop
  BY <1>2 DEF IsReq, Fields
<1> HIDE DEF base, q2
<1>4. /\ IsReq(q2) /\ q2.status = q.status /\ q2.tokens = q.tokens
      /\ q2.flying = q.flying + row.n /\ q2.stale = q.stale /\ q2.drop = q.drop
  <2>1. CASE q2 = base
    BY <1>3, <2>1
  <2>2. CASE q2 = [base EXCEPT !.holders = @ + 1 + row.drafts, !.spec = K]
    <3>1. DOMAIN q2 = DOMAIN base /\ q2.holders = base.holders + 1 + row.drafts /\ q2.spec = K
      BY <1>3, <2>2 DEF IsReq, Fields
    <3>2. /\ q2.status = base.status /\ q2.tokens = base.tokens /\ q2.computed = base.computed
          /\ q2.flying = base.flying /\ q2.stale = base.stale /\ q2.drop = base.drop
      BY <1>3, <2>2 DEF IsReq, Fields
    <3> QED
      BY <1>2, <1>3, <3>1, <3>2 DEF IsReq
  <2> QED
    BY <1>1, <2>1, <2>2
<1> QED
  BY <1>4 DEF q2

\* No action that leaves the queues and the statuses alone disturbs them.
LEMMA SameQueues ==
    ASSUME IInv, running' = running, waiting' = waiting, skipped' = skipped,
           pc' # "waiting", \A r \in Requests : req'[r].status = req[r].status
    PROVE  Queues'
<1>1. \A r \in ToSet(running) : req'[r].status = "running"
  BY InToSet DEF IInv, Queues
<1>2. \A r \in ToSet(waiting) \cup ToSet(skipped) : req'[r].status \in Idle
  BY InToSet DEF IInv, Queues, AllIdle
<1> QED
  BY <1>1, <1>2, QueuesFrom DEF IInv, Queues

LEMMA FinishKeeps == ASSUME IInv, Finish PROVE IInv'
<1> DEFINE of(r) == {i \in DOMAIN plan.rows : plan.rows[i].r = r}
<1>1. /\ pc = "finish" /\ pc' = "idle" /\ plan' = NoPlan
      /\ req' = [r \in Requests |->
                   IF of(r) = {} THEN req[r]
                   ELSE Advanced(req[r], plan.rows[CHOOSE i \in of(r) : TRUE])]
      /\ flight' = Append(flight, [rows |-> plan.rows, loads |-> plan.loads])
      /\ running' = running /\ waiting' = waiting /\ skipped' = skipped
      /\ step' = step /\ worker' = worker /\ out' = out /\ prompt' = prompt
  BY DEF Finish, queues
<1>2. Types /\ Queues /\ Planned
  BY DEF IInv
<1>3. IsStep(plan.rows) /\ \A r \in Requests : IsReq(req[r])
  BY <1>2 DEF Types
<1>4. End \in Nat /\ End \in 0..End /\ \A r : \A i \in 0..End : Mine(r)[i].n \in Nat
  BY <1>2, Lines
<1>5. \A r : Mine(r)[End] = Share(plan.rows, r)
  BY <1>2, <1>4, Lines DEF Mine, Line
<1>6. ASSUME NEW r \in Requests
      PROVE  /\ IsReq(req'[r]) /\ req'[r].status = req[r].status
             /\ req'[r].tokens = req[r].tokens /\ req'[r].flying = req[r].flying + Mine(r)[End].n
             /\ req'[r].stale = req[r].stale /\ req'[r].drop = req[r].drop
  <2>1. CASE of(r) = {}
    <3>1. req'[r] = req[r]
      BY <1>1, <2>1
    <3>2. Share(plan.rows, r) = Zero
      BY <2>1 DEF Share
    <3> QED
      BY <1>3, <1>5, <3>1, <3>2 DEF Zero, IsReq
  <2>2. CASE of(r) # {}
    <3>1. PICK i : i = CHOOSE k \in of(r) : TRUE
      OBVIOUS
    <3>2. i \in DOMAIN plan.rows /\ plan.rows[i].r = r
      BY <2>2, <3>1
    <3>3. req'[r] = Advanced(req[r], plan.rows[i])
      BY <1>1, <2>2, <3>1
    <3>4. IsRow(plan.rows[i])
      BY <1>3, <3>2 DEF IsStep
    <3>5. Mine(r)[End].n = plan.rows[i].n
      BY <1>3, <1>5, <3>2, ShareOf
    <3> QED
      BY <1>3, <3>3, <3>4, <3>5, AdvancedReq
  <2> QED
    BY <2>1, <2>2
<1>7. /\ plan'.rows = <<>> /\ plan'.skips = <<>> /\ plan'.at = 1 /\ plan'.budget \in Int
      /\ DOMAIN plan' = {"at", "budget", "rows", "victims", "prefill", "ran", "skips", "loads"}
  BY <1>1 DEF NoPlan
<1>8. Types'
  <2>1. /\ IsSeq(flight') /\ Len(flight) \in Nat
        /\ DOMAIN flight = 1..Len(flight) /\ DOMAIN flight' = 1..(Len(flight) + 1)
        /\ \A i \in 1..Len(flight) : flight'[i] = flight[i]
        /\ flight'[Len(flight) + 1].rows = plan.rows
    BY <1>1, <1>2, SeqAppend DEF Types
  <2>2. ASSUME NEW i \in DOMAIN flight' PROVE IsStep(flight'[i].rows)
    <3>1. i \in DOMAIN flight \/ i = Len(flight) + 1
      BY <2>1
    <3> QED
      BY <1>2, <1>3, <2>1, <3>1 DEF Types
  <2>3. IsStep(plan'.rows) /\ plan'.skips \in Seq(Requests)
    BY <1>7, NoStep
  <2>4. DOMAIN req' = Requests /\ \A r \in Requests : IsReq(req'[r])
    BY <1>1, <1>6
  <2>5. /\ DOMAIN worker' = Requests /\ \A r \in Requests : IsWork(worker'[r])
        /\ out' \in [Requests -> Seq(Int)] /\ prompt' \in [Requests -> Prompts]
        /\ IsStep(step')
    BY <1>1, <1>2 DEF Types
  <2>6. pc' \in {"idle", "running", "waiting", "finish", "output", "reset"}
    BY <1>1
  <2>7. IsSeq(flight')
    BY <2>1
  <2> QED
    BY <1>7, <2>2, <2>3, <2>4, <2>5, <2>6, <2>7, TypesFrom
<1>9. Queues'
  BY <1>1, <1>6, SameQueues
<1>10. Planned'
  <2>1. step = <<>>
    BY <1>1, <1>2 DEF Planned
  <2> QED
    BY <1>1, <1>7, <2>1 DEF Planned
<1>11. /\ End' = End + 1
       /\ \A r : \A i \in 0..End : Mine(r)'[i] = Mine(r)[i]
       /\ \A r : Mine(r)'[End + 1] = Zero
  BY <1>1, <1>2, <1>7, LineSent
<1>12. ASSUME NEW r \in Requests PROVE Served(r)'
  <2>1. Served(r) /\ IsReq(req[r]) /\ worker[r].total \in Int
    BY <1>2 DEF IInv, Types, IsWork
  <2>2. InOrder(r)'
    BY <1>1, <2>1 DEF Served, InOrder
  <2>3. ASSUME req'[r].status = "new"
        PROVE  out'[r] = <<>> /\ \A i \in 0..End' : Mine(r)'[i] = Zero
    <3>1. out[r] = <<>> /\ \A i \in 0..End : Mine(r)[i] = Zero
      BY <1>6, <2>1, <2>3 DEF Served
    <3>2. \A i \in 0..(End + 1) : i \in 0..End \/ i = End + 1
      BY <1>4
    <3> QED
      BY <1>1, <1>11, <3>1, <3>2
  <2>4. ASSUME req'[r].status \in Idle \cup {"running"}
        PROVE  req'[r].tokens = prompt'[r] + Len(out'[r]) /\ Balanced(r)'
    <3>1. req[r].tokens = prompt[r] + Len(out[r]) /\ Balanced(r)
      BY <1>6, <2>1, <2>4 DEF Served
    <3> DEFINE M == Mine(r)
               M2 == Mine(r)'
               e == End
               flying == req[r].flying
               stale == req[r].stale
               drop == req[r].drop
               runs == req[r].status = "running"
               tokens == req[r].tokens
               total == worker[r].total
    <3>2. Account(e, M, flying, stale, drop, runs, tokens, total)
      BY <3>1 DEF Balanced
    <3>3. /\ e \in Nat /\ flying \in Int /\ stale \in Int /\ drop \in BOOLEAN
          /\ runs \in BOOLEAN /\ tokens \in Int /\ total \in Int
          /\ \A i \in 0..e : M[i].n \in Nat /\ M2[i] = M[i]
          /\ M2[e + 1] = Zero
      BY <1>4, <1>11, <2>1 DEF IsReq
    <3>4. Account(e + 1, M2, flying + M[e].n, stale, drop, runs, tokens, total)
      <4> HIDE DEF M, M2, e, flying, stale, drop, runs, tokens, total
      <4> QED
        BY <3>2, <3>3, SentOff
    <3>5. Balanced(r)'
      BY <1>1, <1>6, <1>11, <3>4 DEF Balanced
    <3> QED
      BY <1>1, <1>6, <3>1, <3>5
  <2> QED
    BY <2>2, <2>3, <2>4 DEF Served
<1> QED
  BY <1>8, <1>9, <1>10, <1>12 DEF IInv

LEMMA CollectKeeps == ASSUME IInv, Collect PROVE IInv'
<1>1. /\ pc = "idle" /\ flight # <<>> /\ pc' = "output"
      /\ flight' = Tail(flight) /\ step' = Head(flight).rows
      /\ req' = req \/ req' = [r \in Requests |-> Less(req[r])]
      /\ running' = running /\ waiting' = waiting /\ skipped' = skipped
      /\ plan' = plan /\ worker' = worker /\ out' = out /\ prompt' = prompt
  BY DEF Collect, queues
<1>2. Types /\ Queues /\ Planned
  BY DEF IInv
<1>3. DOMAIN req' = Requests /\ \A r \in Requests :
         /\ IsReq(req'[r]) /\ req'[r].status = req[r].status
         /\ req'[r].tokens = req[r].tokens /\ req'[r].flying = req[r].flying
         /\ req'[r].stale = req[r].stale /\ req'[r].drop = req[r].drop
  <2>1. DOMAIN req = Requests /\ \A r \in Requests : IsReq(req[r])
    BY <1>2 DEF Types
  <2>2. ASSUME NEW r \in Requests
        PROVE  /\ IsReq(Less(req[r])) /\ Less(req[r]).status = req[r].status
               /\ Less(req[r]).tokens = req[r].tokens /\ Less(req[r]).flying = req[r].flying
               /\ Less(req[r]).stale = req[r].stale /\ Less(req[r]).drop = req[r].drop
    BY <2>1 DEF Less, IsReq, Fields
  <2>3. CASE req' = req
    BY <2>1, <2>3
  <2>4. CASE req' = [r \in Requests |-> Less(req[r])]
    BY <2>2, <2>4
  <2> QED
    BY <1>1, <2>3, <2>4
<1>4. plan.rows = <<>> /\ step = <<>>
  BY <1>1, <1>2 DEF Planned
<1>5. Types'
  <2>1. /\ IsSeq(flight') /\ Len(flight) \in Nat \ {0} /\ Head(flight) = flight[1]
        /\ DOMAIN flight = 1..Len(flight) /\ DOMAIN flight' = 1..(Len(flight) - 1)
        /\ \A i \in 1..(Len(flight) - 1) : flight'[i] = flight[i + 1]
    BY <1>1, <1>2, SeqTail DEF Types
  <2>2. ASSUME NEW i \in DOMAIN flight' PROVE IsStep(flight'[i].rows)
    <3>1. i + 1 \in DOMAIN flight
      BY <2>1
    <3> QED
      BY <1>2, <2>1, <3>1 DEF Types
  <2>3. IsStep(step')
    <3>1. 1 \in DOMAIN flight
      BY <2>1
    <3> QED
      BY <1>1, <1>2, <2>1, <3>1 DEF Types
  <2> QED
    BY <1>1, <1>2, <1>3, <2>1, <2>2, <2>3, TypesFrom DEF Types
<1>6. Queues'
  BY <1>1, <1>3, SameQueues
<1>7. Planned'
  BY <1>1, <1>4 DEF Planned
<1>8. /\ End' = End - 1 /\ End >= 2 /\ End \in Nat
      /\ \A r : Mine(r)[0].n = 0
      /\ \A r : \A i \in 0..(End - 1) : Mine(r)'[i] = Mine(r)[i + 1]
  BY <1>1, <1>2, <1>4, LineTaken
<1>9. ASSUME NEW r \in Requests PROVE Served(r)'
  <2>1. Served(r) /\ IsReq(req[r]) /\ worker[r].total \in Int
    BY <1>2 DEF IInv, Types, IsWork
  <2>2. InOrder(r)'
    BY <1>1, <2>1 DEF Served, InOrder
  <2>3. ASSUME req'[r].status = "new"
        PROVE  out'[r] = <<>> /\ \A i \in 0..End' : Mine(r)'[i] = Zero
    <3>1. out[r] = <<>> /\ \A i \in 0..End : Mine(r)[i] = Zero
      BY <1>3, <2>1, <2>3 DEF Served
    <3>2. \A i \in 0..(End - 1) : i + 1 \in 0..End
      BY <1>8
    <3> QED
      BY <1>1, <1>8, <3>1, <3>2
  <2>4. ASSUME req'[r].status \in Idle \cup {"running"}
        PROVE  req'[r].tokens = prompt'[r] + Len(out'[r]) /\ Balanced(r)'
    <3>1. req[r].tokens = prompt[r] + Len(out[r]) /\ Balanced(r)
      BY <1>3, <2>1, <2>4 DEF Served
    <3> DEFINE M == Mine(r)
               M2 == Mine(r)'
               e == End
               flying == req[r].flying
               stale == req[r].stale
               drop == req[r].drop
               runs == req[r].status = "running"
               tokens == req[r].tokens
               total == worker[r].total
    <3>2. Account(e, M, flying, stale, drop, runs, tokens, total)
      BY <3>1 DEF Balanced
    <3>3. e \in Nat /\ e >= 1 /\ flying \in Int /\ stale \in Int
      BY <1>8, <2>1 DEF IsReq
    <3>4. drop \in BOOLEAN /\ runs \in BOOLEAN /\ tokens \in Int /\ total \in Int
      BY <2>1 DEF IsReq
    <3>5. \A i \in 0..e : M[i].n \in Nat
      BY <1>2, Lines
    <3>6. \A i \in 0..(e - 1) : M2[i] = M[i + 1]
      BY <1>8
    <3>7. M[0].n = 0
      BY <1>8
    <3>8. Taken(e, M, M2)
      BY <3>5, <3>6, <3>7 DEF Taken
    <3>9. Account(e - 1, M2, flying, stale, drop, runs, tokens, total)
      <4> HIDE DEF M, M2, e, flying, stale, drop, runs, tokens, total
      <4> QED
        BY <3>2, <3>3, <3>4, <3>8, Collected
    <3>10. Balanced(r)'
      BY <1>1, <1>3, <1>8, <3>9 DEF Balanced
    <3> QED
      BY <1>1, <1>3, <3>1, <3>10
  <2> QED
    BY <2>2, <2>3, <2>4 DEF Served
<1> QED
  BY <1>5, <1>6, <1>7, <1>9 DEF IInv

-----------------------------------------------------------------------------
(* A request ends, for the client at least.                                *)

\* It is taken out of the queues, or it was in none.
LEMMA QueuesWithout ==
    ASSUME IInv, NEW c \in Requests, pc' # "waiting",
           \/ Dequeued(c)
           \/ /\ running' = running /\ waiting' = waiting /\ skipped' = skipped
              /\ req[c].status \notin Idle \cup {"running"},
           \A r \in Requests : r # c => req'[r] = req[r]
    PROVE  Queues'
<1>1. Queues
  BY DEF IInv
<1>2. /\ \A r \in ToSet(running) : r \in Requests /\ req[r].status = "running"
      /\ \A r \in ToSet(waiting) \cup ToSet(skipped) : r \in Requests /\ req[r].status \in Idle
  BY <1>1, InToSet DEF Queues, AllIdle
<1>3. /\ running \in Seq(Requests) /\ waiting \in Seq(Requests) /\ skipped \in Seq(Requests)
      /\ Distinct(running) /\ Distinct(waiting) /\ Distinct(skipped)
  BY <1>1 DEF Queues
<1>4. /\ running' \in Seq(Requests) /\ Distinct(running')
      /\ waiting' \in Seq(Requests) /\ Distinct(waiting')
      /\ skipped' \in Seq(Requests) /\ Distinct(skipped')
      /\ ToSet(running') = ToSet(running) \ {c} /\ ToSet(waiting') = ToSet(waiting) \ {c}
      /\ ToSet(skipped') = ToSet(skipped) \ {c}
  <2>1. CASE Dequeued(c)
    <3>1. /\ running' = RemoveFirst(running, c) /\ waiting' = RemoveFirst(waiting, c)
          /\ skipped' = RemoveFirst(skipped, c)
      BY <2>1 DEF Dequeued
    <3> QED
      BY <1>3, <3>1, QueueRemove
  <2>2. CASE /\ running' = running /\ waiting' = waiting /\ skipped' = skipped
             /\ req[c].status \notin Idle \cup {"running"}
    <3>1. c \notin ToSet(running) /\ c \notin ToSet(waiting) /\ c \notin ToSet(skipped)
      BY <1>2, <2>2
    <3> QED
      BY <1>3, <2>2, <3>1
  <2> QED
    BY <2>1, <2>2
<1>5. Apart(waiting', skipped')
  BY <1>1, <1>4 DEF Queues, Apart
<1>6. /\ \A r \in ToSet(running') : req'[r].status = "running"
      /\ \A r \in ToSet(waiting') \cup ToSet(skipped') : req'[r].status \in Idle
  BY <1>2, <1>4
<1> QED
  BY <1>4, <1>5, <1>6, QueuesFrom

LEMMA EndedReq ==
    ASSUME Types, NEW c \in Requests, Closed(c) \/ Gone(c)
    PROVE  /\ DOMAIN req' = Requests /\ DOMAIN worker' = Requests
           /\ \A r \in Requests : r # c => req'[r] = req[r] /\ worker'[r] = worker[r]
           /\ IsReq(req'[c]) /\ IsWork(worker'[c]) /\ req'[c].status \in {"gone", "finished"}
<1>1. /\ DOMAIN req = Requests /\ IsReq(req[c]) /\ DOMAIN worker = Requests /\ IsWork(worker[c])
  BY DEF Types
<1>2. CASE Gone(c)
  <2>1. req' = [req EXCEPT ![c] = [Fresh EXCEPT !.status = "gone"]]
        /\ worker' = [worker EXCEPT ![c] = NoWork]
    BY <1>2 DEF Gone
  <2>2. req'[c] = [Fresh EXCEPT !.status = "gone"] /\ worker'[c] = NoWork
    BY <1>1, <2>1
  <2>3. IsReq(req'[c]) /\ req'[c].status = "gone"
    BY <2>2 DEF Fresh, IsReq, Fields, Statuses
  <2>4. IsWork(worker'[c])
    BY <2>2 DEF NoWork, IsWork
  <2> QED
    BY <1>1, <2>1, <2>3, <2>4
<1>3. CASE req' = [req EXCEPT ![c].status = "finished"] /\ worker' = worker
  <2>1. req'[c] = [req[c] EXCEPT !.status = "finished"]
    BY <1>1, <1>3
  <2>2. IsReq(req'[c]) /\ req'[c].status = "finished"
    BY <1>1, <2>1 DEF IsReq, Fields, Statuses
  <2> QED
    BY <1>1, <1>3, <2>2
<1> QED
  BY <1>2, <1>3 DEF Closed

LEMMA EndKeeps ==
    ASSUME IInv, NEW c \in Requests, pc \in {"idle", "output"}, pc' \in {"idle", "output"},
           \/ Closed(c) \/ (Gone(c) /\ Dequeued(c))
           \/ /\ Gone(c) /\ running' = running /\ waiting' = waiting /\ skipped' = skipped
              /\ req[c].status = "finished",
           prompt' = prompt, flight' = flight, plan' = plan,
           \/ step' = step /\ step = <<>>
           \/ /\ step # <<>> /\ step' = Tail(step) /\ Head(step).r = c /\ pc' = "output",
           out' \in [Requests -> Seq(Int)], InOrder(c)',
           \A r \in Requests : r # c => out'[r] = out[r]
    PROVE  IInv'
<1>1. Types /\ Queues /\ Planned
  BY DEF IInv
<1>2. /\ DOMAIN req' = Requests /\ DOMAIN worker' = Requests
      /\ \A r \in Requests : r # c => req'[r] = req[r] /\ worker'[r] = worker[r]
      /\ IsReq(req'[c]) /\ IsWork(worker'[c]) /\ req'[c].status \in {"gone", "finished"}
  BY <1>1, EndedReq
<1>3. /\ IsStep(step') /\ End' = End /\ \A r : r # c => Mine(r)' = Mine(r)
  <2>1. CASE step' = step /\ step = <<>>
    <3>1. IsStep(step')
      BY <2>1, NoStep
    <3> QED
      BY <2>1, <3>1, SameLines
  <2>2. CASE step # <<>> /\ step' = Tail(step) /\ Head(step).r = c
    <3>1. PICK row : row = Head(step)
      OBVIOUS
    <3>2. plan'.rows = plan.rows
      OBVIOUS
    <3> QED
      BY <1>1, <2>2, <3>1, <3>2, LineProcessed
  <2> QED
    BY <2>1, <2>2
<1>4. Types'
  <2>1. \A r \in Requests : IsReq(req'[r]) /\ IsWork(worker'[r])
    BY <1>1, <1>2 DEF Types
  <2>2. /\ DOMAIN plan' = {"at", "budget", "rows", "victims", "prefill", "ran", "skips", "loads"}
        /\ plan'.at \in Nat \ {0} /\ plan'.budget \in Int /\ plan'.skips \in Seq(Requests)
        /\ IsStep(plan'.rows) /\ prompt' \in [Requests -> Prompts]
    BY <1>1 DEF Types
  <2>3. IsSeq(flight') /\ \A i \in DOMAIN flight' : IsStep(flight'[i].rows)
    BY <1>1 DEF Types
  <2>4. pc' \in {"idle", "running", "waiting", "finish", "output", "reset"}
    OBVIOUS
  <2> QED
    BY <1>2, <1>3, <2>1, <2>2, <2>3, <2>4, TypesFrom
<1>5. Queues'
  <2>1. \/ Dequeued(c)
        \/ /\ running' = running /\ waiting' = waiting /\ skipped' = skipped
           /\ req[c].status \notin Idle \cup {"running"}
    BY DEF Closed, Idle
  <2> QED
    BY <1>2, <2>1, QueuesWithout
<1>6. Planned'
  <2>1. plan.rows = <<>>
    BY <1>1 DEF Planned
  <2> QED
    BY <2>1 DEF Planned
<1>7. Served(c)'
  BY <1>2, OverServed
<1>8. \A r \in Requests \ {c} : Served(r)'
  BY <1>2, <1>3, OthersServed
<1> QED
  BY <1>4, <1>5, <1>6, <1>7, <1>8 DEF IInv

\* An aborted request delivers nothing more.
LEMMA AbortKeeps == ASSUME IInv, NEW r \in Requests, Abort(r) PROVE IInv'
<1>1. /\ pc = "idle" /\ pc' = pc /\ Closed(r) /\ prompt' = prompt /\ flight' = flight
      /\ plan' = plan /\ step' = step /\ out' = out
  BY DEF Abort, Between
<1>2. step = <<>> /\ out' \in [Requests -> Seq(Int)] /\ \A s \in Requests : out'[s] = out[s]
  BY <1>1 DEF IInv, Types, Planned
<1>3. InOrder(r)'
  BY <1>1 DEF IInv, Served, InOrder
<1> QED
  BY <1>1, <1>2, <1>3, EndKeeps

\* The connector's report of a load.
LEMMA LoadDoneKeeps == ASSUME IInv, NEW r \in Requests, LoadDone(r) PROVE IInv'
<1>1. /\ pc = "output" /\ pc' = "idle" /\ step = <<>> /\ step' = step /\ prompt' = prompt
      /\ flight' = flight /\ plan' = plan /\ out' = out /\ running' = running
      /\ waiting' = waiting /\ skipped' = skipped
  BY DEF LoadDone, OutputOver, queues
<1>2. out' \in [Requests -> Seq(Int)] /\ \A s \in Requests : out'[s] = out[s]
  BY <1>1 DEF IInv, Types
<1>3. CASE req[r].status = "remote"
  <2>1. req' = req /\ worker' = worker
    BY <1>3 DEF LoadDone
  <2>2. Types'
    BY <1>1, <2>1, QuietTypes
  <2>3. Queues'
    BY <1>1, <2>1, SameQueues
  <2>4. Planned'
    BY <1>1 DEF IInv, Planned
  <2>5. \A s \in Requests : Served(s)'
    BY <1>1, <2>1, QuietServed
  <2> QED
    BY <2>2, <2>3, <2>4, <2>5 DEF IInv
<1>4. CASE req[r].status # "remote"
  <2>1. Gone(r) /\ req[r].status = "finished"
    BY <1>4 DEF LoadDone, Reportable, Loading, With
  <2>2. InOrder(r)'
    BY <1>1 DEF IInv, Served, InOrder
  <2> QED
    BY <1>1, <1>2, <2>1, <2>2, EndKeeps
<1> QED
  BY <1>3, <1>4

LEMMA LoadFailsKeeps == ASSUME IInv, NEW r \in Requests, LoadFails(r) PROVE IInv'
<1>1. /\ pc = "output" /\ pc' = "idle" /\ step = <<>> /\ step' = step /\ prompt' = prompt
      /\ flight' = flight /\ plan' = plan /\ out' = out
  BY DEF LoadFails, OutputOver
<1>2. out' \in [Requests -> Seq(Int)] /\ \A s \in Requests : out'[s] = out[s]
  BY <1>1 DEF IInv, Types
<1>3. CASE mode = "strict"
  <2>1. Gone(r) /\ Dequeued(r)
    BY <1>3 DEF LoadFails
  <2>2. InOrder(r)'
    BY <1>1 DEF IInv, Served, InOrder
  <2> QED
    BY <1>1, <1>2, <2>1, <2>2, EndKeeps
<1>4. CASE mode # "strict"
  <2>1. PICK cut \in Cuts(req[r]) : req' = [req EXCEPT ![r].computed = cut]
    BY <1>4 DEF LoadFails
  <2>2. worker' = worker /\ running' = running /\ waiting' = waiting /\ skipped' = skipped
    BY <1>4 DEF LoadFails, queues
  <2>3. DOMAIN req = Requests /\ \A s \in Requests : IsReq(req[s])
    BY DEF IInv, Types
  <2>4. cut \in Int
    <3>1. (req[r].computed - 1) \div BlockSize \in Int
      BY <2>3, Sizes DEF IsReq
    <3> QED
      BY <3>1, Sizes DEF Cuts
  <2>5. ASSUME NEW s \in Requests
        PROVE  /\ IsReq(req'[s]) /\ req'[s].status = req[s].status
               /\ req'[s].tokens = req[s].tokens /\ req'[s].flying = req[s].flying
               /\ req'[s].stale = req[s].stale /\ req'[s].drop = req[s].drop
    <3>1. req'[s] = IF s = r THEN [req[r] EXCEPT !.computed = cut] ELSE req[s]
      BY <2>1, <2>3
    <3> QED
      BY <2>3, <2>4, <3>1 DEF IsReq, Fields
  <2>6. Types'
    <3>1. DOMAIN req' = Requests /\ \A s \in Requests : IsReq(req'[s])
      BY <2>1, <2>3, <2>5
    <3>2. /\ DOMAIN worker' = Requests /\ \A s \in Requests : IsWork(worker'[s])
          /\ prompt' \in [Requests -> Prompts] /\ IsStep(step')
          /\ pc' \in {"idle", "running", "waiting", "finish", "output", "reset"}
      BY <1>1, <2>2 DEF IInv, Types
    <3>3. /\ DOMAIN plan' = {"at", "budget", "rows", "victims", "prefill", "ran", "skips", "loads"}
          /\ plan'.at \in Nat \ {0} /\ plan'.budget \in Int /\ plan'.skips \in Seq(Requests)
          /\ IsStep(plan'.rows)
          /\ IsSeq(flight') /\ \A i \in DOMAIN flight' : IsStep(flight'[i].rows)
      BY <1>1 DEF IInv, Types
    <3> QED
      BY <1>2, <3>1, <3>2, <3>3, TypesFrom
  <2>7. Queues'
    BY <1>1, <2>2, <2>5, SameQueues
  <2>8. Planned'
    BY <1>1 DEF IInv, Planned
  <2>9. \A s \in Requests : Served(s)'
    <3>1. End' = End /\ \A s : Mine(s)' = Mine(s)
      BY <1>1, SameLines
    <3> QED
      BY <1>1, <2>2, <2>5, <3>1, StillServed DEF IInv
  <2> QED
    BY <2>6, <2>7, <2>8, <2>9 DEF IInv
<1> QED
  BY <1>3, <1>4

-----------------------------------------------------------------------------
(* A request is added.                                                     *)

LEMMA AddRequestKeeps == ASSUME IInv, NEW c \in Requests, AddRequest(c) PROVE IInv'
<1>1. /\ pc = "idle" /\ pc' = pc /\ req[c].status = "new"
      /\ req' = [req EXCEPT ![c] = [Fresh EXCEPT !.status = "waiting", !.tokens = prompt[c]]]
      /\ waiting' = Append(waiting, c) /\ running' = running /\ skipped' = skipped
      /\ prompt' = prompt /\ plan' = plan /\ flight' = flight /\ step' = step
      /\ worker' = worker /\ out' = out
  BY DEF AddRequest, Between
<1>2. Types /\ Queues /\ Planned
  BY DEF IInv
<1>3. DOMAIN req = Requests /\ prompt[c] \in Int
  BY <1>2, Sizes DEF Types
<1>4. /\ DOMAIN req' = Requests /\ \A r \in Requests : r # c => req'[r] = req[r]
      /\ IsReq(req'[c]) /\ req'[c].status = "waiting" /\ req'[c].tokens = prompt[c]
      /\ req'[c].flying = 0 /\ req'[c].stale = 0 /\ req'[c].drop = FALSE
  <2>1. req'[c] = [Fresh EXCEPT !.status = "waiting", !.tokens = prompt[c]]
    BY <1>1, <1>3
  <2>2. /\ IsReq(req'[c]) /\ req'[c].status = "waiting" /\ req'[c].tokens = prompt[c]
        /\ req'[c].flying = 0 /\ req'[c].stale = 0 /\ req'[c].drop = FALSE
    BY <1>3, <2>1 DEF Fresh, IsReq, Fields, Statuses
  <2> QED
    BY <1>1, <1>3, <2>2
<1>5. Types'
  <2>1. \A r \in Requests : IsReq(req'[r])
    BY <1>2, <1>4 DEF Types
  <2>2. /\ DOMAIN worker' = Requests /\ \A r \in Requests : IsWork(worker'[r])
        /\ out' \in [Requests -> Seq(Int)] /\ prompt' \in [Requests -> Prompts]
        /\ pc' \in {"idle", "running", "waiting", "finish", "output", "reset"}
        /\ IsStep(step')
    BY <1>1, <1>2 DEF Types
  <2>3. /\ DOMAIN plan' = {"at", "budget", "rows", "victims", "prefill", "ran", "skips", "loads"}
        /\ plan'.at \in Nat \ {0} /\ plan'.budget \in Int /\ plan'.skips \in Seq(Requests)
        /\ IsStep(plan'.rows)
        /\ IsSeq(flight') /\ \A i \in DOMAIN flight' : IsStep(flight'[i].rows)
    BY <1>1, <1>2 DEF Types
  <2> QED
    BY <1>4, <2>1, <2>2, <2>3, TypesFrom
<1>6. Queues'
  <2>1. /\ \A r \in ToSet(running) : r \in Requests /\ req[r].status = "running"
        /\ \A r \in ToSet(waiting) \cup ToSet(skipped) : r \in Requests /\ req[r].status \in Idle
    BY <1>2, InToSet DEF Queues, AllIdle
  <2>2. c \notin ToSet(running) /\ c \notin ToSet(waiting) /\ c \notin ToSet(skipped)
    BY <1>1, <2>1 DEF Idle
  <2>3. /\ waiting' \in Seq(Requests) /\ Distinct(waiting')
        /\ ToSet(waiting') = ToSet(waiting) \cup {c}
    BY <1>1, <1>2, <2>2, QueueAppend DEF Queues
  <2>4. /\ running' \in Seq(Requests) /\ skipped' \in Seq(Requests)
        /\ Distinct(running') /\ Distinct(skipped') /\ Apart(waiting', skipped')
    BY <1>1, <1>2, <2>2, <2>3 DEF Queues, Apart
  <2>5. \A r \in ToSet(running') : req'[r].status = "running"
    BY <1>1, <1>4, <2>1, <2>2
  <2>6. \A r \in ToSet(waiting') \cup ToSet(skipped') : req'[r].status \in Idle
    BY <1>1, <1>4, <2>1, <2>3 DEF Idle
  <2>7. pc' # "waiting"
    BY <1>1
  <2> QED
    BY <2>3, <2>4, <2>5, <2>6, <2>7, QueuesFrom
<1>7. Planned'
  <2>1. plan.rows = <<>> /\ step = <<>>
    BY <1>1, <1>2 DEF Planned
  <2> QED
    BY <1>1, <2>1 DEF Planned
<1>8. End' = End /\ \A r : Mine(r)' = Mine(r)
  BY <1>1, SameLines
<1>9. Served(c)'
  <2>1. Served(c)
    BY DEF IInv
  <2>2. InOrder(c) /\ out[c] = <<>> /\ \A i \in 0..End : Mine(c)[i] = Zero
    BY <1>1, <2>1 DEF Served
  <2>3. InOrder(c)'
    BY <1>1, <2>2 DEF InOrder
  <2>4. req'[c].tokens = prompt'[c] + Len(out'[c])
    BY <1>1, <1>3, <1>4, <2>2
  <2>5. Balanced(c)'
    <3> DEFINE e == End
               M == Mine(c)
               tokens == prompt[c]
               total == worker[c].total
    <3>1. e \in Nat /\ tokens \in Int /\ total \in Int /\ \A i \in 0..e : M[i].n = 0
      BY <1>2, <1>3, <2>2, Lines DEF Zero, Types, IsWork
    <3>2. Account(e, M, 0, 0, FALSE, FALSE, tokens, total)
      <4> HIDE DEF e, M, tokens, total
      <4> QED
        BY <3>1, Newborn
    <3>3. (req'[c].status = "running") = FALSE
      BY <1>4
    <3> QED
      BY <1>1, <1>4, <1>8, <3>2, <3>3 DEF Balanced
  <2> QED
    BY <1>4, <2>3, <2>4, <2>5 DEF Served
<1>10. \A r \in Requests \ {c} : Served(r)'
  BY <1>1, <1>4, <1>8, OthersServed
<1> QED
  BY <1>5, <1>6, <1>7, <1>9, <1>10 DEF IInv

-----------------------------------------------------------------------------
(* The output of a step is processed, a row at a time.                     *)

\* What the runner counts after a row.
LEMMA RanWork ==
    ASSUME Types, NEW row, IsRow(row), NEW a \in Nat
    PROVE  /\ IsWork(Ran(row, a)) /\ Runner(row).total \in Int
           /\ Ran(row, a).total = Runner(row).total + (IF Samples(row) THEN a + 1 ELSE 0)
<1> DEFINE w == Runner(row)
<1>1. IsWork(w)
  BY DEF Types, IsRow, Runner
<1>2. CASE Samples(row)
  <2>1. Ran(row, a) = [total |-> w.total + a + 1, computed |-> w.computed + row.n - (row.drafts - a)]
    BY <1>2 DEF Ran
  <2> HIDE DEF w
  <2>2. /\ DOMAIN Ran(row, a) = {"total", "computed"} /\ Ran(row, a).total = w.total + a + 1
    BY <2>1
  <2>3. w.total + a + 1 = w.total + (a + 1) /\ w.total + a + 1 \in Int
    BY <1>1 DEF IsWork
  <2> QED
    BY <1>1, <1>2, <2>2, <2>3 DEF IsWork, w
<1>3. CASE ~Samples(row)
  <2>1. Ran(row, a) = [w EXCEPT !.computed = @ + row.n]
    BY <1>3 DEF Ran
  <2> HIDE DEF w
  <2>2. DOMAIN Ran(row, a) = DOMAIN w /\ Ran(row, a).total = w.total
    BY <1>1, <2>1 DEF IsWork
  <2> QED
    BY <1>1, <1>3, <2>2 DEF IsWork, w
<1> QED
  BY <1>2, <1>3

\* What it leaves of the request's fields.
LEMMA DrainedReq ==
    ASSUME NEW q, IsReq(q), NEW row, IsRow(row)
    PROVE  LET q2 == Drained1(q, row)
           IN  /\ IsReq(q2) /\ q2.status = q.status /\ q2.tokens = q.tokens
               /\ q2.flying = q.flying - row.n /\ q2.drop = q.drop
               /\ q2.stale = IF q.stale > 0 THEN q.stale - row.n ELSE 0
BY DEF Drained1, IsReq, Fields, IsRow

LEMMA RejectedReq ==
    ASSUME NEW q, IsReq(q), NEW row, IsRow(row), NEW a \in Nat, NEW stale
    PROVE  LET q2 == Rejected(q, row, a, stale)
           IN  /\ IsReq(q2) /\ q2.status = q.status /\ q2.tokens = q.tokens
               /\ q2.flying = q.flying /\ q2.drop = q.drop /\ q2.stale = q.stale
<1> DEFINE back == IF stale \/ ~Samples(row) THEN 0 ELSE row.drafts - a
<1>1. back \in Int
  BY DEF IsRow
<1>2. Rejected(q, row, a, stale) =
         [q EXCEPT !.computed = IF @ > 0 THEN @ - back ELSE @,
                   !.holders  = IF @ > 0 THEN @ - back ELSE @]
  BY DEF Rejected
<1> HIDE DEF back
<1> QED
  BY <1>1, <1>2 DEF IsReq, Fields

LEMMA DraftedReq ==
    ASSUME NEW q, IsReq(q)
    PROVE  LET q2 == Drafted(q)
           IN  /\ IsReq(q2) /\ q2.status = q.status /\ q2.tokens = q.tokens
               /\ q2.flying = q.flying /\ q2.drop = q.drop /\ q2.stale = q.stale
<1>1. K \in Int
  BY Sizes DEF K
<1> QED
  BY <1>1 DEF Drafted, IsReq, Fields

\* The request and the runner's count are updated and nothing else of them is.
LEMMA ProcessedKeeps ==
    ASSUME IInv, pc = "output", pc' = pc, step # <<>>, step' = Tail(step),
           prompt' = prompt, flight' = flight, plan' = plan,
           running' = running, waiting' = waiting, skipped' = skipped,
           NEW row, row = Head(step), DOMAIN req' = Requests, DOMAIN worker' = Requests,
           out' \in [Requests -> Seq(Int)],
           IsReq(req'[row.r]), req'[row.r].status = req[row.r].status, IsWork(worker'[row.r]),
           \A r \in Requests : r # row.r => /\ req'[r] = req[r] /\ worker'[r] = worker[r]
                                            /\ out'[r] = out[r],
           Served(row.r)'
    PROVE  IInv'
<1>1. Types /\ Queues /\ Planned
  BY DEF IInv
<1>2. plan'.rows = plan.rows /\ plan.rows = <<>>
  BY <1>1 DEF Planned
<1>3. /\ IsRow(row) /\ IsStep(step') /\ End' = End
      /\ \A r : r # row.r => Mine(r)' = Mine(r)
  BY <1>1, <1>2, LineProcessed
<1>4. row.r \in Requests
  BY <1>3 DEF IsRow
<1>5. Types'
  <2>1. \A r \in Requests : IsReq(req'[r]) /\ IsWork(worker'[r])
    BY <1>1, <1>4 DEF Types
  <2>2. /\ prompt' \in [Requests -> Prompts]
        /\ pc' \in {"idle", "running", "waiting", "finish", "output", "reset"}
    BY <1>1 DEF Types
  <2>3. /\ DOMAIN plan' = {"at", "budget", "rows", "victims", "prefill", "ran", "skips", "loads"}
        /\ plan'.at \in Nat \ {0} /\ plan'.budget \in Int /\ plan'.skips \in Seq(Requests)
        /\ IsStep(plan'.rows)
        /\ IsSeq(flight') /\ \A i \in DOMAIN flight' : IsStep(flight'[i].rows)
    BY <1>1 DEF Types
  <2> QED
    BY <1>3, <2>1, <2>2, <2>3, TypesFrom
<1>6. Queues'
  <2>1. \A r \in Requests : req'[r].status = req[r].status
    OBVIOUS
  <2> QED
    BY <2>1, SameQueues
<1>7. Planned'
  BY <1>2 DEF Planned
<1>8. \A r \in Requests \ {row.r} : Served(r)'
  BY <1>3, OthersServed
<1> QED
  BY <1>5, <1>6, <1>7, <1>8 DEF IInv

\* The output of a request that ended or was preempted with a drop.
LEMMA SkipRowKeeps == ASSUME IInv, SkipRow PROVE IInv'
<1>1. /\ pc = "output" /\ pc' = pc /\ step # <<>> /\ step' = Tail(step)
      /\ prompt' = prompt /\ flight' = flight /\ plan' = plan /\ out' = out
      /\ running' = running /\ waiting' = waiting /\ skipped' = skipped
  BY DEF SkipRow, queues
<1>2. PICK row : row = Head(step)
  OBVIOUS
<1>3. /\ Ignored(req[row.r])
      /\ req' = IF req[row.r].status = "gone" THEN req
                ELSE [req EXCEPT ![row.r] = Drained1(req[row.r], row)]
      /\ \E a \in 0..(IF row.pad THEN 0 ELSE row.drafts) :
            worker' = IF req[row.r].status = "gone" THEN worker
                      ELSE [worker EXCEPT ![row.r] = Ran(row, a)]
  BY <1>2 DEF SkipRow
<1>4. PICK a \in 0..(IF row.pad THEN 0 ELSE row.drafts) :
         worker' = IF req[row.r].status = "gone" THEN worker
                   ELSE [worker EXCEPT ![row.r] = Ran(row, a)]
  BY <1>3
<1>5. Types
  BY DEF IInv
<1>6. plan'.rows = plan.rows
  BY <1>1
<1>7. /\ IsRow(row) /\ End' = End
      /\ Mine(row.r)[0].n = row.n /\ Mine(row.r)[0].fresh = row.fresh
      /\ Processed(End, Mine(row.r), Mine(row.r)')
  BY <1>1, <1>2, <1>5, <1>6, LineProcessed
<1>8. row.r \in Requests /\ row.n \in Nat \ {0} /\ a \in Nat
  BY <1>7 DEF IsRow
<1> DEFINE c == row.r
           q == Drained1(req[c], row)
           w == Ran(row, a)
<1>9. /\ DOMAIN req = Requests /\ DOMAIN worker = Requests /\ IsReq(req[c]) /\ IsWork(worker[c])
      /\ out[c] \in Seq(Int) /\ DOMAIN out = Requests
      /\ IsWork(w) /\ Served(c)
  BY <1>5, <1>7, <1>8, RanWork DEF Types, IInv
<1>10. /\ IsReq(q) /\ q.status = req[c].status /\ q.tokens = req[c].tokens
       /\ q.flying = req[c].flying - row.n /\ q.drop = req[c].drop
       /\ q.stale = IF req[c].stale > 0 THEN req[c].stale - row.n ELSE 0
  BY <1>7, <1>9, DrainedReq
<1>11. out' \in [Requests -> Seq(Int)] /\ \A r \in Requests : r # c => out'[r] = out[r]
  BY <1>1, <1>5 DEF Types
<1>12. InOrder(c)'
  BY <1>1, <1>9 DEF Served, InOrder
<1>13. CASE req[c].status = "gone"
  <2>1. req' = req /\ worker' = worker
    BY <1>3, <1>4, <1>13
  <2>2. Served(c)'
    BY <1>3, <1>8, <1>12, <1>13, OverServed
  <2> QED
    BY <1>1, <1>2, <1>9, <1>11, <2>1, <2>2, ProcessedKeeps
<1>14. CASE req[c].status # "gone"
  <2>1. req' = [req EXCEPT ![c] = q] /\ worker' = [worker EXCEPT ![c] = w]
    BY <1>3, <1>4, <1>14
  <2>2. /\ DOMAIN req' = Requests /\ DOMAIN worker' = Requests /\ req'[c] = q /\ worker'[c] = w
        /\ \A r \in Requests : r # c => req'[r] = req[r] /\ worker'[r] = worker[r]
    BY <1>8, <1>9, <2>1
  <2>3. Served(c)'
    <3>1. CASE req[c].status = "finished"
      BY <1>8, <1>10, <1>12, <2>2, <3>1, OverServed
    <3>2. CASE req[c].status # "finished"
      <4>1. req[c].stale > 0 /\ req[c].drop
        BY <1>3, <1>14, <3>2 DEF Ignored
      <4>2. 0 \in 0..End /\ End \in Nat
        BY <1>5, Lines
      <4>3. req[c].status # "new"
        BY <1>7, <1>8, <1>9, <4>2 DEF Served, Zero
      <4>4. req[c].status \in Idle \cup {"running"}
        BY <1>9, <1>14, <3>2, <4>3 DEF IsReq, Statuses, Idle
      <4>5. req[c].tokens = prompt[c] + Len(out[c]) /\ Balanced(c)
        BY <1>9, <4>4 DEF Served
      <4> DEFINE e == End
                 M == Mine(c)
                 M2 == Mine(c)'
                 flying == req[c].flying
                 stale == req[c].stale
                 drop == req[c].drop
                 runs == req[c].status = "running"
                 tokens == req[c].tokens
                 total == worker[c].total
                 total2 == w.total
                 flying2 == flying - M[0].n
                 stale2 == stale - M[0].n
      <4>6. /\ e \in Nat /\ flying \in Int /\ stale \in Int
            /\ tokens \in Int /\ total \in Int /\ total2 \in Int
            /\ drop \in BOOLEAN /\ Dropping(drop, stale)
            /\ Processed(e, M, M2) /\ flying2 = flying - M[0].n /\ stale2 = stale - M[0].n
        BY <1>7, <1>9, <4>1, <4>2 DEF IsReq, IsWork, Dropping
      <4>7. Account(e, M, flying, stale, drop, runs, tokens, total)
        BY <4>5 DEF Balanced
      <4>8. Account(e, M2, flying2, stale2, drop, runs, tokens, total2)
        <5> HIDE DEF e, M, M2, flying, stale, drop, runs, tokens, total, total2, flying2, stale2
        <5> QED
          BY <4>6, <4>7, RowDropped
      <4>9. Account(End, Mine(c)', q.flying, q.stale, q.drop, q.status = "running", q.tokens,
                    w.total)
        BY <1>7, <1>9, <1>10, <4>1, <4>8 DEF IsReq
      <4>10. Balanced(c)'
        <5> HIDE DEF q, w
        <5> QED
          BY <1>7, <2>2, <4>9 DEF Balanced
      <4> QED
        BY <1>1, <1>10, <1>12, <2>2, <4>4, <4>5, <4>10 DEF Served, Idle
    <3> QED
      BY <3>1, <3>2
  <2> QED
    <3> HIDE DEF q, w
    <3> QED
      BY <1>1, <1>2, <1>9, <1>10, <1>11, <2>2, <2>3, ProcessedKeeps
<1> QED
  BY <1>13, <1>14

\* The sampled tokens go on where the client's end.
LEMMA OutGrows ==
    ASSUME NEW s \in Seq(Int), NEW u \in Seq(Int), NEW p \in Int,
           \A i \in 1..Len(s) : s[i] = p + i,
           \A i \in 1..Len(u) : u[i] = (p + Len(s)) + i
    PROVE  /\ s \o u \in Seq(Int) /\ Len(s \o u) = Len(s) + Len(u)
           /\ \A i \in DOMAIN (s \o u) : (s \o u)[i] = p + i
<1> DEFINE t == s \o u
           d == Len(u)
<1>1. Len(s) \in Nat /\ d \in Nat
  OBVIOUS
<1>2. /\ t \in Seq(Int) /\ Len(t) = Len(s) + d
      /\ \A i \in 1..(Len(s) + d) : t[i] = IF i <= Len(s) THEN s[i] ELSE u[i - Len(s)]
  BY ConcatProperties
<1> HIDE DEF t
<1>3. ASSUME NEW i \in 1..(Len(s) + d) PROVE t[i] = p + i
  <2>1. CASE i <= Len(s)
    <3>1. i \in 1..Len(s)
      BY <1>1, <2>1
    <3>2. t[i] = s[i]
      BY <1>2, <2>1
    <3> QED
      BY <3>1, <3>2
  <2>2. CASE ~(i <= Len(s))
    <3>1. i - Len(s) \in 1..d /\ i \in Int
      BY <1>1, <2>2
    <3>2. u[i - Len(s)] = p + Len(s) + (i - Len(s))
      BY <3>1
    <3>3. t[i] = u[i - Len(s)]
      BY <1>2, <2>2
    <3> QED
      BY <1>1, <3>1, <3>2, <3>3
  <2> QED
    BY <2>1, <2>2
<1>4. DOMAIN t = 1..(Len(s) + d)
  BY <1>2
<1> QED
  BY <1>2, <1>3, <1>4 DEF t

\* A row whose output the request takes starts from its tokens.
LEMMA RowTaken ==
    ASSUME IInv, pc = "output", step # <<>>, step' = Tail(step), flight' = flight,
           plan' = plan, NEW row, row = Head(step), ~Ignored(req[row.r])
    PROVE  /\ req[row.r].status \in Idle \cup {"running"} /\ Runner(row).total = req[row.r].tokens
           /\ \A t \in Int :
                 Account(End, Mine(row.r)', req[row.r].flying - row.n,
                         IF req[row.r].stale > 0 THEN req[row.r].stale - row.n ELSE 0,
                         req[row.r].drop, req[row.r].status = "running", t, t)
<1> DEFINE c == row.r
<1>1. Types
  BY DEF IInv
<1>2. plan'.rows = plan.rows
  OBVIOUS
<1>3. /\ IsRow(row) /\ Mine(c)[0].n = row.n /\ Mine(c)[0].fresh = row.fresh
      /\ Processed(End, Mine(c), Mine(c)')
  BY <1>1, <1>2, LineProcessed
<1>4. c \in Requests /\ row.n \in Nat \ {0}
  BY <1>3 DEF IsRow
<1>5. IsReq(req[c]) /\ IsWork(worker[c]) /\ Served(c)
  BY <1>1, <1>4 DEF Types, IInv
<1>6. 0 \in 0..End /\ End \in Nat /\ End >= 1
  BY <1>1, Lines
<1>7. req[c].status \in Idle \cup {"running"} /\ ~Dropping(req[c].drop, req[c].stale)
  <2>1. req[c].status # "new"
    BY <1>3, <1>4, <1>5, <1>6 DEF Served, Zero
  <2> QED
    BY <1>5, <2>1 DEF Ignored, IsReq, Statuses, Idle, Dropping
<1>8. Balanced(c)
  BY <1>5, <1>7 DEF Served
<1> DEFINE e == End
           M == Mine(c)
           M2 == Mine(c)'
           flying == req[c].flying
           stale == req[c].stale
           drop == req[c].drop
           runs == req[c].status = "running"
           tokens == req[c].tokens
           total == worker[c].total
           flying2 == flying - M[0].n
           stale2 == IF stale > 0 THEN stale - M[0].n ELSE 0
<1>9. /\ e \in Nat /\ flying \in Int /\ stale \in Int /\ drop \in BOOLEAN
      /\ tokens \in Int /\ total \in Int
  BY <1>5, <1>6 DEF IsReq, IsWork
<1>10. /\ Processed(e, M, M2) /\ ~Dropping(drop, stale) /\ e >= 1 /\ M[0].n > 0
       /\ flying2 = flying - M[0].n /\ stale2 = IF stale > 0 THEN stale - M[0].n ELSE 0
  BY <1>3, <1>4, <1>6, <1>7
<1>11. Account(e, M, flying, stale, drop, runs, tokens, total)
  BY <1>8 DEF Balanced
<1>12. ASSUME NEW t \in Int PROVE Account(e, M2, flying2, stale2, drop, runs, t, t)
  <2> HIDE DEF e, M, M2, flying, stale, drop, runs, tokens, total, flying2, stale2
  <2> QED
    BY <1>9, <1>10, <1>11, RowHeard
<1>13. Runner(row).total = req[c].tokens
  <2>1. IF M[0].fresh = NoWork THEN total = tokens ELSE M[0].fresh.total = tokens
    <3> HIDE DEF e, M, flying, stale, drop, runs, tokens, total
    <3> QED
      BY <1>9, <1>10, <1>11, RowStarts
  <2> QED
    BY <1>3, <2>1 DEF Runner
<1>14. ASSUME NEW t \in Int
       PROVE  Account(End, Mine(row.r)', req[row.r].flying - row.n,
                      IF req[row.r].stale > 0 THEN req[row.r].stale - row.n ELSE 0,
                      req[row.r].drop, req[row.r].status = "running", t, t)
  BY <1>3, <1>12
<1> QED
  BY <1>7, <1>13, <1>14

\* It is told to the client.
LEMMA TakenOut ==
    ASSUME IInv, pc = "output", step # <<>>, step' = Tail(step), flight' = flight,
           plan' = plan, prompt' = prompt, NEW row, row = Head(step), ~Ignored(req[row.r]),
           NEW d \in Nat, out'[row.r] = out[row.r] \o [i \in 1..d |-> Runner(row).total + i]
    PROVE  InOrder(row.r)' /\ out'[row.r] \in Seq(Int) /\ Len(out'[row.r]) = Len(out[row.r]) + d
<1> DEFINE c == row.r
<1>1. Types
  BY DEF IInv
<1>2. plan'.rows = plan.rows
  OBVIOUS
<1>3. IsRow(row) /\ End' = End
  BY <1>1, <1>2, LineProcessed
<1>4. c \in Requests
  BY <1>3 DEF IsRow
<1>5. /\ IsReq(req[c]) /\ Served(c) /\ out[c] \in Seq(Int) /\ prompt[c] \in Int
  BY <1>1, <1>4, Sizes DEF Types, IInv
<1>6. /\ req[c].status \in Idle \cup {"running"} /\ Runner(row).total = req[c].tokens
      /\ \A t \in Int :
            Account(End, Mine(c)', req[c].flying - row.n,
                    IF req[c].stale > 0 THEN req[c].stale - row.n ELSE 0,
                    req[c].drop, req[c].status = "running", t, t)
  BY RowTaken
<1>7. InOrder(c) /\ req[c].tokens = prompt[c] + Len(out[c])
  BY <1>5, <1>6 DEF Served
<1>8. /\ out'[c] \in Seq(Int) /\ Len(out'[c]) = Len(out[c]) + d
      /\ \A i \in DOMAIN out'[c] : out'[c][i] = prompt[c] + i
  <2> DEFINE s == out[c]
             p == prompt[c]
             u == [i \in 1..d |-> Runner(row).total + i]
  <2>1. s \in Seq(Int) /\ p \in Int /\ \A i \in 1..Len(s) : s[i] = p + i
    BY <1>5, <1>7 DEF InOrder
  <2>2. Runner(row).total = p + Len(s) /\ Runner(row).total \in Int
    BY <1>5, <1>6, <1>7 DEF IsReq
  <2>3. u \in Seq(Int) /\ Len(u) = d /\ \A i \in 1..Len(u) : u[i] = (p + Len(s)) + i
    <3> DEFINE first == Runner(row).total
    <3>1. first \in Int /\ first = p + Len(s)
      BY <2>2
    <3> HIDE DEF first, s, p
    <3>2. [i \in 1..d |-> first + i] \in Seq(Int)
      BY <3>1
    <3>3. Len([i \in 1..d |-> first + i]) = d
      OBVIOUS
    <3>4. \A j \in 1..d : [i \in 1..d |-> first + i][j] = first + j
      OBVIOUS
    <3> QED
      BY <3>1, <3>2, <3>3, <3>4 DEF first
  <2>4. out'[c] = s \o u
    OBVIOUS
  <2>5. /\ s \o u \in Seq(Int) /\ Len(s \o u) = Len(s) + Len(u)
        /\ \A i \in DOMAIN (s \o u) : (s \o u)[i] = p + i
    <3> HIDE DEF s, p, u
    <3> QED
      BY <2>1, <2>3, OutGrows
  <2> QED
    BY <2>3, <2>4, <2>5
<1>9. InOrder(c)'
  BY <1>8 DEF InOrder
<1> QED
  BY <1>8, <1>9

\* The request and the runner count it alike.
LEMMA TakenServed ==
    ASSUME IInv, pc = "output", step # <<>>, step' = Tail(step), flight' = flight,
           plan' = plan, prompt' = prompt, NEW row, row = Head(step), ~Ignored(req[row.r]),
           NEW d \in Nat, InOrder(row.r)', Len(out'[row.r]) = Len(out[row.r]) + d,
           req'[row.r].tokens = req[row.r].tokens + d,
           worker'[row.r].total = Runner(row).total + d,
           req'[row.r].status = req[row.r].status, req'[row.r].drop = req[row.r].drop,
           req'[row.r].flying = req[row.r].flying - row.n,
           req'[row.r].stale = IF req[row.r].stale > 0 THEN req[row.r].stale - row.n ELSE 0
    PROVE  Served(row.r)'
<1> DEFINE c == row.r
<1>1. Types
  BY DEF IInv
<1>2. plan'.rows = plan.rows
  OBVIOUS
<1>3. IsRow(row) /\ End' = End
  BY <1>1, <1>2, LineProcessed
<1>4. c \in Requests
  BY <1>3 DEF IsRow
<1>5. /\ IsReq(req[c]) /\ Served(c) /\ out[c] \in Seq(Int) /\ prompt[c] \in Int
  BY <1>1, <1>4, Sizes DEF Types, IInv
<1>6. /\ req[c].status \in Idle \cup {"running"} /\ Runner(row).total = req[c].tokens
      /\ \A t \in Int :
            Account(End, Mine(c)', req[c].flying - row.n,
                    IF req[c].stale > 0 THEN req[c].stale - row.n ELSE 0,
                    req[c].drop, req[c].status = "running", t, t)
  BY RowTaken
<1>7. InOrder(c) /\ req[c].tokens = prompt[c] + Len(out[c])
  BY <1>5, <1>6 DEF Served
<1>8. req'[c].tokens = prompt'[c] + Len(out'[c])
  <2>1. Len(out[c]) \in Nat
    BY <1>5
  <2> QED
    BY <1>5, <1>7, <2>1
<1>9. Balanced(c)'
  <2>1. req[c].tokens + d \in Int
    BY <1>5 DEF IsReq
  <2>2. PICK t \in Int : t = req[c].tokens + d
    BY <2>1
  <2>3. Account(End, Mine(c)', req[c].flying - row.n,
                IF req[c].stale > 0 THEN req[c].stale - row.n ELSE 0,
                req[c].drop, req[c].status = "running", t, t)
    BY <1>6
  <2>4. req'[c].tokens = t /\ worker'[c].total = t
    BY <1>6, <2>2
  <2> QED
    BY <1>3, <2>3, <2>4 DEF Balanced
<1> QED
  BY <1>6, <1>8, <1>9 DEF Served, Idle

LEMMA UpdateRowKeeps == ASSUME IInv, UpdateRow PROVE IInv'
<1>1. /\ pc = "output" /\ pc' = pc /\ step # <<>> /\ step' = Tail(step)
      /\ prompt' = prompt /\ flight' = flight /\ plan' = plan
  BY DEF UpdateRow
<1> DEFINE old(row) == req[row.r]
           mid(row, a) == Rejected(Drained1(old(row), row), row, a, old(row).stale > 0)
           gen(row, a) == IF Samples(row) THEN a + 1 ELSE 0
           More(row, d) == [out EXCEPT ![row.r] = @ \o [i \in 1..d |-> Runner(row).total + i]]
           Heard(row, a) ==
              IF gen(row, a) = 0
              THEN /\ req' = [req EXCEPT ![row.r] = Drafted(mid(row, a))]
                   /\ worker' = [worker EXCEPT ![row.r] = Ran(row, a)]
                   /\ UNCHANGED <<queues, transfers, pool, out>>
              ELSE \E d \in Deliveries(row.r, gen(row, a)) :
                   /\ out' = More(row, d[1])
                   /\ IF d[2] THEN Closed(row.r)
                      ELSE /\ req' = [req EXCEPT ![row.r] = Drafted(
                                [mid(row, a) EXCEPT !.tokens = @ + d[1],
                                   !.holders = IF Async /\ ~(old(row).stale > 0) THEN @ - d[1]
                                               ELSE @])]
                           /\ worker' = [worker EXCEPT ![row.r] = Ran(row, a)]
                           /\ UNCHANGED <<queues, transfers, pool>>
           Body(row) == /\ ~Ignored(old(row))
                        /\ \E a \in 0..(IF row.pad THEN 0 ELSE row.drafts) : Heard(row, a)
<1>2. Body(Head(step))
  BY DEF UpdateRow
<1>3. PICK row : row = Head(step)
  OBVIOUS
<1>4. Body(row)
  <2> HIDE DEF Body
  <2> QED
    BY <1>2, <1>3
<1>5. PICK a \in 0..(IF row.pad THEN 0 ELSE row.drafts) : Heard(row, a)
  BY <1>4
<1>6. ~Ignored(old(row))
  BY <1>4
<1> DEFINE c == row.r
           first == Runner(row).total
<1>7. Types
  BY DEF IInv
<1>8. IsRow(row)
  <2>1. plan'.rows = plan.rows
    BY <1>1
  <2> QED
    BY <1>1, <1>3, <1>7, <2>1, LineProcessed
<1>9. c \in Requests /\ a \in Nat
  BY <1>8 DEF IsRow
<1>10. /\ DOMAIN req = Requests /\ DOMAIN worker = Requests /\ IsReq(old(row))
      /\ out \in [Requests -> Seq(Int)] /\ out[c] \in Seq(Int)
  BY <1>7, <1>9 DEF Types
<1>11. /\ IsWork(Ran(row, a)) /\ first \in Int
      /\ Ran(row, a).total = first + gen(row, a)
  BY <1>7, <1>8, <1>9, RanWork
<1>12. /\ IsReq(mid(row, a)) /\ mid(row, a).status = old(row).status /\ mid(row, a).tokens = old(row).tokens
       /\ mid(row, a).flying = old(row).flying - row.n /\ mid(row, a).drop = old(row).drop
       /\ mid(row, a).stale = IF old(row).stale > 0 THEN old(row).stale - row.n ELSE 0
  <2> DEFINE q1 == Drained1(old(row), row)
  <2>1. /\ IsReq(q1) /\ q1.status = old(row).status /\ q1.tokens = old(row).tokens
        /\ q1.flying = old(row).flying - row.n /\ q1.drop = old(row).drop
        /\ q1.stale = IF old(row).stale > 0 THEN old(row).stale - row.n ELSE 0
    BY <1>8, <1>10, DrainedReq
  <2>2. LET q2 == Rejected(q1, row, a, old(row).stale > 0)
        IN  /\ IsReq(q2) /\ q2.status = q1.status /\ q2.tokens = q1.tokens
            /\ q2.flying = q1.flying /\ q2.drop = q1.drop /\ q2.stale = q1.stale
    <3> HIDE DEF q1
    <3> QED
      BY <1>8, <1>9, <2>1, RejectedReq
  <2> QED
    BY <2>1, <2>2
<1> HIDE DEF mid, gen, More, first
\* The request goes on: it has d more tokens.
<1>13. ASSUME NEW d \in Nat, NEW q, IsReq(q), d = gen(row, a), q.status = old(row).status,
              q.tokens = old(row).tokens + d, q.flying = mid(row, a).flying, q.drop = mid(row, a).drop,
              q.stale = mid(row, a).stale, req' = [req EXCEPT ![c] = Drafted(q)],
              worker' = [worker EXCEPT ![c] = Ran(row, a)], UNCHANGED <<queues, transfers, pool>>,
              out' = More(row, d)
       PROVE  IInv'
  <2>1. /\ DOMAIN req' = Requests /\ DOMAIN worker' = Requests
        /\ req'[c] = Drafted(q) /\ worker'[c] = Ran(row, a)
        /\ out'[c] = out[c] \o [i \in 1..d |-> first + i]
        /\ \A r \in Requests : r # c => /\ req'[r] = req[r] /\ worker'[r] = worker[r]
                                        /\ out'[r] = out[r]
    BY <1>9, <1>10, <1>13 DEF More, first
  <2>2. /\ IsReq(req'[c]) /\ req'[c].status = old(row).status /\ req'[c].tokens = old(row).tokens + d
        /\ req'[c].flying = old(row).flying - row.n /\ req'[c].drop = old(row).drop
        /\ req'[c].stale = IF old(row).stale > 0 THEN old(row).stale - row.n ELSE 0
    BY <1>12, <1>13, <2>1, DraftedReq
  <2>3. InOrder(c)' /\ out'[c] \in Seq(Int) /\ Len(out'[c]) = Len(out[c]) + d
    BY <1>1, <1>3, <1>6, <2>1, TakenOut DEF first
  <2>4. worker'[c].total = first + d /\ IsWork(worker'[c])
    BY <1>11, <1>13, <2>1
  <2>5. Served(c)'
    BY <1>1, <1>3, <1>6, <2>2, <2>3, <2>4, TakenServed DEF first
  <2>6. out' \in [Requests -> Seq(Int)]
    BY <1>10, <1>13, <2>1, <2>3 DEF More
  <2>7. running' = running /\ waiting' = waiting /\ skipped' = skipped
    BY <1>13 DEF queues
  <2> QED
    BY <1>1, <1>3, <2>1, <2>2, <2>4, <2>5, <2>6, <2>7, ProcessedKeeps
<1>14. CASE gen(row, a) = 0
  <2>1. /\ req' = [req EXCEPT ![c] = Drafted(mid(row, a))]
        /\ worker' = [worker EXCEPT ![c] = Ran(row, a)]
        /\ UNCHANGED <<queues, transfers, pool>> /\ out' = out
    BY <1>5, <1>14
  <2>2. out[c] = out[c] \o [i \in 1..0 |-> first + i]
    <3>1. [i \in 1..0 |-> first + i] = <<>>
      OBVIOUS
    <3>2. out[c] \o <<>> = out[c]
      BY <1>10, ConcatEmptySeq
    <3> QED
      BY <3>1, <3>2
  <2>3. out' = More(row, 0)
    BY <1>10, <2>1, <2>2 DEF More, first
  <2>4. PICK d \in Nat : d = gen(row, a)
    BY <1>14
  <2>5. out' = More(row, d)
    BY <1>14, <2>3, <2>4
  <2>6. PICK q : q = mid(row, a)
    OBVIOUS
  <2>7. IsReq(q) /\ q.status = old(row).status /\ q.tokens = old(row).tokens + d
    BY <1>10, <1>12, <1>14, <2>4, <2>6 DEF IsReq
  <2>8. req' = [req EXCEPT ![c] = Drafted(q)]
    BY <2>1, <2>6
  <2> QED
    BY <1>13, <2>1, <2>4, <2>5, <2>6, <2>7, <2>8
<1>15. CASE gen(row, a) # 0
  <2>1. PICK d \in Deliveries(c, gen(row, a)) :
           /\ out' = More(row, d[1])
           /\ IF d[2] THEN Closed(c)
              ELSE /\ req' = [req EXCEPT ![c] = Drafted(
                        [mid(row, a) EXCEPT !.tokens = @ + d[1],
                           !.holders = IF Async /\ ~(old(row).stale > 0) THEN @ - d[1] ELSE @])]
                   /\ worker' = [worker EXCEPT ![c] = Ran(row, a)]
                   /\ UNCHANGED <<queues, transfers, pool>>
    BY <1>5, <1>15
  <2>2. /\ d[1] \in 1..gen(row, a) /\ d[2] \in BOOLEAN /\ (d[1] < gen(row, a) => d[2])
        /\ gen(row, a) \in Nat
    BY <1>9 DEF Deliveries, gen
  <2>3. PICK n \in Nat : n = d[1]
    BY <2>2
  <2>4. out' = More(row, n)
    BY <2>1, <2>3
  <2>5. CASE d[2]
    <3>1. Closed(c)
      BY <2>1, <2>5
    <3>2. /\ out'[c] = out[c] \o [i \in 1..n |-> first + i]
          /\ \A r \in Requests : r # c => out'[r] = out[r]
      BY <1>9, <1>10, <2>4 DEF More, first
    <3>3. InOrder(c)' /\ out'[c] \in Seq(Int)
      BY <1>1, <1>3, <1>6, <3>2, TakenOut DEF first
    <3>4. out' \in [Requests -> Seq(Int)]
      BY <1>10, <2>4, <3>2, <3>3 DEF More
    <3>5. Head(step).r = c
      BY <1>3
    <3> QED
      BY <1>1, <1>9, <3>1, <3>2, <3>3, <3>4, <3>5, EndKeeps
  <2>6. CASE ~d[2]
    <3>1. n = gen(row, a)
      BY <2>2, <2>3, <2>6
    <3> DEFINE q == [mid(row, a) EXCEPT !.tokens = @ + d[1],
                        !.holders = IF Async /\ ~(old(row).stale > 0) THEN @ - d[1] ELSE @]
    <3>2. /\ req' = [req EXCEPT ![c] = Drafted(q)]
          /\ worker' = [worker EXCEPT ![c] = Ran(row, a)]
          /\ UNCHANGED <<queues, transfers, pool>>
      BY <2>1, <2>6
    <3>3. /\ IsReq(q) /\ q.status = old(row).status /\ q.tokens = old(row).tokens + n
          /\ q.flying = mid(row, a).flying /\ q.drop = mid(row, a).drop /\ q.stale = mid(row, a).stale
      <4>1. d[1] \in Int
        BY <2>3
      <4> QED
        BY <1>12, <2>3, <4>1 DEF IsReq, Fields
    <3> HIDE DEF q
    <3> QED
      BY <1>13, <2>4, <3>1, <3>2, <3>3
  <2> QED
    BY <2>5, <2>6
<1> QED
  BY <1>14, <1>15

-----------------------------------------------------------------------------
(* The invariant holds of every reachable state.                           *)

LEMMA Initially == Init => IInv
<1> SUFFICES ASSUME Init PROVE IInv
  OBVIOUS
<1>1. /\ running = <<>> /\ waiting = <<>> /\ skipped = <<>> /\ pc = "idle"
      /\ plan = NoPlan /\ flight = <<>> /\ step = <<>>
      /\ worker = [r \in Requests |-> NoWork] /\ out = [r \in Requests |-> <<>>]
      /\ prompt \in [Requests -> Prompts]
  BY DEF Init
<1>2. PICK S : req = [r \in Requests |-> IF r \in S THEN Fresh ELSE [Fresh EXCEPT !.status = "gone"]]
  BY DEF Init
<1>3. ASSUME NEW r \in Requests PROVE IsReq(req[r]) /\ req[r].status \in {"new", "gone"}
  <2>1. req[r] = Fresh \/ req[r] = [Fresh EXCEPT !.status = "gone"]
    BY <1>2
  <2>2. IsReq(Fresh) /\ Fresh.status = "new"
    BY DEF Fresh, IsReq, Fields, Statuses
  <2>3. /\ IsReq([Fresh EXCEPT !.status = "gone"])
        /\ [Fresh EXCEPT !.status = "gone"].status = "gone"
    BY DEF Fresh, IsReq, Fields, Statuses
  <2> QED
    BY <2>1, <2>2, <2>3
<1>4. plan.rows = <<>> /\ plan.skips = <<>> /\ plan.at = 1 /\ plan.budget = 0
      /\ DOMAIN plan = {"at", "budget", "rows", "victims", "prefill", "ran", "skips", "loads"}
  BY <1>1 DEF NoPlan
<1>5. Types
  <2>1. <<>> \in Seq(Int) /\ <<>> \in Seq(Requests) /\ DOMAIN flight = {}
    BY <1>1
  <2>2. IsWork(NoWork)
    BY DEF IsWork, NoWork
  <2>3. IsSeq(flight) /\ IsStep(step) /\ IsStep(plan.rows)
    BY <1>1, <1>4, NoStep
  <2>4. DOMAIN req = Requests
    BY <1>2
  <2> QED
    BY <1>1, <1>3, <1>4, <2>1, <2>2, <2>3, <2>4 DEF Types
<1>6. Queues
  <2>1. <<>> \in Seq(Requests) /\ ToSet(<<>>) = {} /\ Distinct(<<>>)
    BY DEF ToSet, Distinct
  <2> QED
    BY <1>1, <2>1 DEF Queues, AllIdle, Apart
<1>7. Planned
  BY <1>1, <1>4 DEF Planned
<1>8. ASSUME NEW r \in Requests PROVE Served(r)
  <2>1. End = 1 /\ \A i \in 0..End : Line(i) = <<>>
    <3>1. End = 1
      BY <1>1 DEF End
    <3>2. \A i \in 0..1 : i = 0 \/ i = 1
      OBVIOUS
    <3> QED
      BY <1>1, <1>4, <3>1, <3>2 DEF Line
  <2>2. \A i \in 0..End : Mine(r)[i] = Zero
    BY <2>1, NoRows DEF Mine
  <2>3. InOrder(r) /\ out[r] = <<>>
    BY <1>1 DEF InOrder
  <2> QED
    BY <1>3, <2>2, <2>3 DEF Served, Idle
<1> QED
  BY <1>5, <1>6, <1>7, <1>8 DEF IInv

LEMMA Stutters == ASSUME IInv, UNCHANGED vars PROVE IInv'
<1>1. /\ req' = req /\ worker' = worker /\ out' = out /\ prompt' = prompt
      /\ flight' = flight /\ step' = step /\ plan' = plan /\ pc' = pc
      /\ running' = running /\ waiting' = waiting /\ skipped' = skipped
  BY DEF vars, queues
<1>2. Types'
  BY <1>1, QuietTypes DEF IInv, Types
<1>3. Queues'
  BY <1>1 DEF IInv, Queues, AllIdle
<1>4. Planned'
  BY <1>1 DEF IInv, Planned
<1>5. \A r \in Requests : Served(r)'
  BY <1>1, QuietServed
<1> QED
  BY <1>2, <1>3, <1>4, <1>5 DEF IInv

LEMMA Steps == IInv /\ [Next]_vars => IInv'
<1> SUFFICES ASSUME IInv, [Next]_vars PROVE IInv'
  OBVIOUS
<1>1. CASE Begin
  BY <1>1, BeginKeeps
<1>2. CASE SkipRunning \/ ScheduleRunning \/ PreemptRunning
  BY <1>2, SkipRunningKeeps, ScheduleRunningKeeps, PreemptRunningKeeps
<1>3. CASE EndUpdate \/ SetPauseState \/ Reset \/ ResetDone \/ RunningDone \/ WaitingDone
  BY <1>3, QuietKeeps
<1>4. CASE SkipWaiting \/ Promote \/ Load \/ Admit
  BY <1>4, SkipWaitingKeeps, PromoteKeeps, LoadKeeps, AdmitKeeps
<1>5. CASE Finish \/ Collect \/ SkipRow \/ UpdateRow
  BY <1>5, FinishKeeps, CollectKeeps, SkipRowKeeps, UpdateRowKeeps
<1>6. CASE ResetRunning
  BY <1>6, ResetRunningKeeps
<1>7. CASE Done \/ UNCHANGED vars
  BY <1>7, Stutters DEF Done
<1>8. CASE \E r \in Requests : LoadDone(r) \/ LoadFails(r) \/ AddRequest(r) \/ Abort(r)
  BY <1>8, LoadDoneKeeps, LoadFailsKeeps, AddRequestKeeps, AbortKeeps
<1> QED
  BY <1>1, <1>2, <1>3, <1>4, <1>5, <1>6, <1>7, <1>8 DEF Next

LEMMA Enough == IInv => OutputInOrder
<1> SUFFICES ASSUME IInv, NEW r \in Requests
             PROVE  /\ \A i \in DOMAIN out[r] : out[r][i] = prompt[r] + i
                    /\ r \notin Over \cup With("new") =>
                          req[r].tokens = prompt[r] + Len(out[r])
  BY DEF OutputInOrder
<1>1. Served(r) /\ IsReq(req[r])
  BY DEF IInv, Types
<1>2. r \notin Over \cup With("new") => req[r].status \in Idle \cup {"running"}
  BY <1>1 DEF Over, With, IsReq, Statuses, Idle
<1> QED
  BY <1>1, <1>2 DEF Served, InOrder

(* For every set of requests, every mode and any number of steps in flight,  *)
(* the client receives the tokens of a request in order and each once, and   *)
(* the scheduler counts what the client has (_preempt_request, the stale and *)
(* drop rules of update_from_output, the rows resumed with their tokens).    *)
THEOREM TokensInOrder == Spec => []OutputInOrder
<1>1. Init => IInv
  BY Initially
<1>2. IInv /\ [Next]_vars => IInv'
  BY Steps
<1>3. IInv => OutputInOrder
  BY Enough
<1> QED
  BY <1>1, <1>2, <1>3, PTL DEF Spec
=============================================================================
