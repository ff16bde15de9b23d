------------------------- MODULE PleHandoffInvariant -------------------------
(***************************************************************************)
(* The inductive invariant of the hand-off of the PLE rows between the two *)
(* ranks, and the vocabulary of its proof (PleHandoffProofs).              *)
(*                                                                         *)
(* The idea: what a stream ever executes is known beforehand, step by step *)
(* (Script); a queue holds the rest of it.  at[s] is the step stream s is  *)
(* in and ph[s] how many operations of that step it has executed; they are *)
(* what the state does not show, and the invariant says that there are     *)
(* such cursors.                                                           *)
(***************************************************************************)
EXTENDS PleHandoff

-----------------------------------------------------------------------------
(* What the streams execute.                                               *)

\* The steps up to d are dummy steps and those behind it are real.
Dummies(d) == d \in 0..MaxStep /\ \A n \in Steps : Real(n) <=> n > d

\* The streams that execute one script in every step; the others have none.
Scripted == Streams \ {Error}

\* A wait for the j-th record of event e.
Await(e, j) == [op |-> "wait_event", n |-> j, ev |-> e]

MainScript0(d, n) ==
    IF n > d
      THEN <<Op("stage", n), Record("input_ready"), Await("d2h_done", n - d), WaitValue(1),
             Op("consume", n), Await("done0", n - d), WriteValue(0)>>
      ELSE <<Op("stage", n), Op("zero", 0), WriteValue(1), WaitValue(1),
             Op("consume", n), WriteValue(0)>>
MainScript1(d, n) ==
    IF n > d
      THEN <<WaitValue(1), Op("consume", n), Await("done1", n - d), WriteValue(0)>>
      ELSE <<Op("zero", 0), WriteValue(1), WaitValue(1), Op("consume", n), WriteValue(0)>>
TpScript0(d, n) ==
    <<Await("d2h_done", n - d), WaitValue(1), Op("broadcast", n), Record("done0")>>
TpScript1(d, n) ==
    <<WaitValue(0), Op("broadcast", n), WriteValue(1), Record("done1")>>
CopyScript(d, n) ==
    <<Await("input_ready", n - d), Op("copy", 0), Record("d2h_done")>>
ReadScript(n) == <<WaitValue(0), Op("gather", n), WriteValue(1)>>

\* Step n of stream s, of Size operations; Base is what all the steps before it have.
Script(d, s, n) ==
    CASE s = Main(0) -> MainScript0(d, n)
      [] s = Main(1) -> MainScript1(d, n)
      [] s = Tp(0) -> TpScript0(d, n)
      [] s = Tp(1) -> TpScript1(d, n)
      [] s = D2H -> CopyScript(d, n)
      [] OTHER -> ReadScript(n)
DummySize(s) == CASE s = Main(0) -> 6 [] s = Main(1) -> 5 [] OTHER -> 0
RealSize(s) == CASE s = Main(0) -> 7 [] s \in {D2H, Reader} -> 3 [] OTHER -> 4
Size(d, s, n) == IF n > d THEN RealSize(s) ELSE DummySize(s)
Base(d, s, n) == IF n > d THEN DummySize(s) * d + RealSize(s) * (n - d - 1)
                          ELSE DummySize(s) * (n - 1)

\* The p-th operation that s ever executes is o.
Nth(d, s, p, o) == \E n \in Steps : \E k \in 1..Size(d, s, n) :
                       p = Base(d, s, n) + k /\ o = Script(d, s, n)[k]

\* The operations of s executed, and those enqueued, so far.
Executed(d, at, ph, s) == Base(d, s, at[s]) + ph[s]
Enqueued(d, at, ph, s) == Executed(d, at, ph, s) + Len(queue[s])

\* The operation o before which a main stream stands, after k operations of step n.
Ops0(d, n, k, o) ==
    /\ k = 0 => o = Op("stage", n)
    /\ n > d => /\ k = 1 => o = Record("input_ready")
                /\ k = 2 => o = Await("d2h_done", n - d)
                /\ k = 3 => o = WaitValue(1)
                /\ k = 4 => o = Op("consume", n)
                /\ k = 5 => o = Await("done0", n - d)
                /\ k = 6 => o = WriteValue(0)
    /\ ~(n > d) => /\ k = 1 => o = Op("zero", 0)
                   /\ k = 2 => o = WriteValue(1)
                   /\ k = 3 => o = WaitValue(1)
                   /\ k = 4 => o = Op("consume", n)
                   /\ k = 5 => o = WriteValue(0)
Ops1(d, n, k, o) ==
    /\ n > d => /\ k = 0 => o = WaitValue(1)
                /\ k = 1 => o = Op("consume", n)
                /\ k = 2 => o = Await("done1", n - d)
                /\ k = 3 => o = WriteValue(0)
    /\ ~(n > d) => /\ k = 0 => o = Op("zero", 0)
                   /\ k = 1 => o = WriteValue(1)
                   /\ k = 2 => o = WaitValue(1)
                   /\ k = 3 => o = Op("consume", n)
                   /\ k = 4 => o = WriteValue(0)

-----------------------------------------------------------------------------
(* The inductive invariant.                                                *)

Requesting == {"get", "stage", "notify", "sync", "plan", "produce", "complete", "fail",
               "wake", "stopped"}
Labels1 == {"idle", "sync", "prepare", "status", "transport", "drain", "drained", "verify",
            "verifying", "dummy", "forward", "release", "failed"}

Shape ==
    /\ sync_steps \in Dispatch /\ faults \in Faults /\ kind \in Workloads
    /\ faults # {} => sync_steps
    /\ queue \in [Streams -> Seq(Ops)] /\ busy \subseteq Streams
    /\ recorded \in [Events -> Nat] /\ fired \in [Events -> Nat]
    /\ flag \in [Ranks -> {0, 1}]
    /\ inputs \in Contents /\ pinned \in Contents /\ output \in [Ranks -> Contents]
    /\ got \in [Ranks -> [Steps -> Contents \cup {-1}]]
    /\ pc \in [Ranks -> Labels] /\ pc[1] \in Labels1
    /\ step \in [Ranks -> Contents] /\ verify \in [Ranks -> 0..VerifySteps]
    /\ digest \in [Ranks -> Contents] /\ finished \in Contents
    /\ active \in Contents /\ enqueued \in Contents /\ reqSeq \in Contents
    /\ rows \in Contents /\ mailbox \in Contents \cup {-1}
    /\ records \subseteq Steps /\ completed \subseteq Steps /\ released \subseteq Steps
    /\ error \in BOOLEAN /\ closed \in BOOLEAN
    /\ req \in Requesting

Cursors(d, at, ph) ==
    /\ at \in [Streams -> 1..(MaxStep + 1)] /\ ph \in [Streams -> 0..6]
    /\ \A s \in Scripted : ph[s] < Size(d, s, at[s])

\* The queues hold what is left of the scripts; the error stream zeroes and wakes.
Queues(d, at, ph) ==
    /\ \A s \in Scripted : \A i \in 1..Len(queue[s]) :
          Nth(d, s, Executed(d, at, ph, s) + i, queue[s][i])
    /\ \A i \in 1..Len(queue[Error]) : queue[Error][i] \in {Op("zero", 0), WriteValue(1)}

Moved(s) == Head(queue[s]).op \in Moves
Under == /\ \A s \in busy : ~Idle(s) /\ Moved(s)
         /\ Tp(0) \in busy <=> Tp(1) \in busy
         /\ Tp(0) \in busy => Broadcasting

\* Nothing has been done about the outputs for an error, or too late to matter.
Clean == ~error \/ pc[0] = "result"

\* The value that the output of a step has.
Val(d, n) == IF n > d THEN n ELSE 0

\* The records the device has reached.
Fires(d, at, ph) ==
    /\ fired["d2h_done"] = at[D2H] - d - 1
    /\ fired["done0"] = at[Tp(0)] - d - 1
    /\ fired["done1"] = at[Tp(1)] - d - 1
    /\ fired["input_ready"] = IF at[Main(0)] <= d THEN 0
                              ELSE IF ph[Main(0)] >= 2 THEN at[Main(0)] - d
                              ELSE at[Main(0)] - d - 1

\* The main stream of rank 0, in step n0, and the copies of the inputs, in nc.
Copying(d, n0, k0, nc, kc, in, pin) ==
    /\ n0 <= d => nc = d + 1 /\ kc = 0
    /\ n0 > d => \/ nc = n0 /\ k0 <= 2 /\ (kc >= 1 => k0 = 2)
                 \/ nc = n0 + 1 /\ kc = 0 /\ k0 >= 2
    /\ in = IF k0 >= 1 THEN n0 ELSE n0 - 1
    /\ pin = IF kc >= 2 THEN nc ELSE IF nc = d + 1 THEN 0 ELSE nc - 1

\* ... and the transport of rank 0, in n2.
Sending(d, n0, k0, nc, n2, k2) ==
    /\ n0 <= d => n2 = d + 1 /\ k2 = 0
    /\ n0 > d => \/ n2 = n0 /\ k0 <= 5 /\ (k2 >= 1 => nc = n0 + 1)
                 \/ n2 = n0 + 1 /\ k2 = 0 /\ nc = n0 + 1

\* The transports of the two ranks, by the broadcasts they have done.
Matched(n2, k2, n3, k3) ==
    \/ n2 = n3 /\ (k2 >= 3 <=> k3 >= 2)
    \/ n2 = n3 + 1 /\ k2 <= 2 /\ k3 >= 2
    \/ n3 = n2 + 1 /\ k2 = 3 /\ k3 <= 1

\* ... and the reader, in nr: the flag and the output of rank 0.
Producing(d, n0, k0, nc, n2, k2, nr, kr, f, out) ==
    /\ n0 <= d => /\ nr = d + 1 /\ kr = 0
                  /\ f = IF k0 >= 3 THEN 1 ELSE 0
                  /\ k0 >= 2 => out = 0
    /\ n0 > d => /\ f = nr - n0
                 /\ \/ nr = n0 /\ k0 <= 3 /\ (kr >= 1 => nc = n0 + 1)
                    \/ nr = n0 + 1 /\ kr = 0 /\ nc = n0 + 1
                 /\ k2 >= 2 \/ n2 = n0 + 1 => nr = n0 + 1
                 /\ (nr = n0 /\ kr = 2) \/ nr = n0 + 1 => out = n0

\* The main stream and the transport of rank 1: its flag.
Receiving(d, n1, k1, n3, k3, f) ==
    /\ n1 <= d => /\ n3 = d + 1 /\ k3 = 0
                  /\ f = IF k1 >= 2 THEN 1 ELSE 0
    /\ n1 > d => /\ \/ n3 = n1 /\ k3 <= 2 /\ k1 = 0
                    \/ n3 = n1 /\ k3 = 3 /\ k1 <= 2
                    \/ n3 = n1 + 1 /\ k3 = 0
                 /\ f = IF n3 = n1 /\ k3 <= 2 THEN 0 ELSE 1

\* ... and its output.
Received(d, n1, k1, n3, k3, out) ==
    /\ n1 <= d /\ k1 >= 1 => out = 0
    /\ n1 > d /\ ((n3 = n1 /\ k3 >= 2) \/ n3 = n1 + 1) => out = n1

\* What the forwards have read: those of the steps before n, and of step n itself
\* if it is consumed.
Consumption(d, row, n, consumed) ==
    \A m \in Steps : row[m] = IF m < n \/ (m = n /\ consumed) THEN Val(d, m) ELSE -1

Consumed0(k) == k >= 5
Consumed1(d, n, k) == k >= (IF n > d THEN 2 ELSE 4)

Device0(d, at, ph) ==
    /\ \A s \in {Tp(0), Tp(1), D2H, Reader} : at[s] > d
    /\ Fires(d, at, ph)
    /\ Copying(d, at[Main(0)], ph[Main(0)], at[D2H], ph[D2H], inputs, pinned)
    /\ Sending(d, at[Main(0)], ph[Main(0)], at[D2H], at[Tp(0)], ph[Tp(0)])
    /\ Matched(at[Tp(0)], ph[Tp(0)], at[Tp(1)], ph[Tp(1)])
    /\ Clean => /\ Producing(d, at[Main(0)], ph[Main(0)], at[D2H], at[Tp(0)], ph[Tp(0)],
                             at[Reader], ph[Reader], flag[0], output[0])
                /\ Consumption(d, got[0], at[Main(0)], Consumed0(ph[Main(0)]))
    /\ sync_steps => \A m \in 1..finished : m < at[Main(0)] /\ got[0][m] = Val(d, m)

Device1(d, at, ph) ==
    Serialize =>
        /\ Receiving(d, at[Main(1)], ph[Main(1)], at[Tp(1)], ph[Tp(1)], flag[1])
        /\ Clean => /\ Received(d, at[Main(1)], ph[Main(1)], at[Tp(1)], ph[Tp(1)], output[1])
                    /\ Consumption(d, got[1], at[Main(1)],
                                   Consumed1(d, at[Main(1)], ph[Main(1)]))

Resting == {"idle", "closing", "closed"}

\* The operations e of its main stream that rank 0 has enqueued when it is in step n
\* at label l.
MainAt0(d, n, l, e) ==
    LET b == Base(d, Main(0), n)
        t == Base(d, Main(0), n + 1)
    IN
    /\ l \in Resting \cup {"released", "result"} => e = t
    /\ l \in {"sync", "prepare", "dummy"} => e = b + 1
    /\ l = "handoff" => e = b + 2
    /\ l \in {"ready", "status", "transport", "drain", "drained", "verify", "verifying",
              "forward"} => e = b + 3
    /\ l = "release" => e = b + 5
    /\ l \in {"status_failed", "failed"} => b + 1 <= e /\ e <= t

\* ... and rank 1.
MainAt1(d, n, l, e) ==
    LET b == Base(d, Main(1), n)
        t == Base(d, Main(1), n + 1)
    IN
    /\ l = "idle" => e = t
    /\ l \in {"sync", "prepare", "dummy", "status", "transport", "drain", "drained",
              "verify", "verifying"} => e = b
    /\ l = "forward" => e = b + (IF n > d THEN 0 ELSE 2)
    /\ l = "release" => e = b + (IF n > d THEN 2 ELSE 4)
    /\ l = "failed" => b <= e /\ e <= t

Mains(d, at, ph) ==
    /\ MainAt0(d, step[0], pc[0], Enqueued(d, at, ph, Main(0)))
    /\ MainAt1(d, step[1], pc[1], Enqueued(d, at, ph, Main(1)))

\* A count of the real steps that the rank in step n at label l has been through:
\* all of them, but not the last one before or unless the label says so.
Counted(d, n, l, before, unsure, count) ==
    /\ n <= d => count = 0
    /\ n > d => /\ l \in before => count = n - d - 1
                /\ l \in unsure => count \in {n - d - 1, n - d}
                /\ l \notin before \cup unsure => count = n - d

\* The transfers that rank r has enqueued, of e operations in all.
Transfers(d, n, l, count, e) ==
    /\ Counted(d, n, l, {"sync", "prepare", "handoff", "ready", "status", "status_failed",
                         "transport"}, {"failed"}, count)
    /\ e = 4 * count

Counts(d, at, ph) ==
    /\ Counted(d, step[0], pc[0], {"sync", "prepare"}, {"status_failed", "failed"},
               recorded["input_ready"])
    /\ \A r \in Ranks :
          Transfers(d, step[r], pc[r], recorded[Done(r)], Enqueued(d, at, ph, Tp(r)))

\* The labels belong to steps of a kind.
KindedAt(d, n, l) ==
    /\ l # "idle" => n >= 1
    /\ l \in {"sync", "ready", "status", "status_failed", "drain", "drained"} => Serial(n)
    /\ l = "dummy" => n <= d
    /\ l \in {"sync", "ready", "status", "status_failed", "drain", "drained",
              "prepare", "handoff", "transport", "verify", "verifying"} => n > d
Kinded(d) == \A r \in Ranks : KindedAt(d, step[r], pc[r])

\* Rank r has been through a rendezvous of step n: those of the step that lead
\* to a label of the set.
AfterVerify   == Resting \cup {"forward", "release", "released", "result"}
AfterDrained  == AfterVerify \cup {"verify", "verifying"}
AfterStatus   == AfterDrained \cup {"transport", "drain", "drained"}
Past(r, n, labels) == step[r] > n \/ (step[r] = n /\ pc[r] \in labels)
Together(n, labels) == Past(0, n, labels) <=> Past(1, n, labels)

BroadcastDone(at, ph, n) == at[Tp(1)] > n \/ (at[Tp(1)] = n /\ ph[Tp(1)] >= 2)

Ranked(d, at, ph) ==
    /\ verify[0] = verify[1]
    /\ \A r \in Ranks : pc[r] \in {"verify", "verifying"} => verify[r] > 0
    /\ pc[0] # "failed" /\ pc[1] # "failed" =>
          /\ \A n \in Steps : Serial(n) => Together(n, AfterStatus) /\ Together(n, AfterDrained)
          /\ verify[0] > 0 => \A n \in Steps : n > d => Together(n, AfterVerify)
    /\ \A r \in Ranks : pc[r] = "drained" => at[Tp(r)] > step[r]
    /\ \A n \in Steps : Serial(n) =>
          /\ \A r, t \in Ranks : Past(r, n, AfterDrained) => at[Tp(t)] > n
          /\ Past(1, n, AfterStatus) /\ ~BroadcastDone(at, ph, n) =>
                step[0] = n /\ pc[0] \in {"transport", "drain"}
    /\ pc[1] = "failed" /\ Serial(step[1]) => recorded["done1"] + d < step[1] \/ at[Tp(1)] > step[1]
    /\ step[1] > d /\ (pc[1] # "sync" \/ step[1] > d + 1) => (Serialize => at[Main(1)] > d)
    /\ Clean /\ Serialize => \A r \in Ranks : pc[r] = "verifying" => digest[r] = step[r]

\* The steps that rank 0 finished, and its active sequence.
Owned(d) ==
    /\ finished = IF pc[0] \in Resting THEN step[0] ELSE step[0] - 1
    /\ pc[0] \in Resting \cup {"sync", "prepare", "dummy", "result"} => active = 0
    /\ pc[0] \notin Resting \cup {"sync", "prepare", "dummy", "result", "status_failed",
                                  "failed"} => active = step[0]
    /\ pc[0] \notin {"sync", "prepare", "handoff", "dummy", "status_failed", "failed"}
          /\ step[0] > d => enqueued = step[0]
    /\ pc[0] \in {"sync", "prepare"} /\ step[0] > d + 1 => enqueued = step[0] - 1

\* The request thread: the real step it serves and the mailbox.
Launched == recorded["input_ready"]
Served(d) ==
    /\ mailbox > 0 => /\ Launched >= 1 /\ mailbox = d + Launched /\ step[0] = mailbox
                      /\ reqSeq = IF Launched = 1 THEN 0 ELSE mailbox - 1
                      /\ pc[0] \in {"handoff", "status_failed", "failed"}
                      /\ mailbox \in records \ completed /\ req \notin {"stage", "notify"}
    /\ mailbox <= 0 => reqSeq = IF Launched = 0 THEN 0 ELSE d + Launched
    /\ mailbox = -1 => pc[0] \in {"closing", "closed"}
    /\ req = "stopped" => pc[0] \in {"closing", "closed"}
    /\ reqSeq = 0 => req \in {"get", "stopped"}
    /\ reqSeq # 0 => reqSeq > d
    /\ req \notin {"get", "wake", "stopped"} => reqSeq \in records \ completed

Requests(d, at, ph) ==
    /\ enqueued = IF req \in {"stage", "notify"}
                    THEN (IF reqSeq = d + 1 THEN 0 ELSE reqSeq - 1) ELSE reqSeq
    /\ recorded["d2h_done"] = IF reqSeq = 0 THEN 0
                              ELSE IF req = "stage" THEN reqSeq - d - 1 ELSE reqSeq - d
    /\ Enqueued(d, at, ph, D2H) = 3 * recorded["d2h_done"]
    /\ reqSeq # 0 => at[D2H] >= reqSeq
    /\ reqSeq # 0 /\ req \notin {"stage", "notify", "sync"} => at[D2H] = reqSeq + 1
    /\ req \in {"produce", "complete", "fail", "wake"} => rows = reqSeq

\* What the reader has been given.
Broken(d, at, ph) == Enqueued(d, at, ph, Reader) \in {3 * (reqSeq - d) - 1, 3 * (reqSeq - d) - 2}
Reading(d, at, ph) ==
    /\ reqSeq = 0 => Enqueued(d, at, ph, Reader) = 0
    /\ reqSeq # 0 =>
          /\ req \in {"stage", "notify", "sync", "plan", "produce"} =>
                Enqueued(d, at, ph, Reader) = 3 * (reqSeq - d - 1) /\ at[Reader] = reqSeq
          /\ req = "complete" => Enqueued(d, at, ph, Reader) = 3 * (reqSeq - d)
          /\ req \in {"fail", "wake"} => mailbox <= 0 /\ Broken(d, at, ph)
          /\ req \in {"get", "stopped"} =>
                \/ Enqueued(d, at, ph, Reader) = 3 * (reqSeq - d) /\ at[Reader] = reqSeq + 1
                      /\ reqSeq \in completed
                \/ error /\ mailbox <= 0 /\ Broken(d, at, ph)
    /\ sync_steps => Enqueued(d, at, ph, Reader) >= 3 * (Launched - 1)
    /\ pc[0] \in {"status", "transport", "drain", "drained"} /\ Serial(step[0]) =>
          step[0] \in completed /\ req = "get" /\ mailbox = 0 /\ Idle(Reader)

Recorded(d) ==
    /\ \A m \in completed : m <= d \/ m <= reqSeq
    /\ \A m \in Steps : m > d /\ m < reqSeq => m \in completed
    /\ \A m \in Steps : m <= d /\ (m < step[0] \/ (m = step[0] /\ pc[0] \in AfterVerify)) =>
          m \in completed
    /\ \A m \in Steps : m < step[0] \/ (m = step[0] /\ pc[0] \in Resting \cup {"result"}) =>
          m \in released
    /\ \A m \in released : m < step[0] \/ (m = step[0] /\ pc[0] \in Resting \cup {"result", "failed"})
    /\ \A m \in records : m <= step[0] /\ ~(m \in completed /\ m \in released)

\* Errors come from faults, and the error stream is used only when rank 0 will raise.
Faulty ==
    /\ faults = {} => ~error /\ req # "fail" /\ pc[0] # "status_failed"
    /\ Serialize /\ faults = {} => \A r \in Ranks : pc[r] # "failed"
    /\ ~Idle(Error) \/ req = "wake" => error /\ pc[0] # "result"

IInv(d, at, ph) ==
    /\ Shape /\ Dummies(d) /\ Cursors(d, at, ph) /\ Queues(d, at, ph) /\ Under
    /\ Device0(d, at, ph) /\ Device1(d, at, ph)
    /\ Mains(d, at, ph) /\ Counts(d, at, ph) /\ Kinded(d) /\ Ranked(d, at, ph)
    /\ Owned(d) /\ Served(d) /\ Requests(d, at, ph) /\ Reading(d, at, ph) /\ Recorded(d)
    /\ Faulty

\* The inductive invariant, of the variables alone.
Inv == \E d \in 0..MaxStep : \E a, p : IInv(d, a, p)

-----------------------------------------------------------------------------
(* What a step of the device does to the cursors, and to what depends on them. *)

\* The cursors when the streams of P have executed their first operations.
NextAt(d, at, ph, P) ==
    [s \in Streams |-> IF s \in P /\ ph[s] + 1 = Size(d, s, at[s]) THEN at[s] + 1 ELSE at[s]]

NextPh(d, at, ph, P) ==
    [s \in Streams |-> IF s \in P
                         THEN (IF ph[s] + 1 = Size(d, s, at[s]) THEN 0 ELSE ph[s] + 1)
                         ELSE ph[s]]

Popped(P) == [s \in Streams |-> IF s \in P THEN Tail(queue[s]) ELSE queue[s]]

\* What is appended to the queues does not disturb what has begun.
Grown == /\ queue' \in [Streams -> Seq(Ops)]
         /\ \A s \in Streams : ~Idle(s) => ~Idle(s)' /\ Head(queue'[s]) = Head(queue[s])

\* The cursors go from (at, ph) to (a, p), and the queues follow.
Follows(d, at, ph, a, p) ==
    /\ \A s \in Scripted : /\ Enqueued(d, a, p, s)' = Enqueued(d, at, ph, s)
                           /\ a[s] \in Nat /\ p[s] \in Nat /\ a[s] >= at[s]
                           /\ a[s] = at[s] => p[s] >= ph[s]
    /\ \A s \in Scripted : Idle(s) => Idle(s)' /\ a[s] = at[s] /\ p[s] = ph[s]
    /\ Idle(Error) => Idle(Error)'

Frame == UNCHANGED <<workload, recorded, hosts, conn, rqst>>

\* It executes operation k + 1 of step n and goes to (N, K).  Of the variables it
\* may change the flag f and the output out of rank 0, the inputs in, the count fi
\* of the records of input_ready and the row of what the forwards read.
Main0Length(d, n) == IF n > d THEN 7 ELSE 6

Main0Does(d, n, k, N, K, nc, n2, f, F, out, O, in, I, fi, FI) ==
    /\ k \in 0..(Main0Length(d, n) - 1)
    /\ IF k + 1 = Main0Length(d, n) THEN N = n + 1 /\ K = 0 ELSE N = n /\ K = k + 1
    /\ I = IF k = 0 THEN n ELSE in
    /\ FI = IF n > d /\ k = 1 THEN fi + 1 ELSE fi
    /\ O = IF n <= d /\ k = 1 THEN 0 ELSE out
    /\ F = IF n <= d /\ k = 2 THEN 1 ELSE IF k + 1 = Main0Length(d, n) THEN 0 ELSE f
    /\ n > d /\ k = 2 => nc > n
    /\ n > d /\ k = 5 => n2 > n
    /\ k = 3 => f = 1

\* The records of input_ready that the device has reached.
Inputs0(d, n, k) == IF n <= d THEN 0 ELSE IF k >= 2 THEN n - d ELSE n - d - 1

\* What the streams that feed the main stream of rank 0 agree on.
Upstream0(d, n, k, nc, kc, n2, k2, in, pin, fi) ==
    /\ d \in Nat /\ n \in Nat \ {0} /\ k \in Nat /\ nc \in Nat /\ kc \in Nat
    /\ n2 \in Nat /\ k2 \in Nat
    /\ Copying(d, n, k, nc, kc, in, pin) /\ Sending(d, n, k, nc, n2, k2)
    /\ fi = Inputs0(d, n, k)

\* ... and what they and the reader agree on.
Output0(d, n, k, nc, n2, k2, nr, kr, f, out) ==
    /\ nr \in Nat /\ kr \in Nat /\ f \in Nat
    /\ Producing(d, n, k, nc, n2, k2, nr, kr, f, out)

\* A forward reads the output that is its own.
Row(d, row, n, c) ==
    /\ d \in Nat /\ n \in Nat \ {0} /\ row \in [Steps -> Contents \cup {-1}] /\ c \in BOOLEAN
    /\ Consumption(d, row, n, c)

RowMoves(d, n, N, row, ROW, c, C) ==
    \/ N = n /\ c = C /\ ROW = row
    \/ N = n /\ ~c /\ C /\ ROW = [row EXCEPT ![n] = Val(d, n)]
    \/ N = n + 1 /\ c /\ ~C /\ ROW = row

\* The rows of finished steps stay.
RowsDone(d, n, row, fin) == \A m \in 1..fin : m < n /\ row[m] = Val(d, m)

RowGoes(n, N, row, ROW, fin) ==
    /\ n \in Nat /\ N \in Nat /\ N >= n /\ fin \in Contents
    /\ \A m \in Steps : m # n => ROW[m] = row[m]

\* What the main stream of rank 0 does when it executes its first operation.
Main0Moved(d, at, ph, a, p) ==
    /\ ~Idle(Main(0)) /\ queue' = Popped({Main(0)}) /\ Frame /\ Shape' /\ Under'
    /\ Main0Does(d, at[Main(0)], ph[Main(0)], a[Main(0)], p[Main(0)], at[D2H],
                 at[Tp(0)], flag[0], flag'[0], output[0], output'[0], inputs, inputs',
                 fired["input_ready"], fired'["input_ready"])
    /\ at[Main(0)] \in Steps
    /\ \A s \in Streams \ {Main(0)} : a[s] = at[s] /\ p[s] = ph[s]
    /\ \A e \in Events \ {"input_ready"} : fired'[e] = fired[e]
    /\ pinned' = pinned /\ flag'[1] = flag[1] /\ output'[1] = output[1]
    /\ got'[1] = got[1]
    /\ got'[0] = IF ph[Main(0)] = 4 THEN [got[0] EXCEPT ![at[Main(0)]] = output[0]]
                                    ELSE got[0]

\* All that Device0 says of the cursors but for the output; kc, k2 and k3
\* do not pass the end of a script.
Links(d, n, k, nc, kc, n2, k2, n3, k3, in, pin, fi, fc, f0, f1) ==
    /\ d \in Nat /\ n \in Nat \ {0} /\ k \in Nat /\ nc \in Nat /\ kc \in 0..2
    /\ n2 \in Nat /\ k2 \in 0..3 /\ n3 \in Nat /\ k3 \in 0..3
    /\ nc > d /\ n2 > d /\ n3 > d
    /\ Copying(d, n, k, nc, kc, in, pin) /\ Sending(d, n, k, nc, n2, k2)
    /\ Matched(n2, k2, n3, k3)
    /\ fi = Inputs0(d, n, k) /\ fc = nc - d - 1 /\ f0 = n2 - d - 1 /\ f1 = n3 - d - 1

\* The cursor of a stream whose scripts have size operations.
Advances(size, n, k, N, K) == IF k + 1 = size THEN N = n + 1 /\ K = 0 ELSE N = n /\ K = k + 1

\* The copies.
D2HDoes(d, nc, kc, N, K, in, pin, PIN, fi, fc, FC) ==
    /\ Advances(3, nc, kc, N, K)
    /\ kc = 0 => fi >= nc - d
    /\ PIN = IF kc = 1 THEN in ELSE pin
    /\ FC = IF kc = 2 THEN fc + 1 ELSE fc

\* What the copies change when their stream executes its first operation.
D2HMoved(d, at, ph, a, p) ==
    /\ ~Idle(D2H) /\ queue' = Popped({D2H}) /\ Frame /\ Shape' /\ Under'
    /\ D2HDoes(d, at[D2H], ph[D2H], a[D2H], p[D2H], inputs, pinned, pinned',
               fired["input_ready"], fired["d2h_done"], fired'["d2h_done"])
    /\ \A s \in Streams \ {D2H} : a[s] = at[s] /\ p[s] = ph[s]
    /\ \A e \in Events \ {"d2h_done"} : fired'[e] = fired[e]
    /\ UNCHANGED <<flag, inputs>>
    /\ \A r \in Ranks : output'[r] = output[r] /\ got'[r] = got[r]

\* The transport of rank 0 but for the broadcast itself.
Tp0Does(d, n2, k2, N, K, f, fc, f0, F0) ==
    /\ Advances(4, n2, k2, N, K) /\ k2 # 2
    /\ k2 = 0 => fc >= n2 - d
    /\ k2 = 1 => f = 1
    /\ F0 = IF k2 = 3 THEN f0 + 1 ELSE f0

\* The transport of rank 1 but for the broadcast itself; its flag is the other one.
Tp1Does(n3, k3, N, K, f, F, f1, F1) ==
    /\ Advances(4, n3, k3, N, K) /\ k3 # 1
    /\ k3 = 0 => f = 0
    /\ F = IF k3 = 2 THEN 1 ELSE f
    /\ F1 = IF k3 = 3 THEN f1 + 1 ELSE f1

\* The reader, which has not been given more than what has been copied.
ReaderDoes(nc, nr, kr, N, K, f, F, out, O) ==
    /\ Advances(3, nr, kr, N, K) /\ kr \in 0..2
    /\ nc > nr
    /\ O = IF kr = 1 THEN nr ELSE out
    /\ F = IF kr = 2 THEN 1 ELSE f

\* The reader's stream.
ReaderMoved(d, at, ph, a, p) ==
    /\ ~Idle(Reader) /\ queue' = Popped({Reader}) /\ Frame /\ Shape' /\ Under'
    /\ ReaderDoes(at[D2H], at[Reader], ph[Reader], a[Reader], p[Reader], flag[0], flag'[0],
                  output[0], output'[0])
    /\ \A s \in Streams \ {Reader} : a[s] = at[s] /\ p[s] = ph[s]
    /\ UNCHANGED <<fired, inputs, pinned>>
    /\ flag'[1] = flag[1] /\ output'[1] = output[1]
    /\ \A r \in Ranks : got'[r] = got[r]

\* The transport of rank 0.
Tp0Moved(d, at, ph, a, p) ==
    /\ ~Idle(Tp(0)) /\ queue' = Popped({Tp(0)}) /\ Frame /\ Shape' /\ Under'
    /\ Tp0Does(d, at[Tp(0)], ph[Tp(0)], a[Tp(0)], p[Tp(0)], flag[0], fired["d2h_done"],
               fired["done0"], fired'["done0"])
    /\ \A s \in Streams \ {Tp(0)} : a[s] = at[s] /\ p[s] = ph[s]
    /\ \A e \in Events \ {"done0"} : fired'[e] = fired[e]
    /\ UNCHANGED <<flag, inputs, pinned, output, got>>

\* All that Device1 says.
Links1(d, n, k, n3, k3, f) ==
    /\ d \in Nat /\ n \in Nat \ {0} /\ k \in Nat /\ n3 \in Nat /\ k3 \in 0..3 /\ n3 > d
    /\ Receiving(d, n, k, n3, k3, f)

Output1(d, n, k, n3, k3, out) == Received(d, n, k, n3, k3, out)

\* The transport of rank 1.
Tp1Moved(d, at, ph, a, p) ==
    /\ ~Idle(Tp(1)) /\ queue' = Popped({Tp(1)}) /\ Frame /\ Shape' /\ Under'
    /\ Tp1Does(at[Tp(1)], ph[Tp(1)], a[Tp(1)], p[Tp(1)], flag[1], flag'[1], fired["done1"],
               fired'["done1"])
    /\ \A s \in Streams \ {Tp(1)} : a[s] = at[s] /\ p[s] = ph[s]
    /\ \A e \in Events \ {"done1"} : fired'[e] = fired[e]
    /\ UNCHANGED <<inputs, pinned, output, got>> /\ flag'[0] = flag[0]

\* The main stream of rank 1.
Main1Length(d, n) == IF n > d THEN 4 ELSE 5

Main1Does(d, n, k, N, K, n3, f, F, out, O) ==
    /\ k \in 0..(Main1Length(d, n) - 1)
    /\ Advances(Main1Length(d, n), n, k, N, K)
    /\ O = IF n <= d /\ k = 0 THEN 0 ELSE out
    /\ F = IF n <= d /\ k = 1 THEN 1 ELSE IF k + 1 = Main1Length(d, n) THEN 0 ELSE f
    /\ n > d /\ k = 2 => n3 > n
    /\ k = (IF n > d THEN 0 ELSE 2) => f = 1

Main1Moved(d, at, ph, a, p) ==
    /\ ~Idle(Main(1)) /\ queue' = Popped({Main(1)}) /\ Frame /\ Shape' /\ Under'
    /\ Main1Does(d, at[Main(1)], ph[Main(1)], a[Main(1)], p[Main(1)], at[Tp(1)],
                 flag[1], flag'[1], output[1], output'[1])
    /\ \A s \in Streams \ {Main(1)} : a[s] = at[s] /\ p[s] = ph[s]
    /\ UNCHANGED <<fired, inputs, pinned>>
    /\ flag'[0] = flag[0] /\ output'[0] = output[0] /\ got'[0] = got[0]
    /\ got'[1] = IF ph[Main(1)] = (IF at[Main(1)] > d THEN 1 ELSE 3)
                   THEN [got[1] EXCEPT ![at[Main(1)]] = output[1]] ELSE got[1]

-----------------------------------------------------------------------------
(* What a step of a thread keeps.                                          *)

HostFrame == UNCHANGED <<workload, busy, fired, flag, inputs, pinned, output, got>>

\* The results returned are those of steps the main stream of rank 0 has left.
Finish(d, at, last) ==
    sync_steps => \A m \in 1..last : m < at[Main(0)] /\ got[0][m] = Val(d, m)

\* What a step of a thread says of the connector, of the request and of the faults.
Threads(d, at, ph) ==
    /\ Owned(d) /\ Served(d) /\ Requests(d, at, ph) /\ Reading(d, at, ph) /\ Recorded(d)
    /\ Faulty

\* Rank r stays in its step, or begins the next one: the rendezvous it has been
\* through, as far as the ranks compare them.
Stays(d, r) ==
    /\ step'[r] = step[r]
    /\ Serial(step[r]) => /\ pc'[r] \in AfterStatus <=> pc[r] \in AfterStatus
                          /\ pc'[r] \in AfterDrained <=> pc[r] \in AfterDrained
    /\ verify[0] > 0 /\ step[r] > d => (pc'[r] \in AfterVerify <=> pc[r] \in AfterVerify)

Begins(r) ==
    step'[r] = step[r] + 1 /\ pc[r] = "idle" /\ pc'[r] \in {"sync", "prepare", "dummy"}

\* Rank 0 gives up: it raises.
GivesUp == step'[0] = step[0] /\ pc'[0] = "failed"

\* Rank 1 enqueues the operations ops of its step n, from the one after the k-th
\* on, and goes to label m.
Pushing1(d, at, ph, n, m, k, ops) ==
    /\ n = step[1] /\ n \in Steps /\ k \in Nat /\ ops \in Seq(Ops) /\ m \in Labels1
    /\ pc[1] \in {"dummy", "forward", "release"} /\ m \in {"forward", "release", "idle"}
    /\ Enqueued(d, at, ph, Main(1)) = Base(d, Main(1), n) + k
    /\ k + Len(ops) <= Size(d, Main(1), n)
    /\ \A i \in 1..Len(ops) : ops[i] = Script(d, Main(1), n)[k + i]
    /\ MainAt1(d, n, m, Base(d, Main(1), n) + k + Len(ops))
    /\ pc[1] = "dummy" => n <= d

\* Where rank 0 goes within its step n: label m follows.
Turns(n, m) ==
    \/ pc[0] = "handoff" /\ m \in {"ready", "transport"} /\ enqueued = n
                         /\ (m = "ready" <=> Serial(n))
    \/ pc[0] = "forward" /\ m = "release"
    \/ pc[0] = "release" /\ m = "released"
    \/ pc[0] = "transport" /\ m = "drain" /\ Serial(n)
    \/ pc[0] = "transport" /\ ~Serial(n) /\ m = Transferred(0)
    \/ pc[0] \in {"prepare", "handoff"} /\ m = Raise(n) /\ faults # {}
    \/ pc[0] = "dummy" /\ m = "failed" /\ faults # {}

\* ... which only a fault makes an error.
Erring(m) ==
    \/ error' = error
    \/ error' = TRUE /\ faults # {} /\ m \in {"status_failed", "failed"}

\* Rank 0 enqueues the operations ops of its step n, from the one after the k-th
\* on, and goes to label m.
Pushing0(d, at, ph, n, m, k, ops) ==
    /\ n = step[0] /\ n \in Steps /\ k \in Nat /\ ops \in Seq(Ops)
    /\ Enqueued(d, at, ph, Main(0)) = Base(d, Main(0), n) + k
    /\ k + Len(ops) <= Size(d, Main(0), n)
    /\ \A i \in 1..Len(ops) : ops[i] = Script(d, Main(0), n)[k + i]
    /\ MainAt0(d, n, m, Base(d, Main(0), n) + k + Len(ops))

\* Both ranks go from the rendezvous of step n to label m.
Meeting(n, m) ==
    \/ pc[0] \in {"status", "status_failed"} /\ pc[1] = "status" /\ m \in {"transport", "failed"}
          /\ (m = "transport" => pc[0] = "status") /\ Serial(n)
    \/ pc[0] = "drained" /\ pc[1] = "drained" /\ m \in {"verify", "forward"} /\ Serial(n)
    \/ pc[0] = "verifying" /\ pc[1] = "verifying" /\ m \in {"forward", "failed"}

\* While a request is served, and while one is waiting, rank 0 is not behind it.
Serving == pc[0] \in {"status", "transport", "drain", "drained"} /\ Serial(step[0])

\* What a step leaves of the variables of the connector, and of the request thread,
\* has its type.
ConnectorTyped ==
    /\ digest' \in [Ranks -> Contents] /\ digest'[1] = digest[1] /\ finished' \in Contents
    /\ active' \in Contents /\ mailbox' \in Contents \cup {-1} /\ records' \subseteq Steps
    /\ released' \subseteq Steps /\ closed' \in BOOLEAN
RequestTyped ==
    /\ req' \in Requesting /\ reqSeq' \in Contents /\ rows' \in Contents
    /\ mailbox' \in Contents \cup {-1} /\ enqueued' \in Contents /\ records' \subseteq Steps
    /\ completed' \subseteq Steps /\ error' \in BOOLEAN /\ (error => error')

-----------------------------------------------------------------------------
(* What the streams access.                                                *)

\* What stream s accesses when it has begun an operation, of the cursors.
Access0(d, n, k, w, r) ==
    \/ k = 0 /\ w = {"inputs"} /\ r = {}
    \/ n <= d /\ k = 1 /\ w = {"output0"} /\ r = {}
    \/ k = 4 /\ w = {} /\ r = {"output0"}

Access1(d, n, k, w, r) ==
    \/ n <= d /\ k = 0 /\ w = {"output1"} /\ r = {}
    \/ k = (IF n > d THEN 1 ELSE 3) /\ w = {} /\ r = {"output1"}
=============================================================================
