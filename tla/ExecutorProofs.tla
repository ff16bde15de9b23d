------------------------------ MODULE ExecutorProofs ------------------------------
(***************************************************************************)
(* Proofs about the multiprocess executor, for any set of ranks, any       *)
(* number of calls and every fault: when it reports a failure, and who     *)
(* gets which answer, though no message carries the number of its call.    *)
(***************************************************************************)
EXTENDS Executor, SequenceTheorems, TLAPS

-----------------------------------------------------------------------------
(* The report of a failure: its inductive invariant.                       *)

Stages == {"no", "enter", "mark", "close", "grace", "term", "responses", "queues", "done"}

Types ==
    /\ called \in Nat
    /\ stage \in [Threads -> Stages]
    /\ DOMAIN work = Ranks
    /\ closing \in [Ranks -> BOOLEAN]
    /\ isFailed \in BOOLEAN /\ shuttingDown \in BOOLEAN /\ callback \in BOOLEAN
    /\ pipe \in BOOLEAN /\ unexpected \in BOOLEAN

\* The callback is stored and called once: not before it is registered, and
\* not while it is still to be called.
CalledOnce ==
    /\ callback => called = 0
    /\ pc \in {"register", "store"} => ~callback /\ called = 0

\* The monitor and the callback speak of a failure that was declared.
Declared ==
    /\ monitor = "failed" => isFailed
    /\ called > 0 => isFailed
    /\ called <= 1

\* The parent drops the pipes, and a thread goes on to the signals, only after
\* shutting_down is set; the alternative is that the process is gone, and then
\* nobody watches.
Intended ==
    /\ \A t \in Threads :
          stage[t] \in {"close", "grace", "term", "responses"} => shuttingDown
    /\ ~pipe => shuttingDown \/ pc = "gone"
    /\ \A w \in Ranks : closing[w] => ~pipe
    /\ pc = "gone" => monitor = "done" /\ \A t \in Threads : stage[t] = "done"

\* A worker that has ended died, was told to, or lost its parent.
Explained ==
    /\ \A w \in Ranks : ~Alive(w) => unexpected \/ shuttingDown \/ pc = "gone"
    /\ isFailed => unexpected

IInv == Types /\ CalledOnce /\ Declared /\ Intended /\ Explained

-----------------------------------------------------------------------------
LEMMA Initially == Init => IInv
<1> SUFFICES ASSUME Init PROVE IInv
  OBVIOUS
<1> USE DEF Init
<1>1. Types
  BY DEF Types, Stages
<1>2. CalledOnce /\ Declared
  BY DEF CalledOnce, Declared
<1>3. Intended
  BY DEF Intended
<1>4. Explained
  BY DEF Explained, Alive, Loop, Exited
<1> QED
  BY <1>1, <1>2, <1>3, <1>4 DEF IInv

\* Steps that change nothing the invariant speaks of.
Watched == <<called, callback, isFailed, shuttingDown, stage, monitor, pipe, unexpected>>

\* The engine's steps between register_failure_callback and shutdown.
LEMMA EngineKeeps ==
    ASSUME IInv, UNCHANGED Watched, UNCHANGED <<work, closing>>,
           pc # "gone", pc' \notin {"register", "store", "gone"}
    PROVE  IInv'
BY DEF IInv, Watched, Types, CalledOnce, Declared, Intended, Explained, Alive

\* A worker goes on, or it ends for a reason.
LEMMA WorkersKeep ==
    ASSUME IInv, UNCHANGED Watched, UNCHANGED pc,
           DOMAIN work' = Ranks,
           closing' \in [Ranks -> BOOLEAN],
           \A w \in Ranks : closing'[w] => closing[w] \/ ~pipe,
           \A w \in Ranks : work'[w] = Exited =>
               work[w] = Exited \/ shuttingDown \/ pc = "gone"
    PROVE  IInv'
BY DEF IInv, Watched, Types, CalledOnce, Declared, Intended, Explained, Alive

-----------------------------------------------------------------------------
(* Registration, and the steps of shutdown().                              *)

LEMMA RegistrationKeeps ==
    ASSUME IInv, Register \/ Store
    PROVE  IInv'
<1> USE DEF IInv, shared, workers, rest
<1>1. CASE Register
  BY <1>1 DEF Register, Types, CalledOnce, Declared, Intended, Explained, Alive
<1>2. CASE Store
  BY <1>2 DEF Store, Types, CalledOnce, Declared, Intended, Explained, Alive
<1> QED
  BY <1>1, <1>2

\* Stop asks the engine thread to shut down.
LEMMA StopKeeps ==
    ASSUME IInv, Stop
    PROVE  IInv'
<1> USE DEF IInv, Stop, workers, rest
<1>1. /\ stage' = [stage EXCEPT !["engine"] = "enter"]
      /\ stage' \in [Threads -> Stages]
      /\ \A t \in Threads : stage'[t] = stage[t] \/ stage'[t] = "enter"
  BY DEF Types, Stages, Threads
<1>2. pc # "gone" /\ pc' = "stopping"
  OBVIOUS
<1>3. Types' /\ CalledOnce' /\ Declared'
  BY <1>1, <1>2 DEF Types, CalledOnce, Declared
<1>4. Intended' /\ Explained'
  BY <1>1, <1>2 DEF Intended, Explained, Alive
<1> QED
  BY <1>3, <1>4

\* A step of shutdown() takes its thread one stage on, and the stages that signal
\* follow the mark.
LEMMA StageMoves ==
    ASSUME IInv, NEW t \in Threads, NEW from \in Stages \ {"done"}, NEW to \in Stages, Step(t, from, to)
    PROVE  /\ stage' \in [Threads -> Stages]
           /\ stage[t] = from /\ stage'[t] = to
           /\ \A u \in Threads \ {t} : stage'[u] = stage[u]
           /\ pc # "gone"
BY DEF IInv, Types, Intended, Step

LEMMA ShutdownKeeps ==
    ASSUME IInv, NEW t \in Threads, Shutdown(t)
    PROVE  IInv'
<1> USE DEF IInv
<1> DEFINE Frame(from, to) ==
        /\ Step(t, from, to) /\ from \in Stages \ {"done"} /\ to \in Stages
        /\ UNCHANGED <<pc, isFailed, callback, called, monitor, closing, unexpected>>
<1>1. ASSUME NEW from, NEW to, Frame(from, to), UNCHANGED <<pipe, work>>,
             shuttingDown' \in BOOLEAN, shuttingDown => shuttingDown',
             to \in {"close", "grace", "term", "responses"} => shuttingDown'
      PROVE  IInv'
  <2>1. /\ stage' \in [Threads -> Stages]
        /\ stage[t] = from /\ stage'[t] = to
        /\ \A u \in Threads \ {t} : stage'[u] = stage[u]
        /\ pc # "gone"
    BY <1>1, StageMoves
  <2>2. Types' /\ CalledOnce' /\ Declared'
    BY <1>1, <2>1 DEF Types, CalledOnce, Declared
  <2>3. Intended' /\ Explained'
    BY <1>1, <2>1 DEF Types, Intended, Explained, Alive
  <2> QED
    BY <2>2, <2>3
<1>2. ASSUME NEW from \in {"close", "grace", "term"}, NEW to, Frame(from, to),
             UNCHANGED shuttingDown, pipe' \in BOOLEAN, DOMAIN work' = Ranks,
             pipe' => pipe
      PROVE  IInv'
  <2>1. /\ stage' \in [Threads -> Stages]
        /\ stage[t] = from /\ stage'[t] = to
        /\ \A u \in Threads \ {t} : stage'[u] = stage[u]
        /\ pc # "gone"
    BY <1>2, StageMoves
  <2>2. shuttingDown
    BY <1>2, <2>1 DEF Intended
  <2>3. Types' /\ CalledOnce' /\ Declared'
    BY <1>2, <2>1 DEF Types, CalledOnce, Declared
  <2>4. Intended' /\ Explained'
    BY <1>2, <2>1, <2>2 DEF Types, Intended, Explained, Alive
  <2> QED
    BY <2>3, <2>4
<1> USE DEF Stages, engine, workers, rest
<1>3. CASE Enter(t)
  BY <1>3, <1>1 DEF Enter, Types
<1>4. CASE Mark(t)
  BY <1>4, <1>1 DEF Mark, Types
<1>5. CASE CloseDeathWriters(t)
  BY <1>5, <1>2 DEF CloseDeathWriters, Types
<1>6. CASE Terminate(t)
  BY <1>6, <1>2 DEF Terminate, Exit, Types
<1>7. CASE Kill(t)
  BY <1>7, <1>2 DEF Kill, Exit, Types
<1>8. CASE CloseResponses(t)
  BY <1>8, <1>1 DEF CloseResponses, Types
<1>9. CASE CloseQueues(t)
  BY <1>9, <1>1 DEF CloseQueues, Types
<1> QED
  BY <1>3, <1>4, <1>5, <1>6, <1>7, <1>8, <1>9 DEF Shutdown

-----------------------------------------------------------------------------
(* The monitor and the faults.                                             *)

LEMMA MonitorKeeps ==
    ASSUME IInv, Notice \/ Report
    PROVE  IInv'
<1> USE DEF IInv, engine, workers, rest
<1>1. CASE Notice
  <2>1. pc # "gone" /\ monitor = "wait"
    BY <1>1 DEF Notice, Intended
  <2>2. CASE shuttingDown
    BY <1>1, <2>1, <2>2
       DEF Notice, Types, CalledOnce, Declared, Intended, Explained, Alive
  <2>3. CASE ~shuttingDown
    <3>1. unexpected
      BY <1>1, <2>1, <2>3 DEF Notice, Explained
    <3>2. /\ stage' \in [Threads -> Stages]
          /\ \A t \in Threads : stage'[t] = stage[t] \/ stage'[t] = "enter"
      BY <1>1, <2>3 DEF Notice, Types, Stages, Threads
    <3>3. Types' /\ CalledOnce' /\ Declared'
      BY <1>1, <2>3, <3>2 DEF Notice, Types, CalledOnce, Declared
    <3>4. Intended' /\ Explained'
      BY <1>1, <2>1, <2>3, <3>1, <3>2 DEF Notice, Intended, Explained, Alive
    <3> QED
      BY <3>3, <3>4
  <2> QED
    BY <2>2, <2>3
<1>2. CASE Report
  <2>1. /\ isFailed /\ pc # "gone" /\ callback' = FALSE /\ called' \in Nat
        /\ called' <= 1 /\ (pc \in {"register", "store"} => called' = 0)
    BY <1>2 DEF Report, Types, CalledOnce, Declared, Intended
  <2>2. Types' /\ CalledOnce' /\ Declared'
    BY <1>2, <2>1 DEF Report, Types, CalledOnce, Declared
  <2>3. Intended' /\ Explained'
    BY <1>2, <2>1 DEF Report, Intended, Explained, Alive
  <2> QED
    BY <2>2, <2>3
<1> QED
  BY <1>1, <1>2

LEMMA DiesKeeps ==
    ASSUME IInv, NEW w \in Ranks, Dies(w)
    PROVE  IInv'
<1>1. DOMAIN work' = Ranks /\ unexpected' \in BOOLEAN
  BY DEF IInv, Types, Dies, Exit
<1>2. unexpected => unexpected'
  BY DEF Dies
<1>3. unexpected' \/ shuttingDown
  BY DEF Dies
<1> QED
  BY <1>1, <1>2, <1>3
     DEF Dies, Exit, IInv, Types, CalledOnce, Declared, Intended, Explained, engine, shared

LEMMA EngineGoneKeeps ==
    ASSUME IInv, EngineGone
    PROVE  IInv'
<1>1. stage' \in [Threads -> Stages] /\ \A t \in Threads : stage'[t] = "done"
  BY DEF EngineGone, Stages
<1>2. Types' /\ CalledOnce' /\ Declared'
  BY <1>1 DEF EngineGone, IInv, Types, CalledOnce, Declared, workers
<1>3. Intended' /\ Explained'
  BY <1>1 DEF EngineGone, IInv, Intended, Explained, workers, Alive
<1> QED
  BY <1>2, <1>3 DEF IInv

-----------------------------------------------------------------------------
(* Calls are numbered from 1, so a worker that takes one is not taken for one *)
(* that has ended.                                                         *)

Queued == made \in Seq({"execute", "all"}) /\ inbox \in [Ranks -> Seq(Nat)]

LEMMA QueuesKept == Queued /\ [Next]_vars => Queued'
<1> SUFFICES ASSUME Queued, [Next]_vars PROVE Queued'
  OBVIOUS
<1> USE DEF Queued
<1>1. ASSUME NEW kind \in {"execute", "all"}, Call(kind)
      PROVE  Queued'
  <2>1. CASE UNCHANGED <<made, inbox>>
    BY <2>1
  <2>2. CASE ~UNCHANGED <<made, inbox>>
    <3>1. /\ made' = Append(made, kind)
          /\ inbox' = [w \in Ranks |-> Append(inbox[w], Len(made) + 1)]
      BY <1>1, <2>2 DEF Call
    <3>2. Len(made) + 1 \in Nat
      OBVIOUS
    <3>3. \A w \in Ranks : Append(inbox[w], Len(made) + 1) \in Seq(Nat)
      BY <3>2
    <3> QED
      BY <3>1, <3>3
  <2> QED
    BY <2>1, <2>2
<1>2. ASSUME NEW w \in Ranks, Take(w)
      PROVE  Queued'
  <2>1. Tail(inbox[w]) \in Seq(Nat)
    BY <1>2 DEF Take
  <2> QED
    BY <1>2, <2>1 DEF Take, engine
<1>3. CASE Register \/ Store \/ TakeResult \/ Drain \/ Read \/ ReadFails \/ Return \/ Stop
  BY <1>3 DEF Register, Store, TakeResult, Drain, Read, ReadFails, Return, Stop, workers
<1>4. CASE (\E t \in Threads : Shutdown(t)) \/ Notice \/ Report
  BY <1>4 DEF Shutdown, Enter, Mark, CloseDeathWriters, Terminate, Kill, CloseResponses,
     CloseQueues, Exit, Notice, Report, engine, workers
<1>5. CASE \E w \in Ranks : \/ Join(w) \/ Finish(w) \/ Raises(w) \/ Forward(w)
                             \/ DeathPipe(w) \/ WorkerExits(w) \/ Dies(w)
  BY <1>5 DEF Join, Finish, Raises, Forward, DeathPipe, WorkerExits, Dies, Exit, engine
<1>6. CASE EngineGone \/ UNCHANGED vars
  BY <1>6 DEF EngineGone, vars, engine, workers
<1> QED
  BY <1>1, <1>2, <1>3, <1>4, <1>5, <1>6 DEF Next, Done

LEMMA QueuesTyped == Spec => []Queued
<1>1. Init => Queued
  BY DEF Init, Queued
<1> QED
  BY <1>1, QueuesKept, PTL DEF Spec

-----------------------------------------------------------------------------
LEMMA StepKeeps == IInv /\ Queued /\ [Next]_vars => IInv'
<1> SUFFICES ASSUME IInv, Queued, [Next]_vars PROVE IInv'
  OBVIOUS
<1> USE DEF engine, shared, workers, rest, Watched
<1>1. CASE UNCHANGED vars
  BY <1>1 DEF vars, IInv, Types, CalledOnce, Declared, Intended, Explained, Alive
<1>2. CASE Register \/ Store \/ Stop
  BY <1>2, RegistrationKeeps, StopKeeps
<1>3. CASE (\E kind \in {"execute", "all"} : Call(kind)) \/ TakeResult \/ Drain \/ Read
             \/ ReadFails \/ Return
  <2>1. UNCHANGED Watched /\ UNCHANGED <<work, closing>>
    BY <1>3 DEF Call, TakeResult, Drain, Read, ReadFails, Return
  <2>2. pc # "gone" /\ pc' \notin {"register", "store", "gone"}
    BY <1>3 DEF Call, TakeResult, Drain, Read, ReadFails, Return, Resolve
  <2> QED
    BY <2>1, <2>2, EngineKeeps
<1>4. CASE \E t \in Threads : Shutdown(t)
  BY <1>4, ShutdownKeeps
<1>5. CASE Notice \/ Report
  BY <1>5, MonitorKeeps
<1>6. ASSUME NEW w \in Ranks,
             Take(w) \/ Join(w) \/ Finish(w) \/ Raises(w) \/ Forward(w) \/ DeathPipe(w)
               \/ WorkerExits(w)
      PROVE  IInv'
  <2>1. UNCHANGED Watched /\ UNCHANGED pc
    BY <1>6 DEF Take, Join, Finish, Raises, Forward, DeathPipe, WorkerExits
  <2>2. DOMAIN work' = Ranks
    BY <1>6 DEF Take, Join, Finish, Raises, Forward, DeathPipe, WorkerExits, Exit, IInv, Types
  <2>3. closing' \in [Ranks -> BOOLEAN] /\ \A v \in Ranks : closing'[v] => closing[v] \/ ~pipe
    BY <1>6 DEF Take, Join, Finish, Raises, Forward, DeathPipe, WorkerExits, Exit, IInv, Types
  <2>4. \A v \in Ranks : work'[v] = Exited =>
            work[v] = Exited \/ shuttingDown \/ pc = "gone"
    <3>1. CASE WorkerExits(w)
      BY <3>1 DEF WorkerExits, Exit, IInv, Intended
    <3>2. CASE Take(w)
      <4>1. Head(inbox[w]) \in Nat
        BY <3>2 DEF Take, Queued
      <4>2. \A v \in Ranks : v # w => work'[v] = work[v]
        BY <3>2 DEF Take
      <4>3. work'[w] = Head(inbox[w])
        BY <3>2 DEF Take, IInv, Types
      <4> QED
        BY <4>1, <4>2, <4>3 DEF Exited
    <3>3. CASE Join(w) \/ Forward(w) \/ DeathPipe(w)
      BY <3>3 DEF Join, Forward, DeathPipe
    <3>4. CASE Finish(w) \/ Raises(w)
      <4>1. work' = [work EXCEPT ![w] = Loop]
        BY <3>4 DEF Finish, Raises
      <4> QED
        BY <4>1 DEF Loop, Exited, IInv, Types
    <3> QED
      BY <1>6, <3>1, <3>2, <3>3, <3>4
  <2> QED
    BY <2>1, <2>2, <2>3, <2>4, WorkersKeep
<1>7. CASE \E w \in Ranks : Dies(w)
  BY <1>7, DiesKeeps
<1>8. CASE EngineGone
  BY <1>8, EngineGoneKeeps
<1> QED
  BY <1>1, <1>2, <1>3, <1>4, <1>5, <1>6, <1>7, <1>8 DEF Next, Done

\* The executor is declared failed and the failure callback is called only when a
\* worker died that nobody was shutting down, and once at most, whichever of the
\* two threads shuts down first and whenever the callback is registered
\* (register_failure_callback, monitor_workers, shutdown).
THEOREM AlarmIsTrue == Spec => []NoFalseAlarm
<1>1. IInv => NoFalseAlarm
  BY DEF IInv, Declared, Explained, NoFalseAlarm
<1> QED
  BY <1>1, Initially, StepKeeps, QueuesTyped, PTL DEF Spec

-----------------------------------------------------------------------------
(* The answers: the second inductive invariant.                            *)

Kinds == {"execute", "all"}
Answers == [call : Nat, ok : BOOLEAN, with : SUBSET Nat]
Results == [is : {"pending", "error", "value"}, got : Seq(Answers)]

Typed ==
    /\ pc \in {"register", "store", "idle", "drain", "read", "fatal", "stopping", "gone"}
    /\ monitor \in {"wait", "failed", "done"} /\ open \subseteq {"broadcast", "responses"}
    /\ async \in BOOLEAN
    /\ made \in Seq(Kinds) /\ result \in Seq(Results) /\ Len(result) = Len(made)
    /\ futures \in Seq(Nat) /\ flight \in Seq(Calls) /\ target \in Calls \cup {0}
    /\ reading \in [call : Nat, got : Seq(Answers)]
    /\ inbox \in [Ranks -> Seq(Nat)] /\ work \in [Ranks -> Nat \cup {Exited}]
    /\ joined \in [Ranks -> Seq(Nat)]
    /\ outq \in [Ranks -> Seq(Answers)] /\ answers \in [Ranks -> Seq(Answers)]

\* A queue of calls holds the last ones of n, in order.
IsTail(q, n) ==
    /\ Len(q) <= n
    /\ \A i \in 1..Len(q) : q[i] = n - Len(q) + i

Taken(w) == Len(made) - Len(inbox[w])     \* calls w has taken from its inbox
Drained  == Len(made) - Len(futures)      \* calls whose answers were waited for

\* What w has answered and nobody has read, oldest first
Q(w) == answers[w] \o outq[w]

Replies(w, c)   == \E i \in DOMAIN Repliers(c) : Repliers(c)[i] = w
HasJoined(w, c) == \E i \in DOMAIN joined[w] : joined[w][i] = c

\* w has left the step c without entering its collective.
Skipped(w, c) == /\ made[c] = "execute" /\ c <= Taken(w)
                 /\ ~HasJoined(w, c) /\ work[w] # c

\* No rank but the one that replies has done so, nor that one up to the call c.
NoneSkipped == \A w \in Ranks \ {OutputRank} : \A c \in Calls : ~Skipped(w, c)
Clean(c)    == NoneSkipped /\ \A b \in 1..c : ~Skipped(OutputRank, b)

\* The futures are those of the last calls; the answers of the one before them
\* are being read, or were.
Engine ==
    /\ IsTail(futures, Len(made))
    /\ reading.call # 0 => reading.call = Drained /\ Len(reading.got) < Len(Repliers(reading.call))
    /\ \A c \in Calls : result[c].is = "pending" <=> c > Drained \/ c = reading.call
    /\ pc = "read" => reading.call # 0
    /\ pc \notin {"read", "gone"} => reading = NoRead
    /\ pc \in {"drain", "read"} => target # 0

\* A worker takes the calls in order and enters their collectives in order.
InOrder(w) ==
    /\ IsTail(inbox[w], Len(made))
    /\ work[w] > 0 => work[w] = Taken(w)
    /\ \A i \in DOMAIN joined[w] : joined[w][i] \in 1..Taken(w) /\ made[joined[w][i]] = "execute"
    /\ \A i, j \in DOMAIN joined[w] : i < j => joined[w][i] < joined[w][j]

\* m answers a call w has done; computed by all ranks together, as long as no
\* rank fell out of step.
Honest(w, m) ==
    /\ m.call \in 1..Taken(w) /\ m.call # work[w] /\ Replies(w, m.call)
    /\ m.with \subseteq Calls
    /\ m.ok /\ made[m.call] = "execute" => HasJoined(w, m.call)
    /\ m.ok /\ (made[m.call] = "execute" => Clean(m.call)) => m.with = {m.call}

\* It answers them in order.
Answered(w) ==
    /\ ~async => outq[w] = <<>>
    /\ \A i, j \in DOMAIN Q(w) : i < j => Q(w)[i].call < Q(w)[j].call
    /\ \A i \in DOMAIN Q(w) : Honest(w, Q(w)[i])

\* The answer of w to the call c is still to be read.
Unread(w, c) ==
    \/ c > Drained /\ Replies(w, c)
    \/ /\ c = reading.call
       /\ \E i \in DOMAIN Repliers(c) : i > Len(reading.got) /\ Repliers(c)[i] = w

NoError == \A c \in Calls : result[c].is # "error"

\* Until a call fails, the queue of a worker holds exactly the unread answers to
\* the calls it has done.
Matched(w) ==
    /\ \A i \in DOMAIN Q(w) : Unread(w, Q(w)[i].call)
    /\ \A c \in Calls :
         Unread(w, c) /\ (c < Taken(w) \/ (c = Taken(w) /\ work[w] \notin {c, Exited}))
           => \E i \in DOMAIN Q(w) : Q(w)[i].call = c
    /\ \A c \in Calls : Replies(w, c) /\ (c > Taken(w) \/ c = work[w]) => Unread(w, c)

\* What was read is the answer to the call it is read for.
Good(m, c) == m.call = c /\ (NoneSkipped => m.with = {c})

FineTo(c) == \A b \in 1..c : result[b].is # "error"

Owned ==
    \A c \in Calls : result[c].is = "value" /\ FineTo(c) =>
        /\ Len(result[c].got) = Len(Repliers(c))
        /\ \A i \in DOMAIN result[c].got : Good(result[c].got[i], c)
        /\ made[c] = "execute" => HasJoined(OutputRank, c)

Reading == reading.call # 0 /\ NoError =>
    \A i \in DOMAIN reading.got : Good(reading.got[i], reading.call)

\* Ranks that skipped nothing are in the same collectives.
Aligned ==
    \A v, w \in Ranks : \A k \in DOMAIN joined[v] \cap DOMAIN joined[w] :
        Clean(joined[v][k]) /\ Clean(joined[w][k]) => joined[v][k] = joined[w][k]

AInv ==
    /\ Typed /\ Engine
    /\ \A w \in Ranks : InOrder(w) /\ Answered(w)
    /\ NoError => \A w \in Ranks : Matched(w)
    /\ Owned /\ Reading /\ Aligned

-----------------------------------------------------------------------------
(* Sequences, and what the operators above say of them.                    *)

LEMMA TailLemma ==
    ASSUME NEW S, NEW q \in Seq(S), q # <<>>
    PROVE  /\ Tail(q) \in Seq(S) /\ Len(q) >= 1 /\ Len(Tail(q)) = Len(q) - 1
           /\ \A i \in 1..Len(Tail(q)) : Tail(q)[i] = q[i + 1]
           /\ Head(q) = q[1] /\ Head(q) \in S
BY HeadTailProperties

LEMMA SplitLemma ==
    ASSUME NEW S, NEW q \in Seq(S), q # <<>>
    PROVE  q = <<Head(q)>> \o Tail(q)
<1>1. q = SubSeq(q, 1, Len(q)) /\ Len(q) \in Nat \ {0}
  BY SubSeqFull, EmptySeq
<1>2. SubSeq(q, 1, Len(q)) = <<q[1]>> \o SubSeq(q, 2, Len(q))
  BY <1>1, SubSeqRecursiveFirst
<1>3. Tail(q) = SubSeq(q, 2, Len(q)) /\ Head(q) = q[1]
  BY TailIsSubSeq, TailLemma
<1> QED
  BY <1>1, <1>2, <1>3

\* Taking the first of two queues, adding to them, and moving from one to the other
LEMMA QueueLemma ==
    ASSUME NEW S, NEW a \in Seq(S), NEW o \in Seq(S)
    PROVE  /\ a # <<>> => Tail(a) \o o = Tail(a \o o) /\ Head(a) = Head(a \o o) /\ a \o o # <<>>
           /\ o # <<>> => Append(a, Head(o)) \o Tail(o) = a \o o
           /\ \A e \in S : a \o Append(o, e) = Append(a \o o, e)
           /\ \A e \in S : o = <<>> => Append(a, e) \o o = Append(a \o o, e)
<1>1. ASSUME a # <<>>
      PROVE  Tail(a) \o o = Tail(a \o o) /\ Head(a) = Head(a \o o) /\ a \o o # <<>>
  <2> DEFINE h == Head(a)
             t == Tail(a) \o o
  <2>1. Tail(a) \in Seq(S) /\ h \in S /\ <<h>> \in Seq(S)
    BY <1>1, TailLemma
  <2>2. a \o o = <<h>> \o t
    BY <1>1, <2>1, SplitLemma, ConcatAssociative
  <2>3. t \in Seq(S)
    BY <2>1, ConcatProperties
  <2> HIDE DEF t, h
  <2>4. /\ <<h>> \o t \in Seq(S) /\ Len(<<h>> \o t) = Len(t) + 1
        /\ (<<h>> \o t)[1] = h
        /\ \A i \in 1..Len(t) : (<<h>> \o t)[i + 1] = t[i]
    <3>1. Len(<<h>>) = 1 /\ <<h>>[1] = h
      OBVIOUS
    <3> QED
      BY <2>1, <2>3, <3>1, ConcatProperties
  <2> DEFINE x == <<h>> \o t
  <2> HIDE DEF x
  <2>5. x # <<>> /\ Tail(x) = t /\ Head(x) = h
    <3>1. /\ x \in Seq(S) /\ Len(x) = Len(t) + 1 /\ x[1] = h
          /\ \A i \in 1..Len(t) : x[i + 1] = t[i]
      BY <2>4 DEF x
    <3>2. x # <<>>
      BY <2>3, <3>1
    <3>3. /\ Tail(x) \in Seq(S) /\ Len(Tail(x)) = Len(t)
          /\ \A i \in 1..Len(t) : Tail(x)[i] = t[i]
          /\ Head(x) = h
      BY <2>3, <3>1, <3>2, TailLemma
    <3>4. Tail(x) = t
      BY <2>3, <3>3, SeqEqual
    <3> QED
      BY <3>2, <3>3, <3>4
  <2> QED
    BY <2>2, <2>5 DEF x, t, h
<1>2. ASSUME o # <<>>
      PROVE  Append(a, Head(o)) \o Tail(o) = a \o o
  <2>1. Tail(o) \in Seq(S) /\ Head(o) \in S /\ <<Head(o)>> \in Seq(S)
    BY <1>2, TailLemma
  <2>2. Append(a, Head(o)) = a \o <<Head(o)>>
    BY <2>1, AppendIsConcat
  <2>3. (a \o <<Head(o)>>) \o Tail(o) = a \o (<<Head(o)>> \o Tail(o))
    BY <2>1, ConcatAssociative
  <2>4. o = <<Head(o)>> \o Tail(o)
    BY <1>2, SplitLemma
  <2> QED
    BY <2>2, <2>3, <2>4, Zenon
<1>3. ASSUME NEW e \in S
      PROVE  /\ a \o Append(o, e) = Append(a \o o, e)
             /\ o = <<>> => Append(a, e) \o o = Append(a \o o, e)
  <2>1. a \o o \in Seq(S) /\ <<e>> \in Seq(S)
    BY ConcatProperties
  <2>2. Append(o, e) = o \o <<e>> /\ Append(a \o o, e) = (a \o o) \o <<e>>
    BY <2>1, AppendIsConcat
  <2>3. (a \o o) \o <<e>> = a \o (o \o <<e>>)
    BY <2>1, ConcatAssociative
  <2>4. ASSUME o = <<>>
        PROVE  Append(a, e) \o o = Append(a \o o, e)
    <3>1. a \o o = a /\ Append(a, e) \in Seq(S)
      BY <2>4, ConcatEmptySeq, AppendProperties
    <3>2. Append(a, e) \o o = Append(a, e)
      BY <2>4, <3>1, ConcatEmptySeq
    <3> QED
      BY <3>1, <3>2
  <2> QED
    BY <2>2, <2>3, <2>4
<1> QED
  BY <1>1, <1>2, <1>3

LEMMA QueueAppend ==
    ASSUME NEW S, NEW a \in Seq(S), NEW o \in Seq(S), NEW e \in S
    PROVE  /\ a \o Append(o, e) = Append(a \o o, e)
           /\ o = <<>> => Append(a, e) \o o = Append(a \o o, e)
BY QueueLemma

LEMMA TailGrows ==
    ASSUME NEW n \in Nat, NEW q \in Seq(Nat), IsTail(q, n)
    PROVE  /\ IsTail(Append(q, n + 1), n + 1)
           /\ Append(q, n + 1) \in Seq(Nat)
           /\ Len(Append(q, n + 1)) = Len(q) + 1 /\ Len(q) \in 0..n
<1> DEFINE p == Append(q, n + 1)
<1>1. /\ p \in Seq(Nat) /\ Len(p) = Len(q) + 1 /\ Len(q) \in Nat
      /\ \A i \in 1..Len(q) : p[i] = q[i]
      /\ p[Len(q) + 1] = n + 1
  BY AppendProperties
<1> HIDE DEF p
<1>2. Len(q) <= n /\ \A i \in 1..Len(q) : q[i] = n - Len(q) + i
  BY DEF IsTail
<1>3. ASSUME NEW i \in 1..Len(p)
      PROVE  p[i] = n + 1 - Len(p) + i
  <2>1. CASE i \in 1..Len(q)
    BY <1>1, <1>2, <2>1
  <2>2. CASE i = Len(q) + 1
    BY <1>1, <2>2
  <2> QED
    BY <1>1, <2>1, <2>2
<1>4. IsTail(p, n + 1)
  BY <1>1, <1>2, <1>3 DEF IsTail
<1> QED
  BY <1>1, <1>2, <1>4 DEF p

LEMMA TailShrinks ==
    ASSUME NEW n \in Nat, NEW q \in Seq(Nat), IsTail(q, n), q # <<>>
    PROVE  /\ IsTail(Tail(q), n) /\ Tail(q) \in Seq(Nat)
           /\ Head(q) = n - Len(q) + 1
           /\ Len(Tail(q)) = Len(q) - 1 /\ Len(q) \in 1..n
<1> DEFINE p == Tail(q)
<1>1. /\ p \in Seq(Nat) /\ Len(p) = Len(q) - 1 /\ Len(q) \in Nat /\ Len(q) >= 1
      /\ \A i \in 1..Len(p) : p[i] = q[i + 1]
      /\ Head(q) = q[1]
  BY TailLemma, LenProperties
<1> HIDE DEF p
<1>2. Len(q) <= n /\ \A i \in 1..Len(q) : q[i] = n - Len(q) + i
  BY DEF IsTail
<1>3. ASSUME NEW i \in 1..Len(p)
      PROVE  p[i] = n - Len(p) + i
  <2>1. i + 1 \in 1..Len(q)
    BY <1>1
  <2>2. q[i + 1] = n - Len(q) + (i + 1)
    BY <1>2, <2>1
  <2> QED
    BY <1>1, <2>2
<1>4. IsTail(p, n)
  BY <1>1, <1>2, <1>3 DEF IsTail
<1>5. q[1] = n - Len(q) + 1
  BY <1>1, <1>2
<1> QED
  BY <1>1, <1>2, <1>4, <1>5 DEF p

LEMMA RepliersLemma ==
    ASSUME NEW c
    PROVE  /\ Len(Repliers(c)) \in Nat \ {0} /\ DOMAIN Repliers(c) = 1..Len(Repliers(c))
           /\ \A i \in DOMAIN Repliers(c) : Repliers(c)[i] \in Ranks
           /\ \A i, j \in DOMAIN Repliers(c) : Repliers(c)[i] = Repliers(c)[j] => i = j
           /\ made[c] = "execute" => Repliers(c) = <<OutputRank>>
<1>1. CASE made[c] = "execute"
  <2>1. Repliers(c) = <<OutputRank>>
    BY <1>1 DEF Repliers
  <2> QED
    BY <2>1, RankAssumption
<1>2. CASE made[c] # "execute"
  <2> DEFINE s == [i \in 1..WorldSize |-> i - 1]
  <2>1. Repliers(c) = s
    BY <1>2 DEF Repliers
  <2>2. WorldSize \in Nat /\ WorldSize >= 1
    BY RankAssumption DEF Ranks
  <2>3. Len(s) = WorldSize /\ DOMAIN s = 1..WorldSize
    BY <2>2
  <2>4. \A i \in DOMAIN s : s[i] = i - 1 /\ s[i] \in Ranks
    BY <2>2 DEF Ranks
  <2> HIDE DEF s
  <2>5. \A i, j \in DOMAIN s : s[i] = s[j] => i = j
    BY <2>2, <2>3, <2>4
  <2> QED
    BY <1>2, <2>1, <2>2, <2>3, <2>4, <2>5
<1> QED
  BY <1>1, <1>2

LEMMA InitiallyAnswered == Init => AInv
<1> SUFFICES ASSUME Init PROVE AInv
  OBVIOUS
<1>0. made = <<>> /\ Calls = {} /\ Len(made) = 0
  BY DEF Init, Calls
<1>1. Typed
  <2>1. async \in BOOLEAN
    BY ModeAssumption DEF Init
  <2>2. \A S : <<>> \in Seq(S)
    OBVIOUS
  <2> QED
    BY <1>0, <2>1, <2>2 DEF Init, Typed, NoRead, Loop
<1>2. Engine
  BY <1>0 DEF Init, Engine, IsTail, NoRead
<1>3. ASSUME NEW w \in Ranks
      PROVE  InOrder(w) /\ Answered(w) /\ Matched(w)
  <2>1. inbox[w] = <<>> /\ work[w] = 0 /\ joined[w] = <<>> /\ outq[w] = <<>> /\ answers[w] = <<>>
    BY DEF Init, Loop
  <2>2. Q(w) = <<>>
    BY <2>1, ConcatEmptySeq DEF Q
  <2> QED
    BY <1>0, <2>1, <2>2 DEF InOrder, Answered, Matched, IsTail
<1>4. Owned /\ Reading
  BY <1>0 DEF Init, Owned, Reading, NoRead
<1>5. Aligned
  BY <1>0 DEF Init, Aligned
<1> QED
  BY <1>1, <1>2, <1>3, <1>4, <1>5 DEF AInv

-----------------------------------------------------------------------------
(* Types.                                                                  *)

LEMMA CallsLemma ==
    ASSUME Typed
    PROVE  Len(made) \in Nat /\ Calls = 1..Len(made) /\ DOMAIN result = Calls
BY DEF Typed, Calls

LEMMA AnswerTyped ==
    ASSUME Typed, NEW w \in Ranks, NEW ok \in BOOLEAN, NEW with \in SUBSET Nat,
           work[w] > 0, Answer(w, ok, with)
    PROVE  outq' \in [Ranks -> Seq(Answers)] /\ answers' \in [Ranks -> Seq(Answers)]
<1> DEFINE a == [call |-> work[w], ok |-> ok, with |-> with]
<1>1. a \in Answers
  BY DEF Typed, Answers, Exited
<1>2. Append(outq[w], a) \in Seq(Answers) /\ Append(answers[w], a) \in Seq(Answers)
  BY <1>1, AppendProperties DEF Typed
<1> HIDE DEF a
<1>3. \/ UNCHANGED <<outq, answers>>
      \/ outq' = [outq EXCEPT ![w] = Append(outq[w], a)] /\ UNCHANGED answers
      \/ answers' = [answers EXCEPT ![w] = Append(answers[w], a)] /\ UNCHANGED outq
  BY DEF Answer, a
<1> QED
  BY <1>2, <1>3 DEF Typed

LEMMA TypedKept ==
    ASSUME Typed, Engine, [Next]_vars
    PROVE  Typed'
<1> USE DEF engine, shared, workers, rest
<1>0. Len(made) \in Nat /\ Calls = 1..Len(made)
  BY CallsLemma
<1>1. ASSUME NEW kind \in Kinds, Call(kind)
      PROVE  Typed'
  <2>1. CASE UNCHANGED made
    BY <1>1, <2>1 DEF Call, Typed, Calls
  <2>2. CASE made' # made
    <3> DEFINE c == Len(made) + 1
    <3>1. /\ made' = Append(made, kind)
          /\ inbox' = [w \in Ranks |-> Append(inbox[w], c)]
          /\ futures' = Append(futures, c)
          /\ result' = Append(result, Pending)
          /\ \/ flight' = Append(flight, c) /\ UNCHANGED <<pc, target>>
             \/ pc' = "drain" /\ target' = c /\ UNCHANGED flight
          /\ UNCHANGED <<reading, monitor, open, async, work, joined, outq, answers>>
      BY <1>1, <2>2 DEF Call
    <3>2. made' \in Seq(Kinds) /\ Len(made') = c /\ Calls' = 1..c
      BY <1>0, <3>1, AppendProperties DEF Typed, Calls
    <3>3. Pending \in Results
      BY DEF Pending, Results
    <3>4. result' \in Seq(Results) /\ Len(result') = Len(made')
      BY <3>1, <3>2, <3>3, AppendProperties DEF Typed
    <3>5. futures' \in Seq(Nat) /\ inbox' \in [Ranks -> Seq(Nat)]
      <4>1. \A w \in Ranks : Append(inbox[w], c) \in Seq(Nat)
        BY <1>0 DEF Typed
      <4> QED
        BY <1>0, <3>1, <4>1 DEF Typed
    <3>6. flight \in Seq(1..c) /\ target \in 1..c \cup {0}
      BY <1>0, SeqMonotonic DEF Typed
    <3>7. flight' \in Seq(1..c) /\ target' \in 1..c \cup {0}
      <4>1. c \in 1..c /\ Append(flight, c) \in Seq(1..c)
        BY <1>0, <3>6, AppendProperties
      <4> QED
        BY <3>1, <3>6, <4>1
    <3> QED
      BY <3>1, <3>2, <3>4, <3>5, <3>7 DEF Typed
  <2> QED
    BY <2>1, <2>2
<1>2. CASE Register \/ Store \/ Stop \/ Notice \/ Report \/ (\E t \in Threads : Enter(t) \/ Mark(t)
             \/ CloseDeathWriters(t) \/ CloseResponses(t) \/ CloseQueues(t)) \/ EngineGone
             \/ (\E w \in Ranks : DeathPipe(w)) \/ Done \/ UNCHANGED vars
  <2>1. UNCHANGED <<async, made, result, futures, flight, target, reading, inbox, work, joined,
                    outq, answers>>
    BY <1>2 DEF Register, Store, Stop, Notice, Report, Enter, Mark, CloseDeathWriters,
       CloseResponses, CloseQueues, EngineGone, DeathPipe, Done, vars
  <2>2. pc' \in {pc, "idle", "store", "stopping", "gone"}
    BY <1>2 DEF Register, Store, Stop, Notice, Report, Enter, Mark, CloseDeathWriters,
       CloseResponses, CloseQueues, EngineGone, DeathPipe, Done, vars
  <2>3. monitor' \in {monitor, "failed", "done"} /\ open' \subseteq open
    BY <1>2 DEF Register, Store, Stop, Notice, Report, Enter, Mark, CloseDeathWriters,
       CloseResponses, CloseQueues, EngineGone, DeathPipe, Done, vars
  <2> QED
    BY <2>1, <2>2, <2>3 DEF Typed, Calls
<1>3. CASE TakeResult
  <2>1. Head(flight) \in Calls /\ Tail(flight) \in Seq(Calls)
    BY <1>3, TailLemma DEF TakeResult, Typed
  <2> QED
    BY <1>3, <2>1 DEF TakeResult, Typed, Calls
<1>4. CASE Return
  BY <1>4 DEF Return, Typed, Calls
<1>5. CASE Drain
  <2>1. futures # <<>>
    <3>1. target \in Calls /\ result[target].is = "pending" /\ reading = NoRead
      BY <1>5 DEF Drain, Engine, Typed
    <3>2. target > Drained
      BY <1>0, <3>1 DEF Engine, NoRead
    <3> QED
      BY <1>0, <3>1, <3>2 DEF Drained, Typed
  <2>2. Head(futures) \in Nat /\ Tail(futures) \in Seq(Nat)
    BY <2>1, TailLemma DEF Typed
  <2>3. [call |-> Head(futures), got |-> <<>>] \in [call : Nat, got : Seq(Answers)]
    BY <2>2
  <2> QED
    BY <1>5, <2>2, <2>3 DEF Drain, Typed, Calls
<1>6. CASE Read \/ ReadFails
  <2>1. NoRead \in [call : Nat, got : Seq(Answers)]
    BY DEF NoRead
  <2>2. ASSUME NEW value \in {"error", "value"}, NEW got \in Seq(Answers), Resolve(value, got)
        PROVE  result' \in Seq(Results) /\ Len(result') = Len(result) /\ reading' = NoRead /\ pc' = "drain"
    <3>1. [is |-> value, got |-> got] \in Results
      BY DEF Results
    <3>2. CASE reading.call \in 1..Len(result)
      BY <2>2, <3>1, <3>2, ExceptSeq DEF Resolve, Typed
    <3>3. CASE reading.call \notin 1..Len(result)
      <4>1. result' = result
        BY <2>2, <3>3 DEF Resolve, Typed
      <4> QED
        BY <2>2, <4>1 DEF Resolve, Typed
    <3> QED
      BY <3>2, <3>3
  <2>3. CASE Read
    <3>0. /\ From \in Ranks /\ answers[From] # <<>>
          /\ answers' = [answers EXCEPT ![From] = Tail(answers[From])]
      <4>1. reading.call # 0 /\ Len(reading.got) < Len(Repliers(reading.call))
        BY <2>3 DEF Read, Engine
      <4> QED
        BY <2>3, <4>1, RepliersLemma DEF Read, From, Typed
    <3>1. Tail(answers[From]) \in Seq(Answers) /\ Head(answers[From]) \in Answers
      BY <3>0, TailLemma DEF Typed
    <3>2. answers' \in [Ranks -> Seq(Answers)]
      BY <3>0, <3>1 DEF Typed
    <3>3. Append(reading.got, Head(answers[From])) \in Seq(Answers) /\ <<>> \in Seq(Answers)
      BY <3>1, AppendProperties DEF Typed
    <3> DEFINE g == Append(reading.got, Head(answers[From]))
    <3>4. \/ \E value \in {"error", "value"} : \E got \in Seq(Answers) : Resolve(value, got)
          \/ reading' = [reading EXCEPT !.got = g] /\ UNCHANGED <<pc, result>>
      BY <2>3, <3>3 DEF Read
    <3>5. [reading EXCEPT !.got = g] \in [call : Nat, got : Seq(Answers)]
      BY <3>3 DEF Typed
    <3> HIDE DEF g
    <3>6. /\ result' \in Seq(Results) /\ Len(result') = Len(result)
          /\ reading' \in [call : Nat, got : Seq(Answers)]
          /\ pc' \in {pc, "drain"}
      BY <2>1, <2>2, <3>4, <3>5 DEF Typed
    <3> QED
      BY <2>3, <3>2, <3>6 DEF Read, Typed, Calls
  <2>4. CASE ReadFails
    <3>1. result' \in Seq(Results) /\ Len(result') = Len(result) /\ reading' = NoRead /\ pc' = "drain"
      <4>1. <<>> \in Seq(Answers) /\ Resolve("error", <<>>)
        BY <2>4 DEF ReadFails
      <4> QED
        BY <2>2, <4>1
    <3> QED
      BY <2>1, <2>4, <3>1 DEF ReadFails, Typed, Calls
  <2> QED
    BY <1>6, <2>3, <2>4
<1>7. ASSUME NEW S, Exit(S), UNCHANGED <<engine, monitor, open, async>>
      PROVE  Typed'
  BY <1>7 DEF Exit, Typed, Calls, Exited
<1>8. CASE (\E t \in Threads : Terminate(t) \/ Kill(t)) \/ (\E w \in Ranks : WorkerExits(w) \/ Dies(w))
  <2>1. \E S : Exit(S) /\ UNCHANGED <<engine, monitor, open, async>>
    BY <1>8 DEF Terminate, Kill, WorkerExits, Dies
  <2> QED
    BY <1>7, <2>1
<1>9. ASSUME NEW w \in Ranks, Take(w) \/ Join(w) \/ Finish(w) \/ Raises(w) \/ Forward(w)
      PROVE  Typed'
  <2>1. CASE Take(w)
    <3>1. Head(inbox[w]) \in Nat /\ Tail(inbox[w]) \in Seq(Nat)
      BY <2>1, TailLemma DEF Take, Typed
    <3> QED
      BY <2>1, <3>1 DEF Take, Typed, Calls
  <2>2. CASE Join(w)
    <3>1. Append(joined[w], work[w]) \in Seq(Nat)
      BY <2>2, AppendProperties DEF Join, Busy, Typed, Exited
    <3> QED
      BY <2>2, <3>1 DEF Join, Typed, Calls
  <2>3. CASE Finish(w)
    <3>1. \E with \in SUBSET Nat : Answer(w, TRUE, with)
      <4>1. CASE made[work[w]] # "execute"
        <5>1. {work[w]} \in SUBSET Nat
          BY <2>3 DEF Finish, Busy, Typed, Exited
        <5> QED
          BY <2>3, <4>1, <5>1 DEF Finish
      <4>2. CASE made[work[w]] = "execute"
        <5> DEFINE k == Len(joined[w])
        <5>1. /\ k \in Nat /\ k >= 1 /\ \A v \in Ranks : Len(joined[v]) >= k
              /\ Answer(w, TRUE, {joined[v][k] : v \in Ranks})
          <6>1. joined[w] # <<>> /\ joined[w] \in Seq(Nat)
            BY <2>3, <4>2 DEF Finish, Waiting, Typed
          <6>2. k \in Nat /\ k >= 1
            BY <6>1, EmptySeq
          <6>3. (\A v \in Ranks : Len(joined[v]) >= k) /\ Answer(w, TRUE, {joined[v][k] : v \in Ranks})
            BY <2>3, <4>2 DEF Finish
          <6> QED
            BY <6>2, <6>3
        <5>2. ASSUME NEW v \in Ranks PROVE joined[v][k] \in Nat
          <6>1. joined[v] \in Seq(Nat)
            BY DEF Typed
          <6>2. k \in 1..Len(joined[v])
            <7>1. Len(joined[v]) \in Nat /\ Len(joined[v]) >= k
              BY <5>1, <6>1, LenProperties
            <7> HIDE DEF k
            <7> QED
              BY <5>1, <7>1
          <6> QED
            BY <6>1, <6>2, ElementOfSeq
        <5> QED
          BY <5>1, <5>2
      <4> QED
        BY <4>1, <4>2
    <3>2. outq' \in [Ranks -> Seq(Answers)] /\ answers' \in [Ranks -> Seq(Answers)]
      BY <2>3, <3>1, AnswerTyped DEF Finish, Busy
    <3> QED
      BY <2>3, <3>2 DEF Finish, Typed, Calls, Loop
  <2>4. CASE Raises(w)
    <3>1. outq' \in [Ranks -> Seq(Answers)] /\ answers' \in [Ranks -> Seq(Answers)]
      <4>1. {} \in SUBSET Nat
        OBVIOUS
      <4> QED
        BY <2>4, <4>1, AnswerTyped DEF Raises, Busy
    <3> QED
      BY <2>4, <3>1 DEF Raises, Typed, Calls, Loop
  <2>5. CASE Forward(w)
    <3>1. Append(answers[w], Head(outq[w])) \in Seq(Answers) /\ Tail(outq[w]) \in Seq(Answers)
      BY <2>5, TailLemma, AppendProperties DEF Forward, Typed
    <3> QED
      BY <2>5, <3>1 DEF Forward, Typed, Calls
  <2> QED
    BY <1>9, <2>1, <2>2, <2>3, <2>4, <2>5
<1> QED
  BY <1>1, <1>2, <1>3, <1>4, <1>5, <1>6, <1>8, <1>9 DEF Next, Shutdown, Kinds

-----------------------------------------------------------------------------
(* What no step undoes: a call made, a collective entered or left out.     *)

Onward ==
    /\ Len(made) <= Len(made')
    /\ \A c \in Calls : made'[c] = made[c]
    /\ \A w \in Ranks : \A c \in Calls : HasJoined(w, c) => HasJoined(w, c)'
    /\ \A w \in Ranks : \A c \in Calls : Skipped(w, c) => Skipped(w, c)'

LEMMA HeadOfInbox ==
    ASSUME Typed, NEW w \in Ranks, InOrder(w), inbox[w] # <<>>
    PROVE  /\ Head(inbox[w]) = Taken(w) + 1
           /\ Taken(w) \in Nat /\ Taken(w) + 1 \in Calls
           /\ Len(inbox[w]) \in Nat /\ Len(Tail(inbox[w])) = Len(inbox[w]) - 1
           /\ IsTail(Tail(inbox[w]), Len(made))
<1>1. inbox[w] \in Seq(Nat) /\ Len(made) \in Nat /\ Calls = 1..Len(made)
  BY CallsLemma DEF Typed
<1>2. IsTail(inbox[w], Len(made))
  BY DEF InOrder
<1>3. /\ IsTail(Tail(inbox[w]), Len(made)) /\ Head(inbox[w]) = Len(made) - Len(inbox[w]) + 1
      /\ Len(Tail(inbox[w])) = Len(inbox[w]) - 1 /\ Len(inbox[w]) \in 1..Len(made)
  BY <1>1, <1>2, TailShrinks
<1>4. Taken(w) = Len(made) - Len(inbox[w])
  BY DEF Taken
<1>5. Taken(w) \in Nat /\ Taken(w) + 1 \in 1..Len(made)
  BY <1>1, <1>3, <1>4
<1>6. Head(inbox[w]) = Taken(w) + 1
  BY <1>1, <1>3, <1>4
<1>7. Len(inbox[w]) \in Nat
  BY <1>1
<1> QED
  BY <1>1, <1>3, <1>5, <1>6, <1>7

LEMMA TakenLemma ==
    ASSUME Typed, NEW w \in Ranks, InOrder(w)
    PROVE  /\ Taken(w) \in 0..Len(made) /\ Len(made) \in Nat /\ Calls = 1..Len(made)
           /\ work[w] \in 0..Taken(w) \cup {Exited}
<1>1. Len(made) \in Nat /\ Calls = 1..Len(made) /\ Len(inbox[w]) \in Nat
  BY CallsLemma DEF Typed
<1>2. Taken(w) \in 0..Len(made)
  BY <1>1 DEF InOrder, IsTail, Taken
<1> QED
  BY <1>1, <1>2 DEF InOrder, Typed, Exited

LEMMA StepsGoOn ==
    ASSUME Typed, \A w \in Ranks : InOrder(w), [Next]_vars
    PROVE  Onward
<1> USE DEF engine, shared, workers, rest
<1>0. Len(made) \in Nat /\ Calls = 1..Len(made)
  BY CallsLemma
<1>1. CASE UNCHANGED <<made, inbox, joined, work>>
  BY <1>0, <1>1 DEF Onward, HasJoined, Skipped, Taken
<1>2. ASSUME NEW kind \in Kinds, Call(kind), made' # made
      PROVE  Onward
  <2>1. /\ made' = Append(made, kind)
        /\ inbox' = [w \in Ranks |-> Append(inbox[w], Len(made) + 1)]
        /\ UNCHANGED <<joined, work>>
    BY <1>2 DEF Call
  <2>2. Len(made') = Len(made) + 1 /\ \A c \in Calls : made'[c] = made[c]
    BY <1>0, <2>1, AppendProperties DEF Typed
  <2>3. ASSUME NEW w \in Ranks PROVE Taken(w)' = Taken(w)
    <3>1. inbox'[w] = Append(inbox[w], Len(made) + 1) /\ inbox[w] \in Seq(Nat) /\ Len(made) + 1 \in Nat
      BY <1>0, <2>1 DEF Typed
    <3>2. Len(inbox'[w]) = Len(inbox[w]) + 1
      BY <3>1, AppendProperties
    <3>3. Len(inbox[w]) \in Nat
      BY <3>1
    <3> QED
      BY <1>0, <2>2, <3>2, <3>3 DEF Taken
  <2> QED
    BY <1>0, <2>1, <2>2, <2>3 DEF Onward, HasJoined, Skipped
<1>3. ASSUME NEW w \in Ranks, Take(w)
      PROVE  Onward
  <2>1. /\ Head(inbox[w]) = Taken(w) + 1 /\ Taken(w) \in Nat
        /\ Len(Tail(inbox[w])) = Len(inbox[w]) - 1
    BY <1>3, HeadOfInbox DEF Take
  <2>2. /\ UNCHANGED <<made, joined>>
        /\ \A v \in Ranks \ {w} : inbox'[v] = inbox[v] /\ work'[v] = work[v]
        /\ inbox'[w] = Tail(inbox[w]) /\ work'[w] = Head(inbox[w])
    BY <1>3 DEF Take, Typed
  <2>3. Taken(w)' = Taken(w) + 1
    <3>1. Len(inbox[w]) \in Nat
      BY DEF Typed
    <3>2. Len(inbox'[w]) = Len(inbox[w]) - 1 /\ Len(made') = Len(made)
      BY <2>1, <2>2
    <3> QED
      BY <1>0, <3>1, <3>2 DEF Taken
  <2>4. \A v \in Ranks \ {w} : Taken(v)' = Taken(v)
    BY <2>2 DEF Taken
  <2>5. \A v \in Ranks : \A c \in Calls : HasJoined(v, c)' <=> HasJoined(v, c)
    BY <2>2 DEF HasJoined
  <2>6. \A c \in Calls : Skipped(w, c) => Skipped(w, c)'
    BY <1>0, <2>1, <2>2, <2>3, <2>5 DEF Skipped
  <2>7. \A v \in Ranks \ {w} : \A c \in Calls : Skipped(v, c) => Skipped(v, c)'
    BY <2>2, <2>4, <2>5 DEF Skipped
  <2> QED
    BY <1>0, <2>2, <2>5, <2>6, <2>7 DEF Onward
<1>4. ASSUME NEW w \in Ranks, Join(w)
      PROVE  Onward
  <2>1. /\ UNCHANGED <<made, inbox, work>>
        /\ \A v \in Ranks \ {w} : joined'[v] = joined[v]
        /\ joined'[w] = Append(joined[w], work[w])
    BY <1>4 DEF Join, Typed
  <2>2. /\ Len(joined'[w]) = Len(joined[w]) + 1
        /\ \A i \in 1..Len(joined[w]) : joined'[w][i] = joined[w][i]
        /\ joined'[w][Len(joined[w]) + 1] = work[w]
        /\ DOMAIN joined[w] = 1..Len(joined[w]) /\ DOMAIN joined'[w] = 1..Len(joined[w]) + 1
        /\ Len(joined[w]) \in Nat
    <3>1. work[w] \in Nat /\ joined[w] \in Seq(Nat)
      BY <1>4 DEF Join, Busy, Typed, Exited
    <3> QED
      BY <2>1, <3>1, AppendProperties, LenProperties
  <2>3. \A c \in Calls : HasJoined(w, c)' <=> HasJoined(w, c) \/ c = work[w]
    <3> DEFINE n == Len(joined[w])
    <3>1. n \in Nat /\ DOMAIN joined[w] = 1..n /\ DOMAIN joined'[w] = 1..n + 1
      BY <2>2
    <3>2. (\A i \in 1..n : joined'[w][i] = joined[w][i]) /\ joined'[w][n + 1] = work[w]
      BY <2>2
    <3> HIDE DEF n
    <3>3. (\A i \in 1..n : i \in 1..n + 1) /\ n + 1 \in 1..n + 1
      BY <3>1
    <3>4. \A i \in 1..n + 1 : i \in 1..n \/ i = n + 1
      BY <3>1
    <3> QED
      BY <3>1, <3>2, <3>3, <3>4 DEF HasJoined
  <2>4. \A v \in Ranks \ {w} : \A c \in Calls : HasJoined(v, c)' <=> HasJoined(v, c)
    BY <2>1 DEF HasJoined
  <2> QED
    BY <1>0, <2>1, <2>3, <2>4 DEF Onward, Skipped, Taken
<1>5. ASSUME UNCHANGED <<made, inbox, joined>>,
             \A w \in Ranks : work'[w] \in {work[w], Loop, Exited}
      PROVE  Onward
  BY <1>0, <1>5 DEF Onward, Skipped, HasJoined, Taken, Loop, Exited
<1>6. ASSUME NEW w \in Ranks, Finish(w) \/ Raises(w)
      PROVE  Onward
  <2>1. UNCHANGED <<made, inbox, joined>> /\ work' = [work EXCEPT ![w] = Loop]
    BY <1>6 DEF Finish, Raises
  <2> QED
    BY <1>5, <2>1 DEF Typed
<1>7. ASSUME NEW S, Exit(S), UNCHANGED engine
      PROVE  Onward
  BY <1>5, <1>7 DEF Exit
<1>8. CASE (\E t \in Threads : Terminate(t) \/ Kill(t)) \/ (\E w \in Ranks : WorkerExits(w) \/ Dies(w))
  <2>1. \E S : Exit(S) /\ UNCHANGED engine
    BY <1>8 DEF Terminate, Kill, WorkerExits, Dies
  <2> QED
    BY <1>7, <2>1
<1>9. CASE Register \/ Store \/ TakeResult \/ Drain \/ Read \/ ReadFails \/ Return \/ Stop \/ Notice
             \/ Report \/ (\E t \in Threads : Enter(t) \/ Mark(t) \/ CloseDeathWriters(t)
             \/ CloseResponses(t) \/ CloseQueues(t)) \/ EngineGone
             \/ (\E w \in Ranks : DeathPipe(w) \/ Forward(w)) \/ Done \/ UNCHANGED vars
  <2>1. UNCHANGED <<made, inbox, joined, work>>
    BY <1>9 DEF Register, Store, TakeResult, Drain, Read, ReadFails, Return, Stop, Notice, Report,
       Enter, Mark, CloseDeathWriters, CloseResponses, CloseQueues, EngineGone, DeathPipe, Forward,
       Done, vars
  <2> QED
    BY <1>1, <2>1
<1>10. ASSUME NEW kind \in Kinds, Call(kind), made' = made
       PROVE  UNCHANGED <<made, inbox, joined, work>>
  <2>1. made' # Append(made, kind)
    BY <1>0, <1>10, AppendProperties DEF Typed
  <2> QED
    BY <1>10, <2>1 DEF Call
<1> QED
  BY <1>1, <1>2, <1>3, <1>4, <1>6, <1>8, <1>9, <1>10 DEF Next, Shutdown, Kinds

LEMMA OnwardLemma ==
    ASSUME Typed, Typed', Onward
    PROVE  /\ Calls \subseteq Calls'
           /\ \A c \in Calls : Repliers(c)' = Repliers(c)
           /\ \A w : \A c \in Calls : Replies(w, c)' <=> Replies(w, c)
           /\ NoneSkipped' => NoneSkipped
           /\ \A c \in Calls : Clean(c)' => Clean(c)
<1>1. /\ Len(made) \in Nat /\ Calls = 1..Len(made)
      /\ Len(made') \in Nat /\ Calls' = 1..Len(made')
  <2>1. made \in Seq(Kinds) /\ made' \in Seq(Kinds)
    BY DEF Typed
  <2> QED
    BY <2>1, LenProperties DEF Calls
<1>2. Calls \subseteq Calls'
  BY <1>1 DEF Onward
<1>3. \A c \in Calls : Repliers(c)' = Repliers(c)
  BY DEF Onward, Repliers
<1>4. \A w : \A c \in Calls : Replies(w, c)' <=> Replies(w, c)
  BY <1>3 DEF Replies
<1>5. NoneSkipped' => NoneSkipped
  BY <1>2 DEF Onward, NoneSkipped
<1>6. ASSUME NEW c \in Calls, Clean(c)' PROVE Clean(c)
  <2>1. \A b \in 1..c : b \in Calls
    BY <1>1
  <2> QED
    BY <1>5, <1>6, <2>1, RankAssumption DEF Clean, Onward
<1> QED
  BY <1>2, <1>3, <1>4, <1>5, <1>6

-----------------------------------------------------------------------------
(* The order of a worker's calls, collectives and answers.                 *)

LEMMA QTyped ==
    ASSUME Typed, NEW w \in Ranks
    PROVE  /\ Q(w) \in Seq(Answers) /\ Len(Q(w)) \in Nat /\ DOMAIN Q(w) = 1..Len(Q(w))
           /\ \A i \in DOMAIN Q(w) : Q(w)[i] \in Answers
<1>1. Q(w) \in Seq(Answers)
  BY ConcatProperties DEF Q, Typed
<1> QED
  BY <1>1, LenProperties, ElementOfSeq

LEMMA HonestKept ==
    ASSUME Typed, Typed', Onward, NEW w \in Ranks, InOrder(w), InOrder(w)',
           NEW m \in Answers, Honest(w, m), Taken(w) <= Taken(w)', m.call # work'[w]
    PROVE  Honest(w, m)'
<1>1. /\ Taken(w) \in 0..Len(made) /\ Len(made) \in Nat /\ Calls = 1..Len(made)
      /\ Taken(w)' \in Nat
  <2>1. Len(made') \in Nat /\ Len(inbox'[w]) \in Nat
    BY DEF Typed
  <2>2. Len(inbox'[w]) <= Len(made')
    BY DEF InOrder, IsTail
  <2>3. Taken(w)' \in Nat
    BY <2>1, <2>2 DEF Taken
  <2> QED
    BY <2>3, TakenLemma
<1>2. m.call \in Calls /\ m.call \in 1..Taken(w)
  BY <1>1 DEF Honest
<1>3. m.call \in 1..Taken(w)'
  BY <1>1, <1>2
<1>4. /\ Replies(w, m.call)' <=> Replies(w, m.call)
      /\ Clean(m.call)' => Clean(m.call)
      /\ HasJoined(w, m.call) => HasJoined(w, m.call)'
      /\ made'[m.call] = made[m.call]
      /\ Calls \subseteq Calls'
  BY <1>2, OnwardLemma DEF Onward
<1> QED
  BY <1>3, <1>4 DEF Honest

\* Its answers stay honest as long as it does not go back to an earlier call.
LEMMA AnsweredKept ==
    ASSUME Typed, Typed', Onward, NEW w \in Ranks, InOrder(w), InOrder(w)', Answered(w),
           async' = async, Q(w)' = Q(w), ~async => outq'[w] = <<>>, Taken(w) <= Taken(w)',
           \A c \in 1..Taken(w) : c = work'[w] => c = work[w]
    PROVE  Answered(w)'
<1>1. ASSUME NEW i \in DOMAIN Q(w) PROVE Honest(w, Q(w)[i])'
  <2>1. PICK m \in Answers : m = Q(w)[i]
    BY QTyped
  <2>2. Honest(w, m)
    BY <2>1 DEF Answered
  <2>3. m.call # work'[w]
    BY <2>2 DEF Honest
  <2>4. Honest(w, m)'
    BY <2>2, <2>3, HonestKept
  <2> QED
    BY <2>1, <2>4
<1>2. \A i \in DOMAIN Q(w)' : Honest(w, Q(w)[i])'
  BY <1>1
<1> QED
  BY <1>2 DEF Answered

\* The worker w does nothing, or it ends what it does.
LEMMA WorkerRests ==
    ASSUME Typed, Typed', Onward, NEW w \in Ranks, InOrder(w), Answered(w),
           UNCHANGED <<made, async>>, inbox'[w] = inbox[w], joined'[w] = joined[w],
           work'[w] \in {work[w], Loop, Exited}, Q(w)' = Q(w), ~async => outq'[w] = <<>>
    PROVE  InOrder(w)' /\ Answered(w)'
<1>1. Taken(w)' = Taken(w) /\ Taken(w) \in Nat
  BY TakenLemma DEF Taken
<1>2. InOrder(w)'
  <2>1. IsTail(inbox[w], Len(made))'
    BY DEF InOrder
  <2>2. work'[w] > 0 => work'[w] = Taken(w)'
    BY <1>1 DEF InOrder, Loop, Exited
  <2> QED
    BY <1>1, <2>1, <2>2 DEF InOrder
<1>3. \A c \in 1..Taken(w) : c = work'[w] => c = work[w]
  BY <1>1 DEF Loop, Exited
<1> QED
  BY <1>1, <1>2, <1>3, AnsweredKept

\* A new call goes to the end of every inbox.
LEMMA CallKeepsWorkers ==
    ASSUME Typed, Typed', Onward, NEW w \in Ranks, InOrder(w), Answered(w), NEW kind \in Kinds,
           made' = Append(made, kind), inbox'[w] = Append(inbox[w], Len(made) + 1),
           UNCHANGED <<async, joined, work, outq, answers>>
    PROVE  InOrder(w)' /\ Answered(w)' /\ Taken(w)' = Taken(w)
<1>1. /\ Len(made) \in Nat /\ Calls = 1..Len(made) /\ Taken(w) \in 0..Len(made)
      /\ IsTail(inbox[w], Len(made)) /\ inbox[w] \in Seq(Nat)
  BY TakenLemma DEF Typed, InOrder
<1>2. Len(made') = Len(made) + 1
  BY AppendProperties DEF Typed
<1>3. /\ IsTail(inbox'[w], Len(made'))
      /\ Len(inbox'[w]) = Len(inbox[w]) + 1 /\ Len(inbox[w]) \in 0..Len(made)
  BY <1>1, <1>2, TailGrows
<1>4. Taken(w)' = Taken(w)
  <2>1. Taken(w) = Len(made) - Len(inbox[w]) /\ Taken(w)' = Len(made') - Len(inbox'[w])
    BY DEF Taken
  <2>2. \A m, n \in Int : m + 1 - (n + 1) = m - n
    OBVIOUS
  <2> QED
    BY <1>1, <1>2, <1>3, <2>1, <2>2
<1>5. InOrder(w)'
  <2>1. \A i \in DOMAIN joined[w] :
           joined[w][i] \in 1..Taken(w) /\ joined[w][i] \in Calls /\ made[joined[w][i]] = "execute"
    BY <1>1 DEF InOrder
  <2>2. \A i \in DOMAIN joined'[w] :
           joined'[w][i] \in 1..Taken(w)' /\ made'[joined'[w][i]] = "execute"
    BY <1>4, <2>1 DEF Onward
  <2>3. IsTail(inbox[w], Len(made))' /\ (work'[w] > 0 => work'[w] = Taken(w)')
    BY <1>3, <1>4 DEF InOrder
  <2> QED
    BY <2>2, <2>3 DEF InOrder
<1>6. Answered(w)'
  <2>1. Q(w)' = Q(w)
    BY DEF Q
  <2>2. ~async => outq'[w] = <<>>
    BY DEF Answered
  <2>3. Taken(w) <= Taken(w)'
    BY <1>1, <1>4
  <2> QED
    BY <1>5, <2>1, <2>2, <2>3, AnsweredKept
<1> QED
  BY <1>4, <1>5, <1>6

\* A worker takes the oldest call it has not taken.
LEMMA TakeKeepsWorker ==
    ASSUME Typed, Typed', Onward, NEW w \in Ranks, InOrder(w), Answered(w), Take(w)
    PROVE  /\ InOrder(w)' /\ Answered(w)' /\ Taken(w) \in Nat
           /\ Taken(w)' = Taken(w) + 1 /\ work'[w] = Taken(w) + 1
<1>1. Len(made) \in Nat
  BY CallsLemma
<1>2. /\ Head(inbox[w]) = Taken(w) + 1 /\ Taken(w) \in Nat
      /\ Len(inbox[w]) \in Nat /\ Len(Tail(inbox[w])) = Len(inbox[w]) - 1
      /\ IsTail(Tail(inbox[w]), Len(made))
  BY HeadOfInbox DEF Take
<1>3. /\ inbox'[w] = Tail(inbox[w]) /\ work'[w] = Head(inbox[w])
      /\ UNCHANGED <<made, joined, outq, answers, async>>
  BY DEF Take, Typed, engine, rest
<1>4. Len(inbox'[w]) = Len(inbox[w]) - 1 /\ Len(made') = Len(made)
  BY <1>2, <1>3
<1>5. Taken(w)' = Taken(w) + 1
  BY <1>1, <1>2, <1>4 DEF Taken
<1>6. IsTail(inbox[w], Len(made))'
  BY <1>2, <1>3
<1>7. InOrder(w)'
  <2>1. \A i \in DOMAIN joined[w] : joined[w][i] \in 1..Taken(w)'
    BY <1>2, <1>5 DEF InOrder
  <2> QED
    BY <1>2, <1>3, <1>5, <1>6, <2>1 DEF InOrder
<1>8. Answered(w)'
  <2>1. Q(w)' = Q(w) /\ (~async => outq'[w] = <<>>) /\ async' = async
    BY <1>3 DEF Q, Answered
  <2>2. Taken(w) <= Taken(w)' /\ \A c \in 1..Taken(w) : c = work'[w] => c = work[w]
    BY <1>2, <1>3, <1>5
  <2> QED
    BY <1>7, <2>1, <2>2, AnsweredKept
<1> QED
  BY <1>2, <1>3, <1>5, <1>7, <1>8

\* It enters the collective of its call, after those of earlier ones.
LEMMA JoinKeepsWorker ==
    ASSUME Typed, Typed', Onward, NEW w \in Ranks, InOrder(w), Answered(w), Join(w)
    PROVE  /\ InOrder(w)' /\ Answered(w)' /\ work[w] = Taken(w) /\ work[w] \in Calls
           /\ made[work[w]] = "execute"
           /\ \A i \in DOMAIN joined[w] : joined[w][i] < work[w]
<1>1. /\ Taken(w) \in 0..Len(made) /\ Len(made) \in Nat /\ Calls = 1..Len(made)
      /\ work[w] = Taken(w) /\ work[w] \in Calls /\ made[work[w]] = "execute"
  <2>1. work[w] > 0 /\ made[work[w]] = "execute"
    BY DEF Join, Busy
  <2>2. work[w] = Taken(w)
    BY <2>1 DEF InOrder
  <2>3. Taken(w) \in 0..Len(made) /\ Len(made) \in Nat /\ Calls = 1..Len(made)
    BY TakenLemma
  <2> QED
    BY <2>1, <2>2, <2>3
<1> DEFINE n == Len(joined[w])
<1>2. n \in Nat /\ DOMAIN joined[w] = 1..n /\ (n = 0 => joined[w] = <<>>)
  BY DEF Typed
<1>3. ASSUME NEW i \in DOMAIN joined[w] PROVE joined[w][i] < work[w]
  <2>1. n \in DOMAIN joined[w] /\ joined[w] # <<>>
    BY <1>2
  <2>2. joined[w][n] # work[w]
    BY <1>1, <2>1 DEF Join, Waiting, Busy, Last
  <2>3. joined[w][n] \in 1..Taken(w) /\ joined[w][i] \in 1..Taken(w)
    BY <2>1 DEF InOrder
  <2>4. joined[w][n] < work[w]
    BY <1>1, <2>2, <2>3
  <2>5. i = n \/ joined[w][i] < joined[w][n]
    BY <1>2, <2>1 DEF InOrder
  <2> QED
    BY <1>1, <2>3, <2>4, <2>5
<1>4. /\ UNCHANGED <<made, inbox, work, outq, answers, async>>
      /\ joined'[w] = Append(joined[w], work[w])
  BY DEF Join, Typed, engine, rest
<1>5. /\ DOMAIN joined'[w] = 1..n + 1
      /\ \A i \in 1..n : joined'[w][i] = joined[w][i]
      /\ joined'[w][n + 1] = work[w]
  <2>1. joined[w] \in Seq(Nat) /\ work[w] \in Nat
    BY <1>1 DEF Typed
  <2> QED
    BY <1>4, <2>1, AppendProperties, LenProperties
<1>6. Taken(w)' = Taken(w)
  BY <1>4 DEF Taken
<1> HIDE DEF n
<1>7. InOrder(w)'
  <2>1. IsTail(inbox[w], Len(made))' /\ (work'[w] > 0 => work'[w] = Taken(w)')
    BY <1>4, <1>6 DEF InOrder
  <2>2. \A i \in DOMAIN joined'[w] :
           joined'[w][i] \in 1..Taken(w)' /\ made'[joined'[w][i]] = "execute"
    <3> TAKE i \in DOMAIN joined'[w]
    <3>1. CASE i = n + 1
      BY <1>1, <1>4, <1>5, <1>6, <3>1
    <3>2. CASE i \in 1..n
      BY <1>2, <1>4, <1>5, <1>6, <3>2 DEF InOrder
    <3> QED
      BY <1>2, <1>5, <3>1, <3>2
  <2>3. \A i, j \in DOMAIN joined'[w] : i < j => joined'[w][i] < joined'[w][j]
    <3> TAKE i, j \in DOMAIN joined'[w]
    <3> HAVE i < j
    <3>1. i \in 1..n
      BY <1>2, <1>5
    <3>2. CASE j = n + 1
      BY <1>2, <1>3, <1>5, <3>1, <3>2
    <3>3. CASE j \in 1..n
      BY <1>2, <1>5, <3>1, <3>3 DEF InOrder
    <3> QED
      BY <1>2, <1>5, <3>2, <3>3
  <2> QED
    BY <2>1, <2>2, <2>3 DEF InOrder
<1>8. Answered(w)'
  <2>1. Q(w)' = Q(w) /\ (~async => outq'[w] = <<>>) /\ async' = async
    BY <1>4 DEF Q, Answered
  <2>2. Taken(w) <= Taken(w)' /\ \A c \in 1..Taken(w) : c = work'[w] => c = work[w]
    BY <1>1, <1>4, <1>6
  <2> QED
    BY <1>7, <2>1, <2>2, AnsweredKept
<1> QED
  BY <1>1, <1>3, <1>7, <1>8

-----------------------------------------------------------------------------
(* Ranks that skipped nothing meet in the collectives of the same steps.   *)

LEMMA CleanLemma ==
    ASSUME Typed, NEW c \in Calls, Clean(c)
    PROVE  /\ \A b \in 1..c : b \in Calls /\ Clean(b)
           /\ \A v \in Ranks : made[c] = "execute" /\ c <= Taken(v) /\ work[v] # c => HasJoined(v, c)
<1>1. Calls = 1..Len(made) /\ Len(made) \in Nat
  BY CallsLemma
<1>2. ASSUME NEW b \in 1..c PROVE b \in Calls /\ Clean(b)
  BY <1>1 DEF Clean
<1>3. \A v \in Ranks : ~Skipped(v, c)
  <2>1. c \in 1..c
    BY <1>1
  <2> QED
    BY <2>1 DEF Clean, NoneSkipped
<1> QED
  BY <1>2, <1>3 DEF Skipped

\* The k-th collective of v is not that of a later step than the clean step c, if
\* w has entered or is about to enter that of c as its k-th.
LEMMA NotAhead ==
    ASSUME Typed, Aligned, NEW v \in Ranks, NEW w \in Ranks, InOrder(v), InOrder(w),
           NEW c \in Calls, Clean(c), made[c] = "execute", NEW k \in DOMAIN joined[v],
           \A j \in 1..(k - 1) : j \in DOMAIN joined[w] /\ joined[w][j] < c
    PROVE  joined[v][k] <= c
<1>1. /\ Calls = 1..Len(made) /\ Len(made) \in Nat /\ Taken(v) \in 0..Len(made)
      /\ DOMAIN joined[v] = 1..Len(joined[v]) /\ Len(joined[v]) \in Nat
  <2>1. joined[v] \in Seq(Nat)
    BY DEF Typed
  <2> QED
    BY <2>1, TakenLemma, LenProperties
<1>2. joined[v][k] \in 1..Taken(v)
  BY DEF InOrder
<1> SUFFICES ASSUME joined[v][k] > c PROVE FALSE
  BY <1>1, <1>2
<1>3. c <= Taken(v) /\ work[v] # c
  BY <1>1, <1>2 DEF InOrder
<1>4. PICK j \in DOMAIN joined[v] : joined[v][j] = c
  BY <1>3, CleanLemma DEF HasJoined
<1>5. j < k
  <2>1. j # k
    BY <1>1, <1>2, <1>4
  <2>2. ~(k < j)
    <3> SUFFICES ASSUME k < j PROVE FALSE
      OBVIOUS
    <3>1. joined[v][k] < joined[v][j]
      BY DEF InOrder
    <3> QED
      BY <1>1, <1>2, <1>4, <3>1
  <2> QED
    BY <1>1, <2>1, <2>2
<1>6. j \in DOMAIN joined[w] /\ joined[w][j] < c
  BY <1>1, <1>5
<1>7. joined[w][j] \in 1..Taken(w) /\ Taken(w) \in 0..Len(made)
  BY <1>6, TakenLemma DEF InOrder
<1>8. Clean(joined[w][j])
  <2>1. joined[w][j] \in 1..c
    BY <1>1, <1>6, <1>7
  <2> QED
    BY <2>1, CleanLemma
<1>9. joined[v][j] = joined[w][j]
  BY <1>4, <1>6, <1>8 DEF Aligned
<1> QED
  BY <1>1, <1>4, <1>6, <1>7, <1>9

\* Everybody is in the collective that w leaves, if no rank skipped one before.
LEMMA FinishTogether ==
    ASSUME Typed, Aligned, \A v \in Ranks : InOrder(v), NEW w \in Ranks,
           Busy(w), made[work[w]] = "execute", Waiting(w), Clean(work[w]),
           \A v \in Ranks : Len(joined[v]) >= Len(joined[w])
    PROVE  \A v \in Ranks : joined[v][Len(joined[w])] = work[w]
<1> DEFINE k == Len(joined[w])
           c == work[w]
<1>1. /\ Calls = 1..Len(made) /\ Len(made) \in Nat /\ Taken(w) \in 0..Len(made)
      /\ c = Taken(w) /\ c \in Calls
  <2>1. c = Taken(w) /\ c > 0
    BY DEF Busy, InOrder
  <2> QED
    BY <2>1, TakenLemma
<1>2. \A v \in Ranks : DOMAIN joined[v] = 1..Len(joined[v]) /\ Len(joined[v]) \in Nat
  BY DEF Typed
<1>3. k \in DOMAIN joined[w] /\ joined[w][k] = c
  <2>1. joined[w] # <<>> /\ joined[w][k] = c
    BY DEF Waiting, Last
  <2>2. k # 0
    BY <2>1 DEF Typed
  <2> QED
    BY <1>2, <2>1, <2>2
<1> HIDE DEF k
<1>4. ASSUME NEW v \in Ranks PROVE joined[v][k] = c
  <2>1. k \in DOMAIN joined[v]
    BY <1>2, <1>3 DEF k
  <2>2. \A j \in 1..(k - 1) : j \in DOMAIN joined[w] /\ joined[w][j] < c
    <3> TAKE j \in 1..(k - 1)
    <3>1. j \in DOMAIN joined[w] /\ j < k
      BY <1>2, <1>3
    <3> QED
      BY <1>3, <3>1 DEF InOrder
  <2>3. joined[v][k] <= c
    BY <1>1, <2>1, <2>2, NotAhead
  <2>4. joined[v][k] \in 1..c
    <3>1. joined[v][k] \in 1..Taken(v) /\ Taken(v) \in 0..Len(made)
      BY <2>1, TakenLemma DEF InOrder
    <3> QED
      BY <1>1, <2>3, <3>1
  <2>5. Clean(joined[v][k]) /\ Clean(joined[w][k])
    BY <1>1, <1>3, <2>4, CleanLemma
  <2> QED
    BY <1>3, <2>1, <2>5 DEF Aligned
<1> QED
  BY <1>4 DEF k

LEMMA JoinAligned ==
    ASSUME Typed, Typed', Onward, Aligned, \A v \in Ranks : InOrder(v) /\ Answered(v),
           NEW w \in Ranks, Join(w)
    PROVE  Aligned'
<1> DEFINE c == work[w]
           n == Len(joined[w])
<1>1. /\ Calls = 1..Len(made) /\ Len(made) \in Nat
      /\ c = Taken(w) /\ c \in Calls /\ made[c] = "execute"
      /\ \A i \in DOMAIN joined[w] : joined[w][i] < c
  BY TakenLemma, JoinKeepsWorker
<1>2. \A v \in Ranks : DOMAIN joined[v] = 1..Len(joined[v]) /\ Len(joined[v]) \in Nat
  BY DEF Typed
<1>3. /\ \A v \in Ranks \ {w} : joined'[v] = joined[v]
      /\ DOMAIN joined'[w] = 1..n + 1
      /\ \A i \in 1..n : joined'[w][i] = joined[w][i]
      /\ joined'[w][n + 1] = c
  <2>1. joined[w] \in Seq(Nat) /\ c \in Nat
    <3>1. joined[w] \in Seq(Nat)
      BY DEF Typed
    <3>2. c \in Nat
      <4> HIDE DEF c
      <4> QED
        BY <1>1
    <3> QED
      BY <3>1, <3>2
  <2>2. joined' = [joined EXCEPT ![w] = Append(joined[w], c)]
    BY DEF Join
  <2>3. joined'[w] = Append(joined[w], c) /\ \A v \in Ranks \ {w} : joined'[v] = joined[v]
    BY <2>2 DEF Typed
  <2> QED
    BY <2>1, <2>3, AppendProperties, LenProperties
<1> HIDE DEF n, c
<1>4. \A b \in Calls : Clean(b)' => Clean(b)
  BY OnwardLemma
<1>5. \A v \in Ranks : \A k \in DOMAIN joined[v] : joined[v][k] \in Calls
                          /\ joined[v][k] \in 1..Taken(v) /\ made[joined[v][k]] = "execute"
  BY <1>1, TakenLemma DEF InOrder
\* The new collective against another rank's
<1>6. ASSUME NEW v \in Ranks \ {w}, n + 1 \in DOMAIN joined[v],
             Clean(joined[v][n + 1]), Clean(c)
      PROVE  joined[v][n + 1] = c
  <2> DEFINE d == joined[v][n + 1]
  <2>1. d \in Calls /\ d \in 1..Taken(v) /\ made[d] = "execute"
    BY <1>5, <1>6
  <2>2. d <= c
    <3>1. PICK k \in DOMAIN joined[v] : k = n + 1
      BY <1>6
    <3>2. \A j \in 1..(k - 1) : j \in DOMAIN joined[w] /\ joined[w][j] < c
      <4>1. 1..(k - 1) = DOMAIN joined[w]
        BY <1>2, <3>1 DEF n
      <4> QED
        BY <1>1, <4>1
    <3>3. InOrder(v) /\ InOrder(w)
      OBVIOUS
    <3>4. joined[v][k] <= c
      BY <1>1, <1>6, <3>2, <3>3, NotAhead
    <3> QED
      BY <3>1, <3>4
  <2> HIDE DEF d
  <2>3. ~(d < c)
    <3> SUFFICES ASSUME d < c PROVE FALSE
      OBVIOUS
    <3>1. d <= Taken(w) /\ work[w] # d
      BY <1>1, <2>1 DEF c
    <3>2. PICK j \in DOMAIN joined[w] : joined[w][j] = d
      BY <1>6, <2>1, <3>1, CleanLemma DEF HasJoined, d
    <3>3. j < n + 1 /\ j \in DOMAIN joined[v]
      BY <1>2, <1>6, <3>2 DEF n
    <3>4. joined[v][j] < d
      BY <1>6, <3>3 DEF InOrder, d
    <3>5. Clean(joined[v][j])
      <4>1. joined[v][j] \in 1..d
        BY <1>1, <1>5, <2>1, <3>3, <3>4
      <4> QED
        BY <1>6, <2>1, <4>1, CleanLemma DEF d
    <3>6. joined[v][j] = joined[w][j]
      BY <1>6, <3>2, <3>3, <3>5 DEF Aligned, d
    <3> QED
      BY <1>1, <2>1, <3>2, <3>4, <3>6
  <2>4. d = c
    BY <1>1, <2>1, <2>2, <2>3
  <2> QED
    BY <2>4 DEF d
<1>7. ASSUME NEW v \in Ranks, NEW u \in Ranks, NEW k \in DOMAIN joined'[v] \cap DOMAIN joined'[u],
             Clean(joined[v][k])', Clean(joined[u][k])'
      PROVE  joined'[v][k] = joined'[u][k]
  <2>0. joined'[v][k] \in Calls /\ joined'[u][k] \in Calls
    <3>1. ASSUME NEW x \in Ranks, k \in DOMAIN joined'[x] PROVE joined'[x][k] \in Calls
      <4>1. CASE x = w
        <5>1. k = n + 1 \/ k \in 1..n
          BY <1>2, <1>3, <3>1, <4>1 DEF n
        <5> QED
          BY <1>1, <1>2, <1>3, <1>5, <4>1, <5>1 DEF n
      <4>2. CASE x # w
        BY <1>3, <1>5, <3>1, <4>2
      <4> QED
        BY <4>1, <4>2
    <3> QED
      BY <3>1
  <2>1. Clean(joined'[v][k]) /\ Clean(joined'[u][k])
    <3>1. PICK a \in Calls : a = joined'[v][k]
      BY <2>0
    <3>2. PICK b \in Calls : b = joined'[u][k]
      BY <2>0
    <3>3. Clean(a)' /\ Clean(b)'
      BY <1>7, <3>1, <3>2 DEF Clean
    <3>4. Clean(a) /\ Clean(b)
      BY <1>4, <3>3
    <3> QED
      BY <3>1, <3>2, <3>4
  <2>2. CASE v = u
    BY <2>2
  <2>3. CASE v # w /\ u # w
    <3>1. joined'[v] = joined[v] /\ joined'[u] = joined[u]
      BY <1>3, <2>3
    <3> QED
      BY <2>1, <3>1 DEF Aligned
  <2>4. ASSUME NEW x \in Ranks \ {w}, k \in DOMAIN joined'[x] \cap DOMAIN joined'[w],
               Clean(joined'[x][k]), Clean(joined'[w][k])
        PROVE  joined'[x][k] = joined'[w][k]
    <3>1. joined'[x] = joined[x] /\ k \in DOMAIN joined[x]
      BY <1>3, <2>4
    <3>2. CASE k = n + 1
      BY <1>3, <1>6, <2>4, <3>1, <3>2
    <3>3. CASE k # n + 1
      <4>1. k \in DOMAIN joined[w] /\ joined'[w][k] = joined[w][k]
        BY <1>2, <1>3, <2>4, <3>3 DEF n
      <4> QED
        BY <2>4, <3>1, <4>1 DEF Aligned
    <3> QED
      BY <3>2, <3>3
  <2>5. CASE v # w /\ u = w
    BY <2>1, <2>4, <2>5
  <2>6. CASE v = w /\ u # w
    BY <2>1, <2>4, <2>6
  <2> QED
    BY <2>2, <2>3, <2>5, <2>6
<1> QED
  BY <1>7 DEF Aligned

\* The other steps enter no collective.
LEMMA AlignedKept ==
    ASSUME Typed, Typed', Onward, Aligned, \A v \in Ranks : InOrder(v), joined' = joined
    PROVE  Aligned'
<1>1. \A v \in Ranks : \A k \in DOMAIN joined[v] : joined[v][k] \in Calls
  BY TakenLemma DEF InOrder
<1>2. \A b \in Calls : Clean(b)' => Clean(b)
  BY OnwardLemma
<1>3. ASSUME NEW v \in Ranks, NEW u \in Ranks, NEW k \in DOMAIN joined'[v] \cap DOMAIN joined'[u],
             Clean(joined[v][k])', Clean(joined[u][k])'
      PROVE  joined'[v][k] = joined'[u][k]
  <2>1. PICK a \in Calls : a = joined'[v][k]
    BY <1>1
  <2>2. PICK b \in Calls : b = joined'[u][k]
    BY <1>1
  <2>3. Clean(a)' /\ Clean(b)'
    BY <1>3, <2>1, <2>2 DEF Clean
  <2>4. Clean(a) /\ Clean(b)
    BY <1>2, <2>3
  <2> QED
    BY <2>1, <2>2, <2>4 DEF Aligned
<1> QED
  BY <1>3 DEF Aligned

-----------------------------------------------------------------------------
(* A worker answers the call it ends.                                      *)

AnswerOf(w, ok, with) == [call |-> work[w], ok |-> ok, with |-> with]

LEMMA AnswerEffect ==
    ASSUME Typed, NEW w \in Ranks, Answered(w), NEW ok \in BOOLEAN, NEW with \in SUBSET Nat,
           Busy(w), Answer(w, ok, with), async' = async
    PROVE  /\ AnswerOf(w, ok, with) \in Answers
           /\ Replies(w, work[w]) => Q(w)' = Append(Q(w), AnswerOf(w, ok, with))
           /\ ~Replies(w, work[w]) => Q(w)' = Q(w)
           /\ ~async => outq'[w] = <<>>
           /\ \A v \in Ranks \ {w} : outq'[v] = outq[v] /\ answers'[v] = answers[v]
<1> DEFINE a == AnswerOf(w, ok, with)
<1>1. a \in Answers
  BY DEF Typed, Answers, AnswerOf, Busy, Exited
<1>2. Contains(Repliers(work[w]), w) <=> Replies(w, work[w])
  BY RepliersLemma DEF Contains, Replies
<1>3. /\ ~Replies(w, work[w]) => UNCHANGED <<outq, answers>>
      /\ Replies(w, work[w]) /\ async => outq' = [outq EXCEPT ![w] = Append(outq[w], a)] /\ UNCHANGED answers
      /\ Replies(w, work[w]) /\ ~async => answers' = [answers EXCEPT ![w] = Append(answers[w], a)] /\ UNCHANGED outq
  BY <1>2 DEF Answer, AnswerOf
<1> HIDE DEF a
<1>4. outq[w] \in Seq(Answers) /\ answers[w] \in Seq(Answers) /\ (~async => outq[w] = <<>>)
  BY DEF Typed, Answered
<1>5. CASE ~Replies(w, work[w])
  BY <1>1, <1>3, <1>4, <1>5 DEF Q, a
<1>6. CASE Replies(w, work[w]) /\ async
  <2>1. outq'[w] = Append(outq[w], a) /\ \A v \in Ranks \ {w} : outq'[v] = outq[v]
    BY <1>3, <1>6 DEF Typed
  <2>2. answers[w] \o Append(outq[w], a) = Append(answers[w] \o outq[w], a)
    <3>1. PICK x \in Seq(Answers), y \in Seq(Answers), e \in Answers :
             x = answers[w] /\ y = outq[w] /\ e = a
      BY <1>1, <1>4
    <3>2. x \o Append(y, e) = Append(x \o y, e)
      BY QueueAppend
    <3> QED
      BY <3>1, <3>2
  <2> QED
    BY <1>1, <1>3, <1>6, <2>1, <2>2 DEF Q, a
<1>7. CASE Replies(w, work[w]) /\ ~async
  <2>1. answers'[w] = Append(answers[w], a) /\ \A v \in Ranks \ {w} : answers'[v] = answers[v]
    BY <1>3, <1>7 DEF Typed
  <2>2. Append(answers[w], a) \o outq[w] = Append(answers[w] \o outq[w], a)
    <3>1. PICK x \in Seq(Answers), y \in Seq(Answers), e \in Answers :
             x = answers[w] /\ y = outq[w] /\ e = a
      BY <1>1, <1>4
    <3>2. Append(x, e) \o y = Append(x \o y, e)
      <4>1. y = <<>>
        BY <1>4, <1>7, <3>1
      <4> QED
        BY <4>1, QueueAppend
    <3> QED
      BY <3>1, <3>2
  <2> QED
    BY <1>1, <1>3, <1>4, <1>7, <2>1, <2>2 DEF Q, a
<1> QED
  BY <1>5, <1>6, <1>7

LEMMA AnswerKeepsWorker ==
    ASSUME Typed, Typed', Onward, NEW w \in Ranks, InOrder(w), Answered(w),
           NEW ok \in BOOLEAN, NEW with \in SUBSET Calls, Busy(w), Answer(w, ok, with),
           work' = [work EXCEPT ![w] = Loop], UNCHANGED <<made, inbox, joined, async>>,
           ok /\ made[work[w]] = "execute" => HasJoined(w, work[w]),
           ok /\ (made[work[w]] = "execute" => Clean(work[w])) => with = {work[w]}
    PROVE  InOrder(w)' /\ Answered(w)' /\ work[w] \in Calls /\ work[w] = Taken(w)
<1> DEFINE a == AnswerOf(w, ok, with)
<1>1. /\ Calls = 1..Len(made) /\ Len(made) \in Nat /\ Taken(w) \in 0..Len(made)
      /\ work[w] = Taken(w) /\ work[w] \in Calls /\ work'[w] = Loop
  <2>1. work[w] = Taken(w) /\ work[w] > 0
    BY DEF Busy, InOrder
  <2>2. Calls = 1..Len(made) /\ Len(made) \in Nat /\ Taken(w) \in 0..Len(made)
    BY TakenLemma
  <2> QED
    BY <2>1, <2>2 DEF Typed
<1>2. /\ a \in Answers
      /\ Replies(w, work[w]) => Q(w)' = Append(Q(w), a)
      /\ ~Replies(w, work[w]) => Q(w)' = Q(w)
      /\ ~async => outq'[w] = <<>>
  <2>1. with \in SUBSET Nat
    BY <1>1
  <2> QED
    BY <2>1, AnswerEffect
<1>3. Taken(w)' = Taken(w)
  BY DEF Taken
<1>4. InOrder(w)'
  BY <1>1, <1>3 DEF InOrder, Loop
<1>5. CASE ~Replies(w, work[w])
  <2>1. \A c \in 1..Taken(w) : c = work'[w] => c = work[w]
    BY <1>1 DEF Loop
  <2> QED
    BY <1>1, <1>2, <1>3, <1>4, <1>5, <2>1, AnsweredKept
<1>6. CASE Replies(w, work[w])
  <2> DEFINE n == Len(Q(w))
  <2>1. /\ n \in Nat /\ DOMAIN Q(w) = 1..n /\ Q(w) \in Seq(Answers)
        /\ \A i \in 1..n : Q(w)[i] \in Answers /\ Honest(w, Q(w)[i])
    BY QTyped DEF Answered
  <2> DEFINE q == Append(Q(w), a)
  <2>2. /\ DOMAIN q = 1..n + 1 /\ q[n + 1] = a
        /\ \A i \in 1..n : q[i] = Q(w)[i]
    BY <1>2, <2>1, AppendProperties, LenProperties
  <2> HIDE DEF n, q
  <2>3. \A i \in 1..n : Q(w)[i].call \in Nat /\ Q(w)[i].call < work[w]
    <3> TAKE i \in 1..n
    <3>1. Q(w)[i].call \in 1..Taken(w) /\ Q(w)[i].call # work[w]
      BY <2>1 DEF Honest
    <3> QED
      BY <1>1, <3>1
  <2>4. a.call = work[w] /\ a.ok = ok /\ a.with = with
    BY DEF AnswerOf
  <2>5. PICK e \in Answers : e = a
    BY <1>2
  <2>6. Honest(w, e)'
    <3>1. e.call = work[w] /\ e.ok = ok /\ e.with = with
      BY <2>4, <2>5
    <3>2. e.call \in Calls /\ e.call \in 1..Taken(w)' /\ e.call # work'[w]
      BY <1>1, <1>3, <3>1 DEF Loop
    <3>3. /\ Replies(w, e.call)' /\ e.with \subseteq Calls'
          /\ made'[e.call] = made[e.call]
          /\ HasJoined(w, e.call) => HasJoined(w, e.call)'
          /\ Clean(e.call)' => Clean(e.call)
      BY <1>6, <3>1, <3>2, OnwardLemma DEF Onward
    <3> QED
      BY <3>1, <3>2, <3>3 DEF Honest
  <2>7. Q(w)' = q
    BY <1>2, <1>6 DEF q
  <2>8. \A i, j \in DOMAIN Q(w)' : i < j => Q(w)'[i].call < Q(w)'[j].call
    <3> SUFFICES ASSUME NEW i \in 1..n + 1, NEW j \in 1..n + 1, i < j
                 PROVE  q[i].call < q[j].call
      BY <2>2, <2>7
    <3>1. i \in 1..n /\ q[i] = Q(w)[i]
      BY <2>1, <2>2
    <3>2. CASE j = n + 1
      BY <2>2, <2>3, <2>4, <3>1, <3>2
    <3>3. CASE j \in 1..n
      BY <2>1, <2>2, <3>1, <3>3 DEF Answered
    <3> QED
      BY <2>1, <3>2, <3>3
  <2>9. ASSUME NEW i \in DOMAIN Q(w)' PROVE Honest(w, Q(w)[i])'
    <3>1. i \in 1..n \/ i = n + 1
      BY <2>1, <2>2, <2>7, <2>9
    <3>2. CASE i = n + 1
      <4>1. Q(w)'[i] = e
        BY <2>2, <2>5, <2>7, <3>2
      <4> QED
        BY <2>6, <4>1
    <3>3. CASE i \in 1..n
      <4>1. PICK m \in Answers : m = Q(w)[i]
        BY <2>1, <3>3
      <4>2. Honest(w, m)
        BY <2>1, <3>3, <4>1
      <4>3. m.call # work'[w]
        BY <1>1, <4>2 DEF Honest, Loop
      <4>4. Taken(w) <= Taken(w)'
        BY <1>1, <1>3
      <4>5. Honest(w, m)'
        BY <1>4, <4>2, <4>3, <4>4, HonestKept
      <4>6. Q(w)'[i] = m
        BY <2>2, <2>7, <3>3, <4>1
      <4> QED
        BY <4>5, <4>6
    <3> QED
      BY <3>1, <3>2, <3>3
  <2>10. \A i \in DOMAIN Q(w)' : Honest(w, Q(w)[i])'
    BY <2>9
  <2>11. ~async' => outq'[w] = <<>>
    BY <1>2
  <2> QED
    BY <1>1, <1>4, <2>8, <2>10, <2>11 DEF Answered
<1> QED
  BY <1>1, <1>4, <1>5, <1>6

LEMMA EndsKeepsWorker ==
    ASSUME Typed, Typed', Onward, Aligned, \A v \in Ranks : InOrder(v), NEW w \in Ranks, Answered(w),
           Finish(w) \/ Raises(w)
    PROVE  /\ InOrder(w)' /\ Answered(w)' /\ work[w] \in Calls /\ work[w] = Taken(w) /\ work'[w] = Loop
           /\ UNCHANGED <<made, inbox, joined, async>>
           /\ \A v \in Ranks \ {w} : work'[v] = work[v]
           /\ \E ok \in BOOLEAN : \E with \in SUBSET Calls : Answer(w, ok, with)
           /\ Busy(w)
<1>0. \A v \in Ranks : Len(joined[v]) \in Nat /\ DOMAIN joined[v] = 1..Len(joined[v])
  BY DEF Typed
<1>1. /\ Busy(w) /\ work' = [work EXCEPT ![w] = Loop] /\ UNCHANGED <<made, inbox, joined, async>>
  BY DEF Finish, Raises, engine, rest
<1>2. /\ Calls = 1..Len(made) /\ Len(made) \in Nat /\ Taken(w) \in 0..Len(made)
      /\ work[w] = Taken(w) /\ work[w] \in Calls
  <2>1. work[w] = Taken(w) /\ work[w] > 0
    BY <1>1 DEF Busy, InOrder
  <2> QED
    BY <2>1, TakenLemma
<1>3. work'[w] = Loop /\ \A v \in Ranks \ {w} : work'[v] = work[v]
  BY <1>1 DEF Typed
<1>4. CASE Raises(w)
  <2>1. Answer(w, FALSE, {}) /\ {} \in SUBSET Calls
    BY <1>4 DEF Raises
  <2> QED
    BY <1>1, <1>2, <1>3, <2>1, AnswerKeepsWorker
<1>5. CASE Finish(w) /\ made[work[w]] # "execute"
  <2>1. Answer(w, TRUE, {work[w]}) /\ {work[w]} \in SUBSET Calls
    BY <1>2, <1>5 DEF Finish
  <2> QED
    BY <1>1, <1>2, <1>3, <1>5, <2>1, AnswerKeepsWorker
<1>6. CASE Finish(w) /\ made[work[w]] = "execute"
  <2> DEFINE k == Len(joined[w])
             with == {joined[v][k] : v \in Ranks}
  <2>1. Waiting(w) /\ (\A v \in Ranks : Len(joined[v]) >= k) /\ Answer(w, TRUE, with)
    BY <1>6 DEF Finish
  <2>2. k \in DOMAIN joined[w] /\ k \in Nat /\ joined[w][k] = work[w]
    <3>1. joined[w] # <<>> /\ joined[w][k] = work[w] /\ joined[w] \in Seq(Nat)
      BY <2>1 DEF Waiting, Last, Typed
    <3> QED
      BY <3>1, EmptySeq, LenProperties
  <2>3. with \in SUBSET Calls
    <3> SUFFICES ASSUME NEW v \in Ranks PROVE joined[v][k] \in Calls
      OBVIOUS
    <3>1. k \in DOMAIN joined[v]
      <4>1. Len(joined[v]) \in Nat /\ DOMAIN joined[v] = 1..Len(joined[v])
            /\ Len(joined[w]) \in Nat /\ DOMAIN joined[w] = 1..Len(joined[w])
        BY <1>0
      <4>2. Len(joined[v]) >= k
        BY <2>1
      <4> QED
        BY <2>2, <4>1, <4>2
    <3>2. joined[v][k] \in 1..Taken(v) /\ Taken(v) \in 0..Len(made)
      BY <3>1, TakenLemma DEF InOrder
    <3> QED
      BY <1>2, <3>2
  <2>4. HasJoined(w, work[w])
    BY <2>2 DEF HasJoined
  <2>5. Clean(work[w]) => with = {work[w]}
    <3> HAVE Clean(work[w])
    <3>1. \A v \in Ranks : joined[v][k] = work[w]
      BY <1>1, <1>6, <2>1, FinishTogether
    <3> QED
      BY <3>1
  <2> HIDE DEF with, k
  <2> QED
    BY <1>1, <1>2, <1>3, <1>6, <2>1, <2>3, <2>4, <2>5, AnswerKeepsWorker
<1> QED
  BY <1>4, <1>5, <1>6

-----------------------------------------------------------------------------
(* The engine's queue of futures.                                          *)

LEMMA EngineLemma ==
    ASSUME Typed, Engine
    PROVE  /\ Len(made) \in Nat /\ Calls = 1..Len(made) /\ DOMAIN result = Calls
           /\ Len(futures) \in Nat /\ Drained \in 0..Len(made)
           /\ Len(reading.got) \in Nat
           /\ pc = "read" => reading.call \in Calls /\ reading.call = Drained
                             /\ result[reading.call].is = "pending"
                             /\ Len(reading.got) + 1 \in DOMAIN Repliers(reading.call)
                             /\ From \in Ranks
           /\ pc = "drain" /\ result[target].is = "pending" =>
                             reading = NoRead /\ futures # <<>>
<1>1. Len(made) \in Nat /\ Calls = 1..Len(made) /\ DOMAIN result = Calls
  BY CallsLemma
<1>2. Len(futures) \in Nat /\ Len(reading.got) \in Nat
  BY DEF Typed
<1>3. Drained \in 0..Len(made)
  BY <1>1, <1>2 DEF Drained, Engine, IsTail
<1>4. ASSUME pc = "read"
      PROVE  reading.call \in Calls /\ reading.call = Drained
             /\ result[reading.call].is = "pending"
             /\ Len(reading.got) + 1 \in DOMAIN Repliers(reading.call)
             /\ From \in Ranks
  <2>1. reading.call # 0 /\ reading.call = Drained /\ Len(reading.got) < Len(Repliers(reading.call))
    BY <1>4 DEF Engine
  <2>2. reading.call \in Calls
    BY <1>1, <1>3, <2>1
  <2>3. result[reading.call].is = "pending"
    BY <2>2 DEF Engine
  <2>4. Len(reading.got) + 1 \in DOMAIN Repliers(reading.call)
    BY <1>2, <2>1, RepliersLemma
  <2>5. From \in Ranks
    BY <2>4, RepliersLemma DEF From
  <2> QED
    BY <2>1, <2>2, <2>3, <2>4, <2>5
<1>5. ASSUME pc = "drain", result[target].is = "pending"
      PROVE  reading = NoRead /\ futures # <<>>
  <2>1. reading = NoRead /\ target \in Calls
    BY <1>5 DEF Engine, Typed
  <2>2. target > Drained
    BY <1>1, <1>5, <2>1 DEF Engine, NoRead
  <2>3. futures # <<>>
    <3> SUFFICES ASSUME futures = <<>> PROVE FALSE
      OBVIOUS
    <3>1. Len(futures) = 0
      OBVIOUS
    <3> QED
      BY <1>1, <2>1, <2>2, <3>1 DEF Drained
  <2> QED
    BY <2>1, <2>3
<1> QED
  BY <1>1, <1>2, <1>3, <1>4, <1>5

\* A new call goes to the end of the futures.
LEMMA CallKeepsEngine ==
    ASSUME Typed, Typed', Onward, Engine, NEW kind \in Kinds,
           made' = Append(made, kind), futures' = Append(futures, Len(made) + 1),
           result' = Append(result, Pending), UNCHANGED reading,
           pc = "idle", pc' = "idle" \/ (pc' = "drain" /\ target' # 0)
    PROVE  /\ Engine' /\ Drained' = Drained /\ reading = NoRead
           /\ Len(made') = Len(made) + 1 /\ Calls' = Calls \cup {Len(made) + 1}
           /\ \A c \in Calls : result'[c] = result[c]
           /\ result'[Len(made) + 1] = Pending
<1>1. /\ Len(made) \in Nat /\ Calls = 1..Len(made)
      /\ Len(futures) \in Nat /\ Drained \in 0..Len(made)
  BY EngineLemma
<1>2. Len(made') = Len(made) + 1
  BY AppendProperties DEF Typed
<1>3. Calls' = Calls \cup {Len(made) + 1}
  <2>1. Calls' = 1..Len(made')
    BY DEF Typed, Calls
  <2> QED
    BY <1>1, <1>2, <2>1
<1>4. /\ IsTail(futures', Len(made')) /\ Len(futures') = Len(futures) + 1
  BY <1>1, <1>2, TailGrows DEF Typed, Engine
<1>5. Drained' = Drained
  <2>1. \A m, n \in Int : m + 1 - (n + 1) = m - n
    OBVIOUS
  <2> QED
    BY <1>1, <1>2, <1>4, <2>1 DEF Drained
<1>6. (\A c \in Calls : result'[c] = result[c]) /\ result'[Len(made) + 1] = Pending
  <2>1. Pending \in Results
    BY DEF Pending, Results
  <2> QED
    BY <1>1, <2>1, AppendProperties DEF Typed
<1>7. reading = NoRead
  BY DEF Engine
<1>8. \A c \in Calls' : result'[c].is = "pending" <=> c > Drained' \/ c = reading'.call
  <2> TAKE c \in Calls'
  <2>1. CASE c \in Calls
    BY <1>5, <1>6, <2>1 DEF Engine
  <2>2. CASE c = Len(made) + 1
    <3>1. result'[c].is = "pending"
      <4>1. result'[c] = Pending
        BY <1>6, <2>2
      <4>2. Pending.is = "pending"
        BY DEF Pending
      <4> QED
        BY <4>1, <4>2
    <3>2. c > Drained'
      BY <1>1, <1>5, <2>2
    <3> QED
      BY <3>1, <3>2
  <2> QED
    BY <1>3, <2>1, <2>2
<1>9. Engine'
  BY <1>4, <1>7, <1>8 DEF Engine, NoRead
<1> QED
  BY <1>2, <1>3, <1>5, <1>6, <1>7, <1>9

\* The oldest of the futures is read next.
LEMMA DrainKeepsEngine ==
    ASSUME Typed, Typed', Onward, Engine, Drain
    PROVE  /\ Engine' /\ Drained' = Drained + 1 /\ reading = NoRead
           /\ reading' = [call |-> Drained', got |-> <<>>]
           /\ Drained' \in Calls
<1>1. /\ Len(made) \in Nat /\ Calls = 1..Len(made) /\ Drained \in 0..Len(made)
      /\ reading = NoRead /\ futures # <<>> /\ Len(futures) \in Nat
  BY EngineLemma DEF Drain
<1>2. /\ IsTail(Tail(futures), Len(made)) /\ Head(futures) = Len(made) - Len(futures) + 1
      /\ Len(Tail(futures)) = Len(futures) - 1 /\ Len(futures) \in 1..Len(made)
  BY <1>1, TailShrinks DEF Typed, Engine
<1>3. /\ futures' = Tail(futures) /\ UNCHANGED <<made, result, target>>
      /\ reading' = [call |-> Head(futures), got |-> <<>>] /\ pc' = "read" /\ pc = "drain"
  BY DEF Drain
<1>4. Len(made') = Len(made) /\ Len(futures') = Len(futures) - 1
  BY <1>2, <1>3
<1>5. Drained' = Drained + 1 /\ Head(futures) = Drained + 1 /\ Drained + 1 \in Calls
  BY <1>1, <1>2, <1>4 DEF Drained
<1>6. \A c \in Calls' : result'[c].is = "pending" <=> c > Drained' \/ c = reading'.call
  <2>1. Calls' = Calls
    BY <1>3 DEF Calls
  <2>2. \A c \in Calls : result[c].is = "pending" <=> c > Drained
    BY <1>1 DEF Engine, NoRead
  <2> QED
    BY <1>1, <1>3, <1>5, <2>1, <2>2
<1>7. reading'.call = Drained' /\ Len(reading'.got) < Len(Repliers(reading.call)')
  <2>1. Len(reading'.got) = 0
    BY <1>3
  <2>2. PICK r \in Calls : r = reading'.call
    BY <1>3, <1>5
  <2>3. Repliers(reading.call)' = Repliers(r)
    BY <1>3, <2>2 DEF Repliers
  <2>4. Len(Repliers(r)) > 0
    BY RepliersLemma
  <2> QED
    BY <1>3, <1>5, <2>1, <2>3, <2>4
<1>8. target # 0
  BY <1>3 DEF Engine
<1>9. Engine'
  BY <1>2, <1>3, <1>6, <1>7, <1>8 DEF Engine
<1> QED
  BY <1>1, <1>3, <1>5, <1>9

\* Reading ends with a result.
LEMMA ResolveKeepsEngine ==
    ASSUME Typed, Typed', Onward, Engine, NEW value \in {"error", "value"}, NEW got,
           pc = "read", Resolve(value, got), UNCHANGED <<made, futures, target>>
    PROVE  /\ Engine'
           /\ \A c \in Calls \ {reading.call} : result'[c] = result[c]
           /\ result'[reading.call] = [is |-> value, got |-> got]
<1>1. /\ Calls = 1..Len(made) /\ DOMAIN result = Calls
      /\ reading.call \in Calls /\ reading.call = Drained
  BY EngineLemma
<1>2. /\ \A c \in Calls \ {reading.call} : result'[c] = result[c]
      /\ result'[reading.call] = [is |-> value, got |-> got]
      /\ reading' = NoRead /\ pc' = "drain"
  BY <1>1 DEF Resolve, Typed
<1>3. Calls' = Calls /\ Drained' = Drained
  BY DEF Calls, Drained
<1>4. \A c \in Calls : result'[c].is = "pending" <=> c > Drained \/ c = 0
  <2> TAKE c \in Calls
  <2>1. CASE c = reading.call
    BY <1>1, <1>2, <2>1
  <2>2. CASE c # reading.call
    BY <1>1, <1>2, <2>2 DEF Engine
  <2> QED
    BY <2>1, <2>2
<1>5. Engine'
  BY <1>2, <1>3, <1>4 DEF Engine, NoRead
<1> QED
  BY <1>2, <1>5

\* The other steps leave the futures alone.
LEMMA EngineRests ==
    ASSUME Typed, Engine, UNCHANGED <<made, futures, result, reading>>,
           \/ UNCHANGED <<pc, target>>
           \/ pc' = "gone"
           \/ pc \notin {"read", "gone"} /\ pc' \notin {"drain", "read"}
           \/ pc = "idle" /\ pc' = "drain" /\ target' \in Calls
    PROVE  Engine'
<1>1. Calls = 1..Len(made) /\ Len(made) \in Nat
  BY CallsLemma
<1>2. Drained' = Drained /\ Calls' = Calls /\ Repliers(reading.call)' = Repliers(reading.call)
  BY DEF Drained, Calls, Repliers
<1> QED
  BY <1>1, <1>2 DEF Engine

-----------------------------------------------------------------------------
(* Which answers are unread.                                               *)

\* Nothing is asked or read, and w answers nothing.
LEMMA MatchedRests ==
    ASSUME Typed, Onward, NEW w \in Ranks, InOrder(w), Matched(w),
           UNCHANGED <<made, futures, reading>>, inbox'[w] = inbox[w],
           work'[w] \in {work[w], Exited}, Q(w)' = Q(w)
    PROVE  Matched(w)'
<1>1. /\ Calls = 1..Len(made) /\ Len(made) \in Nat /\ Taken(w) \in 0..Len(made)
  BY TakenLemma
<1>2. Calls' = Calls /\ Taken(w)' = Taken(w)
  BY DEF Calls, Taken
<1>3. \A c : (Unread(w, c)' <=> Unread(w, c)) /\ (Replies(w, c)' <=> Replies(w, c))
  BY DEF Unread, Replies, Drained, Repliers
<1>4. \A i \in DOMAIN Q(w) : Unread(w, Q(w)[i].call)'
  <2> TAKE i \in DOMAIN Q(w)
  <2>1. PICK c : c = Q(w)[i].call
    OBVIOUS
  <2>2. Unread(w, c)'
    BY <1>3, <2>1 DEF Matched
  <2> QED
    BY <2>1, <2>2
<1>5. \A c \in Calls : c # Exited
  BY <1>1 DEF Exited
<1> QED
  BY <1>1, <1>2, <1>3, <1>4, <1>5 DEF Matched

\* The answers to a new call are unread, and nobody has taken the call.
LEMMA CallKeepsMatched ==
    ASSUME Typed, Typed', Onward, NEW w \in Ranks, InOrder(w), Answered(w), Matched(w),
           Engine, reading = NoRead, UNCHANGED <<reading, work, answers, outq>>,
           Drained' = Drained, Taken(w)' = Taken(w), Len(made') = Len(made) + 1,
           Calls' = Calls \cup {Len(made) + 1}
    PROVE  Matched(w)'
<1>1. /\ Calls = 1..Len(made) /\ Len(made) \in Nat /\ Taken(w) \in 0..Len(made)
      /\ Drained \in 0..Len(made) /\ work[w] \in 0..Taken(w) \cup {Exited}
  BY TakenLemma, EngineLemma
<1>2. Q(w)' = Q(w) /\ reading.call = 0 /\ reading'.call = 0
  BY DEF Q, NoRead
<1>3. \A c \in Calls : Replies(w, c)' <=> Replies(w, c)
  BY OnwardLemma
<1>4. \A c \in Calls : Unread(w, c)' <=> Unread(w, c)
  BY <1>1, <1>2, <1>3 DEF Unread
<1>5. ASSUME NEW c, c = Len(made) + 1, Replies(w, c)' PROVE Unread(w, c)'
  BY <1>1, <1>5 DEF Unread
<1>6. \A i \in DOMAIN Q(w) : Unread(w, Q(w)[i].call)'
  <2> TAKE i \in DOMAIN Q(w)
  <2>1. Q(w)[i].call \in Calls
    BY <1>1 DEF Answered, Honest
  <2>2. PICK c \in Calls : c = Q(w)[i].call
    BY <2>1
  <2>3. Unread(w, c)'
    BY <1>4, <2>2 DEF Matched
  <2> QED
    BY <1>2, <2>2, <2>3
<1>7. ASSUME NEW c \in Calls', Unread(w, c)', c < Taken(w) \/ (c = Taken(w) /\ work[w] \notin {c, Exited})
      PROVE  \E i \in DOMAIN Q(w) : Q(w)[i].call = c
  <2>1. c \in Calls
    BY <1>1, <1>7
  <2> QED
    BY <1>4, <1>7, <2>1 DEF Matched
<1>8. ASSUME NEW c \in Calls', Replies(w, c)', c > Taken(w) \/ c = work[w]
      PROVE  Unread(w, c)'
  <2>1. CASE c = Len(made) + 1
    BY <1>5, <1>8, <2>1
  <2>2. CASE c \in Calls
    BY <1>3, <1>4, <1>8, <2>2 DEF Matched
  <2> QED
    BY <2>1, <2>2
<1> QED
  BY <1>2, <1>6, <1>7, <1>8 DEF Matched

\* A call that is being read was not read before.
LEMMA DrainKeepsMatched ==
    ASSUME Typed, Onward, NEW w \in Ranks, InOrder(w), Answered(w), Matched(w), Engine,
           UNCHANGED <<made, inbox, work, answers, outq>>,
           reading = NoRead, Drained' = Drained + 1, reading' = [call |-> Drained', got |-> <<>>]
    PROVE  Matched(w)'
<1>1. /\ Calls = 1..Len(made) /\ Len(made) \in Nat /\ Taken(w) \in 0..Len(made)
      /\ Drained \in 0..Len(made)
  BY TakenLemma, EngineLemma
<1>2. Calls' = Calls /\ Taken(w)' = Taken(w) /\ Q(w)' = Q(w)
  BY DEF Calls, Taken, Q
<1>3. \A c : Replies(w, c)' <=> Replies(w, c)
  BY DEF Replies, Repliers
<1>4. reading.call = 0 /\ reading'.call = Drained + 1 /\ Len(reading'.got) = 0
  BY DEF NoRead
<1>5. ASSUME NEW c \in Calls PROVE Unread(w, c)' <=> Unread(w, c)
  <2>1. Repliers(c)' = Repliers(c)
    BY DEF Repliers
  <2>2. Replies(w, c) <=> \E i \in DOMAIN Repliers(c) : i > 0 /\ Repliers(c)[i] = w
    BY RepliersLemma DEF Replies
  <2>3. Unread(w, c) <=> c > Drained /\ Replies(w, c)
    BY <1>1, <1>4 DEF Unread
  <2>4. Unread(w, c)' <=> (c > Drained + 1 \/ c = Drained + 1) /\ Replies(w, c)
    BY <1>3, <1>4, <2>1, <2>2 DEF Unread
  <2> QED
    BY <1>1, <2>3, <2>4
<1>6. \A i \in DOMAIN Q(w) : Unread(w, Q(w)[i].call)'
  <2> TAKE i \in DOMAIN Q(w)
  <2>1. Q(w)[i].call \in Calls
    BY <1>1 DEF Answered, Honest
  <2>2. PICK c \in Calls : c = Q(w)[i].call
    BY <2>1
  <2>3. Unread(w, c)'
    BY <1>5, <2>2 DEF Matched
  <2> QED
    BY <1>2, <2>2, <2>3
<1> QED
  BY <1>2, <1>3, <1>5, <1>6 DEF Matched

LEMMA TakeKeepsMatched ==
    ASSUME Typed, Onward, NEW w \in Ranks, InOrder(w), Answered(w), Matched(w), Take(w),
           Taken(w) \in Nat, Taken(w)' = Taken(w) + 1, work'[w] = Taken(w) + 1
    PROVE  Matched(w)'
<1>1. UNCHANGED <<made, futures, reading, outq, answers>> /\ work[w] = Loop
  BY DEF Take, engine
<1>2. Calls' = Calls /\ Q(w)' = Q(w) /\ Calls = 1..Len(made)
  BY <1>1, CallsLemma DEF Calls, Q
<1>3. \A c : (Unread(w, c)' <=> Unread(w, c)) /\ (Replies(w, c)' <=> Replies(w, c))
  BY <1>1 DEF Unread, Replies, Drained, Repliers
<1>4. \A i \in DOMAIN Q(w) : Unread(w, Q(w)[i].call)'
  <2> TAKE i \in DOMAIN Q(w)
  <2>1. PICK c : c = Q(w)[i].call
    OBVIOUS
  <2>2. Unread(w, c)'
    BY <1>3, <2>1 DEF Matched
  <2> QED
    BY <1>2, <2>1, <2>2
<1>5. \A c \in Calls : Loop \notin {c, Exited} /\ c \in Nat
  BY <1>2, CallsLemma DEF Loop, Exited
<1>6. ASSUME NEW c \in Calls, Unread(w, c)',
             c < Taken(w)' \/ (c = Taken(w)' /\ work'[w] \notin {c, Exited})
      PROVE  \E i \in DOMAIN Q(w) : Q(w)[i].call = c
  <2>1. c < Taken(w) \/ c = Taken(w)
    BY <1>5, <1>6
  <2> QED
    BY <1>1, <1>3, <1>5, <1>6, <2>1 DEF Matched
<1>7. ASSUME NEW c \in Calls, Replies(w, c)', c > Taken(w)' \/ c = work'[w]
      PROVE  Unread(w, c)'
  <2>1. c > Taken(w)
    BY <1>5, <1>7
  <2> QED
    BY <1>3, <1>7, <2>1 DEF Matched
<1> QED
  BY <1>2, <1>4, <1>6, <1>7 DEF Matched

\* A call that ends is answered, and the answer was not read before.
LEMMA EndsKeepsMatched ==
    ASSUME Typed, Onward, NEW w \in Ranks, InOrder(w), Answered(w), Matched(w),
           NEW ok \in BOOLEAN, NEW with \in SUBSET Calls, Busy(w), Answer(w, ok, with),
           work'[w] = Loop, work[w] \in Calls, work[w] = Taken(w),
           UNCHANGED <<made, inbox, async, futures, reading>>
    PROVE  Matched(w)'
<1>1. Calls = 1..Len(made) /\ Len(made) \in Nat
  BY CallsLemma
<1> DEFINE a == AnswerOf(w, ok, with)
           n == Len(Q(w))
<1>2. /\ a \in Answers
      /\ Replies(w, work[w]) => Q(w)' = Append(Q(w), a)
      /\ ~Replies(w, work[w]) => Q(w)' = Q(w)
  <2>1. with \in SUBSET Nat
    BY <1>1
  <2> QED
    BY <2>1, AnswerEffect
<1>3. n \in Nat /\ DOMAIN Q(w) = 1..n /\ Q(w) \in Seq(Answers)
  BY QTyped
<1>4. a.call = work[w]
  BY DEF AnswerOf
<1>5. Calls' = Calls /\ Taken(w)' = Taken(w)
  BY DEF Calls, Taken
<1>6. \A c : (Unread(w, c)' <=> Unread(w, c)) /\ (Replies(w, c)' <=> Replies(w, c))
  BY DEF Unread, Replies, Drained, Repliers
<1>7. /\ Replies(w, work[w]) => /\ DOMAIN Q(w)' = 1..n + 1 /\ Q(w)'[n + 1].call = work[w]
                                /\ Unread(w, work[w])
      /\ ~Replies(w, work[w]) => DOMAIN Q(w)' = 1..n /\ ~Unread(w, work[w])
      /\ \A i \in 1..n : Q(w)'[i] = Q(w)[i] /\ i \in DOMAIN Q(w)'
  <2>1. CASE Replies(w, work[w])
    <3>1. /\ DOMAIN Append(Q(w), a) = 1..n + 1 /\ Append(Q(w), a)[n + 1] = a
          /\ \A i \in 1..n : Append(Q(w), a)[i] = Q(w)[i]
      BY <1>2, <1>3, AppendProperties, LenProperties
    <3>2. Unread(w, work[w])
      BY <2>1 DEF Matched
    <3> HIDE DEF a, n
    <3> QED
      BY <1>2, <1>3, <1>4, <2>1, <3>1, <3>2
  <2>2. CASE ~Replies(w, work[w])
    <3>1. ~Unread(w, work[w])
      BY <2>2 DEF Unread, Replies
    <3> QED
      BY <1>2, <1>3, <2>2, <3>1
  <2> QED
    BY <2>1, <2>2
<1> HIDE DEF n, a
<1>8. ASSUME NEW i \in DOMAIN Q(w)' PROVE Unread(w, Q(w)[i].call)'
  <2>1. PICK c : c = Q(w)'[i].call
    OBVIOUS
  <2>2. Unread(w, c)
    BY <1>3, <1>7, <1>8, <2>1 DEF Matched
  <2>3. Unread(w, c)'
    BY <1>6, <2>2
  <2> QED
    BY <2>1, <2>3
<1>9. ASSUME NEW c \in Calls, Unread(w, c)', c < Taken(w) \/ c = Taken(w)
      PROVE  \E i \in DOMAIN Q(w)' : Q(w)'[i].call = c
  <2>1. Unread(w, c)
    BY <1>6, <1>9
  <2>2. CASE c = Taken(w)
    BY <1>3, <1>7, <2>1, <2>2
  <2>3. CASE c < Taken(w)
    <3>1. PICK i \in DOMAIN Q(w) : Q(w)[i].call = c
      BY <2>1, <2>3 DEF Matched
    <3> QED
      BY <1>3, <1>7, <3>1
  <2> QED
    BY <1>9, <2>2, <2>3
<1>10. ASSUME NEW c \in Calls, Replies(w, c)', c > Taken(w) \/ c = work'[w]
       PROVE  Unread(w, c)'
  <2>1. c > Taken(w)
    BY <1>1, <1>10 DEF Loop
  <2> QED
    BY <1>6, <1>10, <2>1 DEF Matched
<1>11. \A i \in DOMAIN Q(w)' : Unread(w, Q(w)[i].call)'
  BY <1>8
<1> QED
  BY <1>5, <1>9, <1>10, <1>11 DEF Matched

-----------------------------------------------------------------------------
(* Reading an answer.                                                      *)

LEMMA ReadEffect ==
    ASSUME Typed, Engine, Read, NEW w \in Ranks, w = From
    PROVE  /\ Q(w) # <<>> /\ Q(w)' = Tail(Q(w))
           /\ Head(answers[w]) = Q(w)[1] /\ Q(w)[1] \in Answers
           /\ \A v \in Ranks : v # w => Q(v)' = Q(v)
           /\ UNCHANGED <<made, futures, target, async, inbox, work, joined, outq>>
<1>2. /\ answers[w] # <<>> /\ answers[w] \in Seq(Answers) /\ outq[w] \in Seq(Answers)
      /\ answers' = [answers EXCEPT ![w] = Tail(answers[w])]
      /\ UNCHANGED <<made, futures, target, async, inbox, work, joined, outq>>
  BY DEF Read, Typed, rest
<1>3. answers'[w] = Tail(answers[w]) /\ \A v \in Ranks : v # w => answers'[v] = answers[v]
  BY <1>2 DEF Typed
<1>4. /\ Tail(answers[w]) \o outq[w] = Tail(Q(w)) /\ Head(answers[w]) = Head(Q(w)) /\ Q(w) # <<>>
  BY <1>2, QueueLemma DEF Q
<1>5. Q(w)' = Tail(Q(w))
  BY <1>2, <1>3, <1>4 DEF Q
<1>6. Head(Q(w)) = Q(w)[1] /\ Head(Q(w)) \in Answers
  BY <1>4, QTyped, TailLemma
<1>7. \A v \in Ranks : v # w => Q(v)' = Q(v)
  BY <1>2, <1>3 DEF Q
<1> QED
  BY <1>2, <1>4, <1>5, <1>6, <1>7

LEMMA ReadKeepsWorker ==
    ASSUME Typed, Typed', Onward, Engine, Read, NEW v \in Ranks, InOrder(v), Answered(v)
    PROVE  InOrder(v)' /\ Answered(v)'
<1>1. PICK w \in Ranks : w = From
  BY EngineLemma DEF Read
<1>2. /\ Q(w) # <<>> /\ Q(w)' = Tail(Q(w)) /\ (v # w => Q(v)' = Q(v))
      /\ UNCHANGED <<made, async, inbox, work, joined, outq>>
  BY <1>1, ReadEffect
<1>3. ~async => outq'[v] = <<>>
  BY <1>2 DEF Answered
<1>4. CASE v # w
  BY <1>2, <1>3, <1>4, WorkerRests
<1>5. CASE v = w
  <2>1. Taken(v)' = Taken(v) /\ Taken(v) \in Nat
    BY <1>2, TakenLemma DEF Taken
  <2>2. InOrder(v)'
    BY <1>2, <2>1 DEF InOrder
  <2> DEFINE q == Tail(Q(v))
  <2>3. /\ DOMAIN Q(v) = 1..Len(Q(v)) /\ Len(Q(v)) \in Nat /\ Len(Q(v)) >= 1
        /\ DOMAIN q = 1..Len(q) /\ Len(q) = Len(Q(v)) - 1
        /\ \A i \in 1..Len(q) : q[i] = Q(v)[i + 1]
        /\ \A i \in DOMAIN Q(v) : Q(v)[i] \in Answers
    BY <1>2, <1>5, QTyped, TailLemma, LenProperties
  <2>4. Q(v)' = q
    BY <1>2, <1>5
  <2> HIDE DEF q
  <2>5. \A i \in DOMAIN q : i + 1 \in DOMAIN Q(v) /\ q[i] = Q(v)[i + 1]
    BY <2>3
  <2>6. \A i, j \in DOMAIN Q(v)' : i < j => Q(v)'[i].call < Q(v)'[j].call
    <3> SUFFICES ASSUME NEW i \in DOMAIN q, NEW j \in DOMAIN q, i < j
                 PROVE  q[i].call < q[j].call
      BY <2>4
    <3>1. i + 1 < j + 1
      BY <2>3
    <3> QED
      BY <2>5, <3>1 DEF Answered
  <2>7. ASSUME NEW i \in DOMAIN Q(v)' PROVE Honest(v, Q(v)[i])'
    <3>1. i + 1 \in DOMAIN Q(v) /\ q[i] = Q(v)[i + 1]
      BY <2>4, <2>5, <2>7
    <3>2. PICK m \in Answers : m = Q(v)[i + 1]
      BY <2>3, <3>1
    <3>3. Honest(v, m)
      BY <3>1, <3>2 DEF Answered
    <3>4. m.call # work'[v] /\ Taken(v) <= Taken(v)'
      BY <1>2, <2>1, <3>3 DEF Honest
    <3>5. Honest(v, m)'
      BY <2>2, <3>3, <3>4, HonestKept
    <3> QED
      BY <2>4, <3>1, <3>2, <3>5
  <2>8. \A i \in DOMAIN Q(v)' : Honest(v, Q(v)[i])'
    BY <2>7
  <2>9. ~async' => outq'[v] = <<>>
    BY <1>2, <1>3
  <2> QED
    BY <2>2, <2>6, <2>8, <2>9 DEF Answered
<1> QED
  BY <1>4, <1>5

\* What is read is the answer to the call it is read for.
LEMMA HeadIsMine ==
    ASSUME Typed, Engine, Read, NEW w \in Ranks, w = From, InOrder(w), Answered(w), Matched(w)
    PROVE  /\ Q(w)[1].call = reading.call /\ Honest(w, Q(w)[1])
           /\ Unread(w, reading.call)
           /\ reading.call <= Taken(w) /\ reading.call # work[w]
<1> DEFINE r == reading.call
           h == Q(w)[1].call
<1>1. /\ Calls = 1..Len(made) /\ Len(made) \in Nat /\ r \in Calls /\ r = Drained
      /\ Len(reading.got) \in Nat /\ Len(reading.got) + 1 \in DOMAIN Repliers(r)
  BY EngineLemma DEF Read
<1>2. Q(w) # <<>> /\ Q(w) \in Seq(Answers) /\ DOMAIN Q(w) = 1..Len(Q(w)) /\ Len(Q(w)) \in Nat
  BY ReadEffect, QTyped
<1>3. 1 \in DOMAIN Q(w)
  BY <1>2, EmptySeq
<1>4. Honest(w, Q(w)[1]) /\ Unread(w, h)
  BY <1>3 DEF Answered, Matched
<1>5. h \in 1..Taken(w) /\ h # work[w] /\ Taken(w) \in 0..Len(made)
  BY <1>4, TakenLemma DEF Honest
<1>6. Unread(w, r)
  BY <1>1 DEF Unread, From
<1>7. h > r \/ h = r
  BY <1>1, <1>4 DEF Unread
<1> HIDE DEF r, h
<1>8. ~(h > r)
  <2> SUFFICES ASSUME h > r PROVE FALSE
    OBVIOUS
  <2>1. r < Taken(w)
    BY <1>1, <1>5
  <2>2. PICK i \in DOMAIN Q(w) : Q(w)[i].call = r
    BY <1>1, <1>6, <2>1 DEF Matched
  <2>3. i = 1 \/ 1 < i
    BY <1>2, <2>2
  <2>4. i # 1
    BY <1>1, <1>5, <2>2 DEF h
  <2>5. h < r
    BY <1>3, <2>2, <2>3, <2>4 DEF Answered, h
  <2> QED
    BY <1>1, <1>5, <2>5
<1>9. h = r
  BY <1>7, <1>8
<1> QED
  BY <1>4, <1>5, <1>6, <1>9 DEF h, r

\* And it is read once.
LEMMA ReadUnread ==
    ASSUME Typed, Engine, Read, NEW w \in Ranks, w = From,
           \/ reading' = NoRead /\ Len(reading.got) + 1 = Len(Repliers(reading.call))
           \/ /\ reading'.call = reading.call /\ Len(reading'.got) = Len(reading.got) + 1
    PROVE  \A v \in Ranks : \A c \in Calls :
              Unread(v, c)' <=> Unread(v, c) /\ ~(v = w /\ c = reading.call)
<1> DEFINE r == reading.call
           k == Len(reading.got)
<1>1. /\ Calls = 1..Len(made) /\ Len(made) \in Nat /\ r \in Calls /\ r = Drained
      /\ k \in Nat /\ k + 1 \in DOMAIN Repliers(r)
  BY EngineLemma DEF Read
<1>2. /\ DOMAIN Repliers(r) = 1..Len(Repliers(r)) /\ Len(Repliers(r)) \in Nat
      /\ \A i, j \in DOMAIN Repliers(r) : Repliers(r)[i] = Repliers(r)[j] => i = j
  BY RepliersLemma
<1>3. Repliers(r)[k + 1] = w
  BY DEF From
<1>4. Drained' = Drained
  BY DEF Read, Drained
<1>5. \A c : Repliers(c)' = Repliers(c)
  BY DEF Read, Repliers
<1> HIDE DEF r, k
<1>6. ASSUME NEW v \in Ranks, NEW c \in Calls
      PROVE  Unread(v, c)' <=> Unread(v, c) /\ ~(v = w /\ c = r)
  <2>1. Replies(v, c)' <=> Replies(v, c)
    BY <1>5 DEF Replies
  <2>2. CASE c # r
    <3>1. c # reading.call /\ c # reading'.call
      BY <1>1, <2>2 DEF NoRead, r
    <3> QED
      BY <1>4, <2>1, <2>2, <3>1 DEF Unread
  <2>3. CASE c = r
    <3>1. ~(c > Drained)
      BY <1>1, <2>3
    <3>2. Unread(v, r) <=> \E i \in DOMAIN Repliers(r) : i > k /\ Repliers(r)[i] = v
      BY <2>3, <3>1 DEF Unread, r, k
    <3>3. Unread(v, c)' <=> \E i \in DOMAIN Repliers(r) : i > k + 1 /\ Repliers(r)[i] = v
      <4>1. CASE reading' = NoRead /\ k + 1 = Len(Repliers(r))
        <5>1. ~Unread(v, c)'
          BY <1>1, <1>4, <2>3, <3>1, <4>1 DEF Unread, NoRead
        <5>2. \A i \in DOMAIN Repliers(r) : ~(i > k + 1)
          BY <1>2, <4>1
        <5> QED
          BY <5>1, <5>2
      <4>2. CASE reading'.call = r /\ Len(reading'.got) = k + 1
        BY <1>4, <1>5, <2>3, <3>1, <4>2 DEF Unread
      <4> QED
        BY <4>1, <4>2 DEF r, k
    <3>4. \A i \in DOMAIN Repliers(r) : Repliers(r)[i] = w => i = k + 1
      BY <1>1, <1>2, <1>3
    <3>5. \A i \in DOMAIN Repliers(r) : i > k <=> i > k + 1 \/ i = k + 1
      BY <1>1, <1>2
    <3>6. CASE v = w
      <4>1. ~(k + 1 > k + 1)
        BY <1>1
      <4> QED
        BY <2>3, <3>3, <3>4, <3>6, <4>1
    <3>7. CASE v # w
      BY <1>3, <2>3, <3>2, <3>3, <3>5, <3>7
    <3> QED
      BY <3>6, <3>7
  <2> QED
    BY <2>2, <2>3
<1> QED
  BY <1>6 DEF r

LEMMA ReadKeepsMatched ==
    ASSUME Typed, Engine, Read, NEW w \in Ranks, w = From, InOrder(w), Answered(w), Matched(w),
           NEW v \in Ranks, InOrder(v), Answered(v), Matched(v),
           \A u \in Ranks : \A c \in Calls :
              Unread(u, c)' <=> Unread(u, c) /\ ~(u = w /\ c = reading.call)
    PROVE  Matched(v)'
<1>1. /\ Calls = 1..Len(made) /\ Len(made) \in Nat /\ reading.call \in Calls
  BY EngineLemma DEF Read
<1>2. /\ Q(w) # <<>> /\ Q(w)' = Tail(Q(w)) /\ (v # w => Q(v)' = Q(v))
      /\ UNCHANGED <<made, inbox, work>>
  BY ReadEffect
<1>3. Calls' = Calls /\ Taken(v)' = Taken(v)
  BY <1>2 DEF Calls, Taken
<1>4. \A c : Replies(v, c)' <=> Replies(v, c)
  BY <1>2 DEF Replies, Repliers
<1>5. /\ Q(w)[1].call = reading.call /\ reading.call <= Taken(w) /\ reading.call # work[w]
      /\ Taken(w) \in 0..Len(made)
  BY HeadIsMine, TakenLemma
\* What is left in the queues, and what has left them
<1>6. /\ \A i \in DOMAIN Q(v)' : \E j \in DOMAIN Q(v) : Q(v)'[i] = Q(v)[j] /\ (v = w => j > 1)
      /\ \A j \in DOMAIN Q(v) : v # w \/ j # 1 => \E i \in DOMAIN Q(v)' : Q(v)'[i] = Q(v)[j]
  <2>1. CASE v # w
    BY <1>2, <2>1
  <2>2. CASE v = w
    <3> DEFINE q == Tail(Q(w))
    <3>1. /\ DOMAIN Q(w) = 1..Len(Q(w)) /\ Len(Q(w)) \in Nat /\ Len(Q(w)) >= 1
          /\ DOMAIN q = 1..Len(q) /\ Len(q) = Len(Q(w)) - 1
          /\ \A i \in 1..Len(q) : q[i] = Q(w)[i + 1]
      BY <1>2, QTyped, TailLemma, LenProperties
    <3> HIDE DEF q
    <3>2. \A i \in DOMAIN q : i + 1 \in DOMAIN Q(w) /\ i + 1 > 1 /\ q[i] = Q(w)[i + 1]
      BY <3>1
    <3>3. \A j \in DOMAIN Q(w) : j # 1 => j - 1 \in DOMAIN q /\ q[j - 1] = Q(w)[j]
      <4> TAKE j \in DOMAIN Q(w)
      <4> HAVE j # 1
      <4>1. j - 1 \in 1..Len(q)
        BY <3>1
      <4>2. q[j - 1] = Q(w)[(j - 1) + 1] /\ (j - 1) + 1 = j
        BY <3>1, <4>1
      <4> QED
        BY <3>1, <4>1, <4>2
    <3>4. Q(v)' = q /\ Q(v) = Q(w)
      BY <1>2, <2>2 DEF q
    <3> QED
      BY <2>2, <3>2, <3>3, <3>4
  <2> QED
    BY <2>1, <2>2
<1>7. ASSUME NEW i \in DOMAIN Q(v)' PROVE Unread(v, Q(v)[i].call)'
  <2>1. PICK j \in DOMAIN Q(v) : Q(v)'[i] = Q(v)[j] /\ (v = w => j > 1)
    BY <1>6, <1>7
  <2>2. Q(v)[j].call \in Calls /\ Unread(v, Q(v)[j].call)
    <3>1. Q(v)[j].call \in 1..Taken(v) /\ Taken(v) \in 0..Len(made)
      BY <2>1, TakenLemma DEF Answered, Honest
    <3> QED
      BY <1>1, <2>1, <3>1 DEF Matched
  <2>3. ~(v = w /\ Q(v)[j].call = reading.call)
    <3> SUFFICES ASSUME v = w, Q(v)[j].call = reading.call PROVE FALSE
      OBVIOUS
    <3>1. 1 \in DOMAIN Q(w) /\ 1 < j
      BY <1>2, <2>1, QTyped, EmptySeq
    <3>2. Q(w)[1].call < Q(w)[j].call
      BY <2>1, <3>1 DEF Answered
    <3> QED
      BY <1>1, <1>5, <3>2
  <2>4. PICK c \in Calls : c = Q(v)[j].call
    BY <2>2
  <2>5. Unread(v, c)'
    BY <2>2, <2>3, <2>4
  <2> QED
    BY <2>1, <2>4, <2>5
<1>8. ASSUME NEW c \in Calls, Unread(v, c)',
             c < Taken(v) \/ (c = Taken(v) /\ work[v] \notin {c, Exited})
      PROVE  \E i \in DOMAIN Q(v)' : Q(v)'[i].call = c
  <2>1. Unread(v, c) /\ ~(v = w /\ c = reading.call)
    BY <1>8
  <2>2. PICK j \in DOMAIN Q(v) : Q(v)[j].call = c
    BY <1>8, <2>1 DEF Matched
  <2>3. v # w \/ j # 1
    BY <1>5, <2>1, <2>2
  <2> QED
    BY <1>6, <2>2, <2>3
<1>9. ASSUME NEW c \in Calls, Replies(v, c), c > Taken(v) \/ c = work[v]
      PROVE  Unread(v, c)'
  <2>1. Unread(v, c)
    BY <1>9 DEF Matched
  <2>2. ~(v = w /\ c = reading.call)
    BY <1>1, <1>5, <1>9
  <2> QED
    BY <2>1, <2>2
<1>10. \A i \in DOMAIN Q(v)' : Unread(v, Q(v)[i].call)'
  BY <1>7
<1> QED
  BY <1>2, <1>3, <1>4, <1>8, <1>9, <1>10 DEF Matched

-----------------------------------------------------------------------------
(* The results.                                                            *)

LEMMA GoodKept ==
    ASSUME Typed, Typed', Onward, NEW m, NEW c, Good(m, c)
    PROVE  Good(m, c)'
BY OnwardLemma DEF Good

\* Results stay, and those of new calls are pending.
LEMMA OwnedKept ==
    ASSUME Typed, Typed', Onward, Owned, NEW S \in SUBSET Calls,
           \A c \in S : result'[c] = result[c],
           \A c \in Calls \ S : result[c].is # "error",
           \A c \in Calls' \ S : result'[c].is # "value"
    PROVE  Owned'
<1>1. Calls = 1..Len(made) /\ Len(made) \in Nat /\ Calls \subseteq Calls'
  BY CallsLemma, OnwardLemma
<1>2. ASSUME NEW c \in Calls', result'[c].is = "value", FineTo(c)'
      PROVE  /\ Len(result'[c].got) = Len(Repliers(c)')
             /\ \A i \in DOMAIN result'[c].got : Good(result[c].got[i], c)'
             /\ made'[c] = "execute" => HasJoined(OutputRank, c)'
  <2>1. c \in S /\ result'[c] = result[c] /\ c \in Calls
    BY <1>2
  <2>2. FineTo(c)
    <3> SUFFICES ASSUME NEW b \in 1..c PROVE result[b].is # "error"
      BY DEF FineTo
    <3>1. b \in Calls
      BY <1>1, <2>1
    <3>2. CASE b \in S
      BY <1>2, <3>2 DEF FineTo
    <3>3. CASE b \notin S
      BY <3>1, <3>3
    <3> QED
      BY <3>2, <3>3
  <2>3. /\ Len(result[c].got) = Len(Repliers(c))
        /\ \A i \in DOMAIN result[c].got : Good(result[c].got[i], c)
        /\ made[c] = "execute" => HasJoined(OutputRank, c)
    BY <1>2, <2>1, <2>2 DEF Owned
  <2>4. Repliers(c)' = Repliers(c) /\ (HasJoined(OutputRank, c) => HasJoined(OutputRank, c)')
        /\ made'[c] = made[c]
    BY <2>1, OnwardLemma, RankAssumption DEF Onward
  <2>5. ASSUME NEW i \in DOMAIN result'[c].got PROVE Good(result[c].got[i], c)'
    <3>1. PICK m : m = result[c].got[i]
      OBVIOUS
    <3>2. Good(m, c)
      BY <2>1, <2>3, <2>5, <3>1
    <3>3. Good(m, c)'
      BY <3>2, GoodKept
    <3> QED
      BY <2>1, <3>1, <3>3
  <2> QED
    BY <2>1, <2>3, <2>4, <2>5
<1> QED
  BY <1>2 DEF Owned

LEMMA ReadingKept ==
    ASSUME Typed, Typed', Onward, Reading, UNCHANGED reading, NoError' => NoError
    PROVE  Reading'
<1>1. ASSUME reading'.call # 0, NoError', NEW i \in DOMAIN reading'.got
      PROVE  Good(reading.got[i], reading.call)'
  <2>1. PICK m, c : m = reading.got[i] /\ c = reading.call
    OBVIOUS
  <2>2. Good(m, c)
    BY <1>1, <2>1 DEF Reading
  <2>3. Good(m, c)'
    BY <2>2, GoodKept
  <2> QED
    BY <2>1, <2>3
<1> QED
  BY <1>1 DEF Reading

LEMMA NoErrorBefore ==
    ASSUME Typed, Typed', Onward, NEW S \in SUBSET Calls, NoError',
           \A c \in S : result'[c] = result[c],
           \A c \in Calls \ S : result[c].is # "error"
    PROVE  NoError
BY OnwardLemma DEF NoError

\* The answer read is the one of all ranks, if no rank that is silent failed.
LEMMA HeadIsGood ==
    ASSUME Typed, Engine, Owned, Read, NoError, NEW w \in Ranks, w = From,
           InOrder(w), Answered(w), Matched(w), Q(w)[1].ok
    PROVE  /\ Good(Q(w)[1], reading.call)
           /\ made[reading.call] = "execute" => HasJoined(OutputRank, reading.call)
<1> DEFINE r == reading.call
           m == Q(w)[1]
<1>1. /\ Calls = 1..Len(made) /\ Len(made) \in Nat /\ r \in Calls /\ r = Drained
      /\ Len(reading.got) \in Nat /\ Len(reading.got) + 1 \in DOMAIN Repliers(r)
      /\ DOMAIN result = Calls
  BY EngineLemma DEF Read
<1>2. m.call = r /\ Honest(w, m)
  BY HeadIsMine
<1> HIDE DEF m
<1>3. made[r] = "execute" => w = OutputRank /\ HasJoined(OutputRank, r)
  <2> HAVE made[r] = "execute"
  <2>1. Repliers(r) = <<OutputRank>>
    BY RepliersLemma
  <2>2. w = OutputRank
    BY <1>1, <2>1 DEF From
  <2>3. m.ok
    BY DEF m
  <2>4. HasJoined(w, r)
    BY <1>2, <2>3 DEF Honest
  <2> QED
    BY <2>2, <2>4
<1>4. NoneSkipped /\ made[r] = "execute" => Clean(r)
  <2> SUFFICES ASSUME NoneSkipped, made[r] = "execute", NEW b \in 1..r, Skipped(OutputRank, b)
               PROVE  FALSE
    BY DEF Clean
  <2>1. b \in Calls /\ made[b] = "execute" /\ ~HasJoined(OutputRank, b)
    BY <1>1 DEF Skipped
  <2>2. b # r /\ b < r
    BY <1>1, <1>3, <2>1
  <2>3. result[b].is = "value"
    <3>1. result[b].is # "pending"
      BY <1>1, <2>1, <2>2 DEF Engine
    <3>2. result[b].is # "error"
      BY <2>1 DEF NoError
    <3>3. result[b] \in Results
      BY <1>1, <2>1 DEF Typed
    <3> QED
      BY <3>1, <3>2, <3>3 DEF Results
  <2>4. FineTo(b)
    BY <1>1, <2>2 DEF FineTo, NoError
  <2> QED
    BY <2>1, <2>3, <2>4 DEF Owned
<1>5. NoneSkipped => m.with = {r}
  <2> HAVE NoneSkipped
  <2>1. m.ok /\ (made[m.call] = "execute" => Clean(m.call))
    BY <1>2, <1>4 DEF m
  <2> QED
    BY <1>2, <2>1 DEF Honest
<1> QED
  BY <1>2, <1>3, <1>5 DEF Good, m

LEMMA ReadKeeps ==
    ASSUME AInv, Typed', Onward, Read
    PROVE  AInv'
<1> DEFINE r == reading.call
           k == Len(reading.got)
<1>0. Typed /\ Engine /\ Owned /\ Reading /\ Aligned /\ \A v \in Ranks : InOrder(v) /\ Answered(v)
  BY DEF AInv
<1>1. /\ Calls = 1..Len(made) /\ Len(made) \in Nat /\ r \in Calls /\ r = Drained
      /\ k \in Nat /\ k + 1 \in DOMAIN Repliers(r) /\ From \in Ranks /\ DOMAIN result = Calls
      /\ result[r].is = "pending"
  BY <1>0, EngineLemma DEF Read
<1>2. PICK w \in Ranks : w = From
  BY <1>1
<1> DEFINE m == Q(w)[1]
           got == Append(reading.got, m)
<1>3. /\ Q(w) # <<>> /\ m \in Answers /\ Head(answers[w]) = m
      /\ UNCHANGED <<made, futures, target, async, inbox, work, joined>>
  BY <1>0, <1>2, ReadEffect
<1>4. /\ got \in Seq(Answers) /\ Len(got) = k + 1 /\ DOMAIN got = 1..k + 1 /\ got[k + 1] = m
      /\ DOMAIN reading.got = 1..k
      /\ \A i \in 1..k : got[i] = reading.got[i]
  <2>1. reading.got \in Seq(Answers)
    BY <1>0 DEF Typed
  <2> QED
    BY <1>3, <2>1, AppendProperties, LenProperties
<1>5. /\ pc = "read"
      /\ \/ ~m.ok /\ Resolve("error", <<>>)
         \/ m.ok /\ k + 1 = Len(Repliers(r)) /\ Resolve("value", got)
         \/ /\ m.ok /\ k + 1 # Len(Repliers(r))
            /\ reading' = [reading EXCEPT !.got = got] /\ UNCHANGED <<pc, result>>
  BY <1>2, <1>3, <1>4 DEF Read
<1>6. \A v \in Ranks : InOrder(v)' /\ Answered(v)'
  BY <1>0, ReadKeepsWorker
<1>7. Aligned'
  BY <1>0, <1>3, AlignedKept
<1>8. Calls' = Calls
  BY <1>3 DEF Calls
\* What was read, and what is: the answers of the call, until one has failed
<1>9. ASSUME NoError, m.ok
      PROVE  /\ \A i \in DOMAIN got : Good(got[i], r)
             /\ made[r] = "execute" => HasJoined(OutputRank, r)
  <2>1. Good(m, r) /\ (made[r] = "execute" => HasJoined(OutputRank, r))
    BY <1>0, <1>2, <1>9, HeadIsGood DEF AInv
  <2>2. \A i \in DOMAIN reading.got : Good(reading.got[i], r)
    BY <1>0, <1>1, <1>9 DEF Reading
  <2>3. ASSUME NEW i \in DOMAIN got PROVE Good(got[i], r)
    <3>1. i \in 1..k \/ i = k + 1
      BY <1>1, <1>4, <2>3
    <3> HIDE DEF m, got, r, k
    <3> QED
      BY <1>4, <2>1, <2>2, <3>1
  <2> QED
    BY <2>1, <2>3
<1>10. ASSUME NoError, \/ reading' = NoRead /\ k + 1 = Len(Repliers(r))
                       \/ reading'.call = r /\ Len(reading'.got) = k + 1
       PROVE  \A v \in Ranks : Matched(v)'
  <2>1. \A v \in Ranks : Matched(v)
    BY <1>10 DEF AInv
  <2>2. \A v \in Ranks : \A c \in Calls :
           Unread(v, c)' <=> Unread(v, c) /\ ~(v = w /\ c = reading.call)
    BY <1>0, <1>2, <1>10, ReadUnread
  <2> QED
    BY <1>0, <1>2, <2>1, <2>2, ReadKeepsMatched
<1> HIDE DEF m, got, k, r
<1>11. CASE ~m.ok /\ Resolve("error", <<>>)
  <2>1. /\ Engine'
        /\ \A c \in Calls \ {r} : result'[c] = result[c]
        /\ result'[r] = [is |-> "error", got |-> <<>>]
    BY <1>0, <1>3, <1>5, <1>11, ResolveKeepsEngine DEF r
  <2>2. ~NoError'
    BY <1>1, <1>8, <2>1 DEF NoError
  <2>3. Owned'
    <3>1. \A c \in Calls \ (Calls \ {r}) : c = r
      OBVIOUS
    <3>2. result[r].is # "error" /\ result'[r].is # "value"
      BY <1>1, <2>1
    <3>3. Calls \ {r} \in SUBSET Calls
      OBVIOUS
    <3> QED
      BY <1>0, <1>8, <2>1, <3>1, <3>2, <3>3, OwnedKept
  <2>4. Reading'
    BY <2>2 DEF Reading
  <2> QED
    BY <1>6, <1>7, <2>1, <2>2, <2>3, <2>4 DEF AInv
<1>12. CASE m.ok /\ k + 1 = Len(Repliers(r)) /\ Resolve("value", got)
  <2>1. /\ Engine'
        /\ \A c \in Calls \ {r} : result'[c] = result[c]
        /\ result'[r] = [is |-> "value", got |-> got]
        /\ reading' = NoRead
    BY <1>0, <1>3, <1>5, <1>12, ResolveKeepsEngine DEF r, Resolve
  <2>2. Reading'
    BY <2>1 DEF Reading, NoRead
  <2>3. NoError' => NoError
    BY <1>1, <1>8, <2>1 DEF NoError
  <2>4. NoError' => \A v \in Ranks : Matched(v)'
    BY <1>10, <1>12, <2>1, <2>3
  <2>5. Owned'
    <3>1. ASSUME NEW c \in Calls, c # r, result'[c].is = "value", FineTo(c)'
          PROVE  /\ Len(result'[c].got) = Len(Repliers(c)')
                 /\ \A i \in DOMAIN result'[c].got : Good(result[c].got[i], c)'
                 /\ made'[c] = "execute" => HasJoined(OutputRank, c)'
      <4>1. result'[c] = result[c]
        BY <2>1, <3>1
      <4>2. FineTo(c)
        <5> SUFFICES ASSUME NEW b \in 1..c PROVE result[b].is # "error"
          BY DEF FineTo
        <5>1. b = r \/ (b \in Calls \ {r} /\ result'[b] = result[b])
          BY <1>1, <2>1
        <5>2. result'[b].is # "error"
          BY <3>1 DEF FineTo
        <5> QED
          BY <1>1, <5>1, <5>2
      <4>3. /\ Len(result[c].got) = Len(Repliers(c))
            /\ \A i \in DOMAIN result[c].got : Good(result[c].got[i], c)
            /\ made[c] = "execute" => HasJoined(OutputRank, c)
        BY <1>0, <3>1, <4>1, <4>2 DEF Owned
      <4>4. Repliers(c)' = Repliers(c) /\ (HasJoined(OutputRank, c) => HasJoined(OutputRank, c)')
            /\ made'[c] = made[c]
        BY <1>0, OnwardLemma, RankAssumption DEF Onward
      <4>5. ASSUME NEW i \in DOMAIN result'[c].got PROVE Good(result[c].got[i], c)'
        <5>1. PICK x : x = result[c].got[i]
          OBVIOUS
        <5>2. Good(x, c)
          BY <4>1, <4>3, <4>5, <5>1
        <5>3. Good(x, c)'
          BY <1>0, <5>2, GoodKept
        <5> QED
          BY <4>1, <5>1, <5>3
      <4> QED
        BY <4>1, <4>3, <4>4, <4>5
    <3>2. ASSUME NEW c \in Calls, c = r, FineTo(c)'
          PROVE  /\ Len(result'[c].got) = Len(Repliers(c)')
                 /\ \A i \in DOMAIN result'[c].got : Good(result[c].got[i], c)'
                 /\ made'[c] = "execute" => HasJoined(OutputRank, c)'
      <4>1. NoError
        <5> SUFFICES ASSUME NEW b \in Calls PROVE result[b].is # "error"
          BY DEF NoError
        <5>1. CASE b > r
          BY <1>0, <1>1, <5>1 DEF Engine
        <5>2. CASE b = r
          BY <1>1, <5>2
        <5>3. CASE b < r
          <6>1. b \in 1..c /\ result'[b] = result[b]
            BY <1>1, <2>1, <3>2, <5>3
          <6> QED
            BY <3>2, <6>1 DEF FineTo
        <5> QED
          BY <1>1, <5>1, <5>2, <5>3
      <4>2. /\ \A i \in DOMAIN got : Good(got[i], c)
            /\ made[c] = "execute" => HasJoined(OutputRank, c)
        BY <1>9, <1>12, <3>2, <4>1
      <4>3. Repliers(c)' = Repliers(c) /\ (HasJoined(OutputRank, c) => HasJoined(OutputRank, c)')
            /\ made'[c] = made[c]
        BY <1>0, OnwardLemma, RankAssumption DEF Onward
      <4>4. result'[c].got = got
        BY <2>1, <3>2
      <4>5. ASSUME NEW i \in DOMAIN result'[c].got PROVE Good(result[c].got[i], c)'
        <5>1. PICK x : x = got[i]
          OBVIOUS
        <5>2. Good(x, c)
          BY <4>2, <4>4, <4>5, <5>1
        <5>3. Good(x, c)'
          BY <1>0, <5>2, GoodKept
        <5> QED
          BY <4>4, <5>1, <5>3
      <4> QED
        BY <1>4, <1>12, <3>2, <4>2, <4>3, <4>4, <4>5
    <3> QED
      BY <1>8, <3>1, <3>2 DEF Owned
  <2> QED
    BY <1>6, <1>7, <2>1, <2>2, <2>4, <2>5 DEF AInv
<1>13. CASE /\ m.ok /\ k + 1 # Len(Repliers(r))
            /\ reading' = [reading EXCEPT !.got = got] /\ UNCHANGED <<pc, result>>
  <2>1. reading'.call = r /\ reading'.got = got
    BY <1>0, <1>13 DEF Typed, r
  <2>2. NoError' <=> NoError
    BY <1>8, <1>13 DEF NoError
  <2>3. NoError' => \A v \in Ranks : Matched(v)'
    BY <1>4, <1>10, <2>1, <2>2
  <2>4. Engine'
    <3>1. Len(got) < Len(Repliers(r)) /\ Drained' = Drained
      <4>1. k + 1 <= Len(Repliers(r)) /\ Len(Repliers(r)) \in Nat
        BY <1>1, RepliersLemma
      <4> QED
        BY <1>1, <1>3, <1>4, <1>13, <4>1 DEF Drained
    <3>2. PICK c \in Calls : c = r
      BY <1>1
    <3>3. Repliers(c)' = Repliers(c)
      BY <1>3 DEF Repliers
    <3>4. reading'.call = Drained' /\ Len(reading'.got) < Len(Repliers(reading.call)')
      BY <1>1, <2>1, <3>1, <3>2, <3>3
    <3>5. \A b \in Calls : result'[b].is = "pending" <=> b > Drained \/ b = r
      BY <1>0, <1>13 DEF Engine, r
    <3> QED
      BY <1>0, <1>3, <1>5, <1>8, <1>13, <2>1, <3>1, <3>4, <3>5 DEF Engine
  <2>5. Owned'
    <3>1. Calls \in SUBSET Calls /\ \A c \in Calls : result'[c] = result[c]
      BY <1>13
    <3> QED
      BY <1>0, <1>8, <3>1, OwnedKept
  <2>6. Reading'
    <3> SUFFICES ASSUME NoError', NEW i \in DOMAIN reading'.got
                 PROVE  Good(reading.got[i], reading.call)'
      BY DEF Reading
    <3>1. PICK x, c : x = got[i] /\ c = r
      OBVIOUS
    <3>2. Good(x, c)
      BY <1>9, <1>13, <2>1, <2>2, <3>1
    <3>3. Good(x, c)'
      BY <1>0, <3>2, GoodKept
    <3> QED
      BY <2>1, <3>1, <3>3
  <2> QED
    BY <1>6, <1>7, <2>3, <2>4, <2>5, <2>6 DEF AInv
<1> QED
  BY <1>5, <1>11, <1>12, <1>13

-----------------------------------------------------------------------------
(* The other steps.                                                        *)

\* Steps that leave the calls, the answers and the collectives alone
LEMMA RestKeeps ==
    ASSUME AInv, Typed', Onward, UNCHANGED <<made, async, futures, result, reading, inbox, joined>>,
           \A w \in Ranks : work'[w] \in {work[w], Exited} /\ Q(w)' = Q(w),
           \A w \in Ranks : ~async => outq'[w] = <<>>,
           \/ UNCHANGED <<pc, target>>
           \/ pc' = "gone"
           \/ pc \notin {"read", "gone"} /\ pc' \notin {"drain", "read"}
           \/ pc = "idle" /\ pc' = "drain" /\ target' \in Calls
    PROVE  AInv'
<1>0. Typed /\ Engine /\ Owned /\ Reading /\ Aligned /\ \A w \in Ranks : InOrder(w) /\ Answered(w)
  BY DEF AInv
<1>1. Engine'
  BY <1>0, EngineRests
<1>2. \A w \in Ranks : InOrder(w)' /\ Answered(w)'
  BY <1>0, WorkerRests
<1>3. NoError' <=> NoError
  BY DEF NoError, Calls
<1>4. NoError' => \A w \in Ranks : Matched(w)'
  BY <1>0, <1>3, MatchedRests DEF AInv
<1>5. Owned'
  <2>1. Calls \in SUBSET Calls /\ Calls' = Calls
    BY DEF Calls
  <2> QED
    BY <1>0, <2>1, OwnedKept
<1>6. Reading'
  BY <1>0, <1>3, ReadingKept
<1>7. Aligned'
  BY <1>0, AlignedKept
<1> QED
  BY <1>1, <1>2, <1>4, <1>5, <1>6, <1>7 DEF AInv

LEMMA CallKeeps ==
    ASSUME AInv, Typed', Onward, NEW kind \in Kinds, Call(kind), made' # made
    PROVE  AInv'
<1>0. Typed /\ Engine /\ Owned /\ Reading /\ Aligned /\ \A w \in Ranks : InOrder(w) /\ Answered(w)
  BY DEF AInv
<1>1. /\ made' = Append(made, kind)
      /\ inbox' = [w \in Ranks |-> Append(inbox[w], Len(made) + 1)]
      /\ futures' = Append(futures, Len(made) + 1)
      /\ result' = Append(result, Pending)
      /\ pc = "idle"
      /\ pc' = "idle" \/ (pc' = "drain" /\ target' = Len(made) + 1)
      /\ UNCHANGED <<reading, async, joined, work, outq, answers>>
  BY DEF Call, rest
<1>2. /\ Engine' /\ Drained' = Drained /\ reading = NoRead
      /\ Len(made') = Len(made) + 1 /\ Calls' = Calls \cup {Len(made) + 1}
      /\ \A c \in Calls : result'[c] = result[c]
      /\ result'[Len(made) + 1] = Pending
  <2>1. Len(made) \in Nat /\ Len(made) + 1 # 0
    BY <1>0, CallsLemma
  <2>2. pc' = "idle" \/ (pc' = "drain" /\ target' # 0)
    <3>1. pc' = "idle" \/ (pc' = "drain" /\ target' = Len(made) + 1)
      BY <1>1
    <3>2. CASE pc' = "drain" /\ target' = Len(made) + 1
      BY <2>1, <3>2
    <3> QED
      BY <3>1, <3>2
  <2> QED
    BY <1>0, <1>1, <2>2, CallKeepsEngine
<1>3. \A w \in Ranks : InOrder(w)' /\ Answered(w)' /\ Taken(w)' = Taken(w)
  <2>1. \A w \in Ranks : inbox'[w] = Append(inbox[w], Len(made) + 1)
    BY <1>1
  <2> QED
    BY <1>0, <1>1, <2>1, CallKeepsWorkers
<1>4. NoError' => NoError
  BY <1>2 DEF NoError
<1>5. NoError' => \A w \in Ranks : Matched(w)'
  <2> SUFFICES ASSUME NoError', NEW w \in Ranks PROVE Matched(w)'
    OBVIOUS
  <2>1. Matched(w)
    BY <1>4 DEF AInv
  <2>2. UNCHANGED <<reading, work, answers, outq>>
    BY <1>1
  <2> QED
    BY <1>0, <1>2, <1>3, <2>1, <2>2, CallKeepsMatched
<1>6. Owned'
  <2>1. Calls \in SUBSET Calls /\ \A c \in Calls \ Calls : FALSE
    OBVIOUS
  <2>2. \A c \in Calls' \ Calls : result'[c].is # "value"
    BY <1>2 DEF Pending
  <2> QED
    BY <1>0, <1>2, <2>1, <2>2, OwnedKept
<1>7. Reading'
  BY <1>1, <1>2 DEF Reading, NoRead
<1>8. Aligned'
  BY <1>0, <1>1, AlignedKept
<1> QED
  BY <1>2, <1>3, <1>5, <1>6, <1>7, <1>8 DEF AInv

LEMMA DrainKeeps ==
    ASSUME AInv, Typed', Onward, Drain
    PROVE  AInv'
<1>0. Typed /\ Engine /\ Owned /\ Reading /\ Aligned /\ \A w \in Ranks : InOrder(w) /\ Answered(w)
  BY DEF AInv
<1>1. UNCHANGED <<made, result, async, inbox, work, joined, outq, answers>>
  BY DEF Drain, workers, rest
<1>2. /\ Engine' /\ Drained' = Drained + 1 /\ reading = NoRead
      /\ reading' = [call |-> Drained', got |-> <<>>]
  BY <1>0, DrainKeepsEngine
<1>3. \A w \in Ranks : Q(w)' = Q(w) /\ (~async => outq'[w] = <<>>)
  BY <1>0, <1>1 DEF Q, Answered
<1>4. \A w \in Ranks : InOrder(w)' /\ Answered(w)'
  BY <1>0, <1>1, <1>3, WorkerRests
<1>5. NoError' <=> NoError
  BY <1>1 DEF NoError, Calls
<1>6. NoError' => \A w \in Ranks : Matched(w)'
  <2> SUFFICES ASSUME NoError', NEW w \in Ranks PROVE Matched(w)'
    OBVIOUS
  <2>1. Matched(w)
    BY <1>5 DEF AInv
  <2> QED
    BY <1>0, <1>1, <1>2, <2>1, DrainKeepsMatched
<1>7. Owned'
  <2>1. Calls \in SUBSET Calls /\ Calls' = Calls /\ \A c \in Calls : result'[c] = result[c]
    BY <1>1 DEF Calls
  <2> QED
    BY <1>0, <2>1, OwnedKept
<1>8. Reading'
  BY <1>2 DEF Reading
<1>9. Aligned'
  BY <1>0, <1>1, AlignedKept
<1> QED
  BY <1>2, <1>4, <1>6, <1>7, <1>8, <1>9 DEF AInv

LEMMA ReadFailsKeeps ==
    ASSUME AInv, Typed', Onward, ReadFails
    PROVE  AInv'
<1>0. Typed /\ Engine /\ Owned /\ Reading /\ Aligned /\ \A w \in Ranks : InOrder(w) /\ Answered(w)
  BY DEF AInv
<1>1. /\ UNCHANGED <<made, futures, target, async, inbox, work, joined, outq, answers>>
      /\ pc = "read" /\ Resolve("error", <<>>)
  BY DEF ReadFails, workers, rest
<1>2. PICK r \in Calls : r = reading.call
  BY <1>0, <1>1, EngineLemma
<1>3. /\ Engine'
      /\ \A c \in Calls \ {r} : result'[c] = result[c]
      /\ result'[r] = [is |-> "error", got |-> <<>>]
  BY <1>0, <1>1, <1>2, ResolveKeepsEngine
<1>4. Calls' = Calls
  BY <1>1 DEF Calls
<1>5. ~NoError'
  BY <1>2, <1>3, <1>4 DEF NoError
<1>6. \A w \in Ranks : Q(w)' = Q(w) /\ (~async => outq'[w] = <<>>)
  BY <1>0, <1>1 DEF Q, Answered
<1>7. \A w \in Ranks : InOrder(w)' /\ Answered(w)'
  BY <1>0, <1>1, <1>6, WorkerRests
<1>8. Owned'
  <2>1. Calls \ {r} \in SUBSET Calls /\ \A c \in Calls \ (Calls \ {r}) : c = r
    OBVIOUS
  <2>2. result[r].is # "error" /\ result'[r].is # "value"
    <3>1. result[r].is = "pending"
      BY <1>0, <1>1, <1>2, EngineLemma
    <3> QED
      BY <1>3, <3>1
  <2> QED
    BY <1>0, <1>3, <1>4, <2>1, <2>2, OwnedKept
<1>9. Reading'
  BY <1>5 DEF Reading
<1>10. Aligned'
  BY <1>0, <1>1, AlignedKept
<1> QED
  BY <1>3, <1>5, <1>7, <1>8, <1>9, <1>10 DEF AInv

LEMMA WorkerStepKeeps ==
    ASSUME AInv, Typed', Onward, NEW w \in Ranks, Take(w) \/ Join(w) \/ Finish(w) \/ Raises(w)
    PROVE  AInv'
<1>0. Typed /\ Engine /\ Owned /\ Reading /\ Aligned /\ \A v \in Ranks : InOrder(v) /\ Answered(v)
  BY DEF AInv
<1>1. UNCHANGED <<made, async, futures, result, reading, pc, target>>
  BY DEF Take, Join, Finish, Raises, engine, rest
<1>2. ASSUME NEW v \in Ranks \ {w}
      PROVE  /\ inbox'[v] = inbox[v] /\ work'[v] = work[v] /\ joined'[v] = joined[v]
             /\ answers'[v] = answers[v] /\ outq'[v] = outq[v]
  BY <1>0 DEF Take, Join, Finish, Raises, Answer, Typed
<1>3. ASSUME NEW v \in Ranks \ {w}
      PROVE  Q(v)' = Q(v) /\ (~async => outq'[v] = <<>>)
  BY <1>0, <1>2 DEF Q, Answered
<1>4. \A v \in Ranks \ {w} : InOrder(v)' /\ Answered(v)'
  BY <1>0, <1>1, <1>2, <1>3, WorkerRests
<1>5. NoError' <=> NoError
  BY <1>1 DEF NoError, Calls
<1>6. NoError => \A v \in Ranks \ {w} : Matched(v)'
  <2> SUFFICES ASSUME NoError, NEW v \in Ranks \ {w} PROVE Matched(v)'
    OBVIOUS
  <2>1. Matched(v)
    BY DEF AInv
  <2> QED
    BY <1>0, <1>1, <1>2, <1>3, <2>1, MatchedRests
<1>7. Engine'
  BY <1>0, <1>1, EngineRests
<1>8. Owned'
  <2>1. Calls \in SUBSET Calls /\ Calls' = Calls /\ \A c \in Calls : result'[c] = result[c]
    BY <1>1 DEF Calls
  <2> QED
    BY <1>0, <2>1, OwnedKept
<1>9. Reading'
  BY <1>0, <1>1, <1>5, ReadingKept
<1>10. CASE Take(w)
  <2>1. /\ InOrder(w)' /\ Answered(w)' /\ Taken(w) \in Nat
        /\ Taken(w)' = Taken(w) + 1 /\ work'[w] = Taken(w) + 1
    BY <1>0, <1>10, TakeKeepsWorker
  <2>2. NoError => Matched(w)'
    <3> HAVE NoError
    <3>1. Matched(w)
      BY DEF AInv
    <3> QED
      BY <1>0, <1>10, <2>1, <3>1, TakeKeepsMatched
  <2>3. Aligned'
    BY <1>0, <1>10, AlignedKept DEF Take
  <2> QED
    BY <1>4, <1>5, <1>6, <1>7, <1>8, <1>9, <2>1, <2>2, <2>3 DEF AInv
<1>11. CASE Join(w)
  <2>1. InOrder(w)' /\ Answered(w)'
    BY <1>0, <1>11, JoinKeepsWorker
  <2>2. NoError => Matched(w)'
    <3> HAVE NoError
    <3>1. Matched(w)
      BY DEF AInv
    <3>2. inbox'[w] = inbox[w] /\ work'[w] = work[w] /\ Q(w)' = Q(w)
      BY <1>11 DEF Join, Q
    <3> QED
      BY <1>0, <1>1, <3>1, <3>2, MatchedRests
  <2>3. Aligned'
    BY <1>0, <1>11, JoinAligned
  <2> QED
    BY <1>4, <1>5, <1>6, <1>7, <1>8, <1>9, <2>1, <2>2, <2>3 DEF AInv
<1>12. CASE Finish(w) \/ Raises(w)
  <2>1. /\ InOrder(w)' /\ Answered(w)' /\ work[w] \in Calls /\ work[w] = Taken(w) /\ work'[w] = Loop
        /\ UNCHANGED <<made, inbox, joined, async>>
        /\ \E ok \in BOOLEAN : \E with \in SUBSET Calls : Answer(w, ok, with)
        /\ Busy(w)
    BY <1>0, <1>12, EndsKeepsWorker
  <2>2. NoError => Matched(w)'
    <3> HAVE NoError
    <3>1. Matched(w)
      BY DEF AInv
    <3>2. PICK ok \in BOOLEAN, with \in SUBSET Calls : Answer(w, ok, with)
      BY <2>1
    <3> QED
      BY <1>0, <1>1, <2>1, <3>1, <3>2, EndsKeepsMatched
  <2>3. Aligned'
    BY <1>0, <2>1, AlignedKept
  <2> QED
    BY <1>4, <1>5, <1>6, <1>7, <1>8, <1>9, <2>1, <2>2, <2>3 DEF AInv
<1> QED
  BY <1>10, <1>11, <1>12

\* What a thread takes out of outq it puts into the queue of answers.
LEMMA ForwardKeeps ==
    ASSUME AInv, Typed', Onward, NEW w \in Ranks, Forward(w)
    PROVE  AInv'
<1>0. Typed /\ \A v \in Ranks : Answered(v)
  BY DEF AInv
<1>1. UNCHANGED <<made, async, futures, result, reading, inbox, joined, work, pc, target>>
  BY DEF Forward, engine, rest
<1>2. answers'[w] = Append(answers[w], Head(outq[w])) /\ outq'[w] = Tail(outq[w]) /\ outq[w] # <<>>
  BY <1>0 DEF Forward, Typed
<1>3. Q(w)' = Q(w)
  <2>1. answers[w] \in Seq(Answers) /\ outq[w] \in Seq(Answers)
    BY <1>0 DEF Typed
  <2>2. Append(answers[w], Head(outq[w])) \o Tail(outq[w]) = answers[w] \o outq[w]
    BY <1>2, <2>1, QueueLemma
  <2> QED
    BY <1>2, <2>2 DEF Q
<1>4. async
  BY <1>0, <1>2 DEF Answered, Typed
<1>5. \A v \in Ranks \ {w} : Q(v)' = Q(v)
  BY <1>0 DEF Forward, Q, Typed
<1> QED
  BY <1>1, <1>3, <1>4, <1>5, RestKeeps

LEMMA StepAnswered == AInv /\ [Next]_vars => AInv'
<1> SUFFICES ASSUME AInv, [Next]_vars PROVE AInv'
  OBVIOUS
<1>0. Typed /\ Engine /\ Typed' /\ Onward /\ \A w \in Ranks : InOrder(w) /\ Answered(w)
  <2>1. Typed /\ Engine /\ \A w \in Ranks : InOrder(w) /\ Answered(w)
    BY DEF AInv
  <2> QED
    BY <2>1, TypedKept, StepsGoOn
<1>1. ASSUME UNCHANGED <<made, async, futures, result, reading, inbox, joined, answers, outq>>,
             \A w \in Ranks : work'[w] \in {work[w], Exited},
             \/ UNCHANGED <<pc, target>>
             \/ pc' = "gone"
             \/ pc \notin {"read", "gone"} /\ pc' \notin {"drain", "read"}
             \/ pc = "idle" /\ pc' = "drain" /\ target' \in Calls
      PROVE  AInv'
  <2>1. \A w \in Ranks : Q(w)' = Q(w) /\ (~async => outq'[w] = <<>>)
    BY <1>0, <1>1 DEF Q, Answered
  <2> QED
    BY <1>0, <1>1, <2>1, RestKeeps
<1> USE DEF engine, shared, workers, rest
<1>2. ASSUME NEW kind \in Kinds, Call(kind)
      PROVE  AInv'
  <2>1. CASE made' = made
    <3>1. made' # Append(made, kind)
      BY <1>0, <2>1, AppendProperties DEF Typed
    <3> QED
      BY <1>1, <1>2, <3>1 DEF Call
  <2>2. CASE made' # made
    BY <1>0, <1>2, <2>2, CallKeeps
  <2> QED
    BY <2>1, <2>2
<1>3. CASE Register \/ Store \/ Return \/ Stop \/ Notice \/ Report \/ EngineGone \/ Done \/ UNCHANGED vars
  BY <1>1, <1>3 DEF Register, Store, Return, Stop, Notice, Report, EngineGone, Done, vars
<1>4. CASE TakeResult
  <2>1. Head(flight) \in Calls
    BY <1>0, <1>4, TailLemma DEF TakeResult, Typed
  <2> QED
    BY <1>1, <1>4, <2>1 DEF TakeResult
<1>5. CASE Drain
  BY <1>0, <1>5, DrainKeeps
<1>6. CASE Read
  BY <1>0, <1>6, ReadKeeps
<1>7. CASE ReadFails
  BY <1>0, <1>7, ReadFailsKeeps
<1>8. ASSUME NEW t \in Threads, Shutdown(t)
      PROVE  AInv'
  <2>1. CASE Terminate(t) \/ Kill(t)
    BY <1>1, <2>1 DEF Terminate, Kill, Exit
  <2>2. CASE Enter(t) \/ Mark(t) \/ CloseDeathWriters(t) \/ CloseResponses(t) \/ CloseQueues(t)
    BY <1>1, <2>2 DEF Enter, Mark, CloseDeathWriters, CloseResponses, CloseQueues
  <2> QED
    BY <1>8, <2>1, <2>2 DEF Shutdown
<1>9. ASSUME NEW w \in Ranks,
             \/ Take(w) \/ Join(w) \/ Finish(w) \/ Raises(w) \/ Forward(w)
             \/ DeathPipe(w) \/ WorkerExits(w) \/ Dies(w)
      PROVE  AInv'
  <2>1. CASE Take(w) \/ Join(w) \/ Finish(w) \/ Raises(w)
    BY <1>0, <2>1, WorkerStepKeeps
  <2>2. CASE Forward(w)
    BY <1>0, <2>2, ForwardKeeps
  <2>3. CASE DeathPipe(w) \/ WorkerExits(w) \/ Dies(w)
    BY <1>1, <2>3 DEF DeathPipe, WorkerExits, Dies, Exit
  <2> QED
    BY <1>9, <2>1, <2>2, <2>3
<1> QED
  BY <1>2, <1>3, <1>4, <1>5, <1>6, <1>7, <1>8, <1>9 DEF Next, Kinds

LEMMA AlwaysAnswered == Spec => []AInv
BY InitiallyAnswered, StepAnswered, PTL DEF Spec

-----------------------------------------------------------------------------
(* What it means for the properties of the runs.                           *)

LEMMA OfCalls ==
    ASSUME NEW n \in Nat, NEW q \in Seq(Nat), \A i \in 1..Len(q) : q[i] \in 1..n
    PROVE  q \in Seq(1..n)
<1>1. Len(q) \in Nat /\ q \in [1..Len(q) -> Nat]
  BY LenProperties
<1>2. q \in [1..Len(q) -> 1..n]
  BY <1>1
<1> QED
  BY <1>1, <1>2, SeqDef

LEMMA TailHolds ==
    ASSUME NEW n \in Nat, NEW q \in Seq(Nat), IsTail(q, n)
    PROVE  /\ q \in Seq(1..n)
           /\ \A c \in 1..n : (\E i \in 1..Len(q) : q[i] = c) <=> c > n - Len(q)
<1>1. Len(q) \in 0..n /\ \A i \in 1..Len(q) : q[i] = n - Len(q) + i
  <2>1. Len(q) \in Nat
    BY LenProperties
  <2> QED
    BY <2>1 DEF IsTail
<1>2. \A i \in 1..Len(q) : q[i] \in 1..n
  BY <1>1
<1>3. ASSUME NEW c \in 1..n, c > n - Len(q)
      PROVE  \E i \in 1..Len(q) : q[i] = c
  <2>1. c - (n - Len(q)) \in 1..Len(q)
    BY <1>1, <1>3
  <2>2. q[c - (n - Len(q))] = n - Len(q) + (c - (n - Len(q)))
    BY <1>1, <2>1
  <2> QED
    BY <1>1, <2>1, <2>2
<1>4. \A c \in 1..n : (\E i \in 1..Len(q) : q[i] = c) => c > n - Len(q)
  BY <1>1
<1> QED
  BY <1>2, <1>3, <1>4, OfCalls

LEMMA AnswersAreMessages ==
    ASSUME Typed, NEW w \in Ranks, InOrder(w), Answered(w)
    PROVE  ToSet(outq[w]) \cup ToSet(answers[w]) \subseteq Messages
<1>1. /\ Calls = 1..Len(made) /\ Len(made) \in Nat /\ Taken(w) \in 0..Len(made)
  BY TakenLemma
<1>2. ASSUME NEW i \in DOMAIN Q(w) PROVE Q(w)[i] \in Messages
  <2>1. Q(w)[i] \in Answers
    BY <1>2, QTyped
  <2>2. Q(w)[i].call \in 1..Taken(w) /\ Q(w)[i].with \subseteq Calls
    BY <1>2 DEF Answered, Honest
  <2>3. Q(w)[i].call \in Calls
    BY <1>1, <2>2
  <2> QED
    BY <2>1, <2>2, <2>3 DEF Answers, Messages
<1> DEFINE a == answers[w]
           o == outq[w]
<1>3. a \in Seq(Answers) /\ o \in Seq(Answers)
  BY DEF Typed
<1>4. Len(a) \in Nat /\ DOMAIN a = 1..Len(a) /\ Len(o) \in Nat /\ DOMAIN o = 1..Len(o)
  BY <1>3, LenProperties
<1>5. /\ DOMAIN Q(w) = 1..(Len(a) + Len(o))
      /\ \A i \in 1..(Len(a) + Len(o)) : Q(w)[i] = IF i <= Len(a) THEN a[i] ELSE o[i - Len(a)]
  <2>1. Q(w) = a \o o
    BY DEF Q
  <2> HIDE DEF a, o
  <2>2. /\ a \o o \in Seq(Answers) /\ Len(a \o o) = Len(a) + Len(o)
        /\ \A i \in 1..(Len(a) + Len(o)) : (a \o o)[i] = IF i <= Len(a) THEN a[i] ELSE o[i - Len(a)]
    BY <1>3, ConcatProperties
  <2>3. DOMAIN (a \o o) = 1..(Len(a) + Len(o))
    BY <2>2, LenProperties
  <2> QED
    BY <2>1, <2>2, <2>3
<1> HIDE DEF a, o
<1>6. ASSUME NEW i \in DOMAIN a PROVE a[i] \in Messages
  <2>1. i \in 1..(Len(a) + Len(o)) /\ i <= Len(a)
    BY <1>4, <1>6
  <2> QED
    BY <1>2, <1>5, <2>1
<1>7. ASSUME NEW i \in DOMAIN o PROVE o[i] \in Messages
  <2>1. Len(a) + i \in 1..(Len(a) + Len(o)) /\ ~(Len(a) + i <= Len(a)) /\ (Len(a) + i) - Len(a) = i
    BY <1>4, <1>7
  <2>2. Q(w)[Len(a) + i] = o[i]
    BY <1>5, <2>1
  <2> QED
    BY <1>2, <1>5, <2>1, <2>2
<1> QED
  BY <1>6, <1>7 DEF ToSet, a, o

LEMMA AnsweredIsTyped == AInv => TypeOK
<1> SUFFICES ASSUME AInv PROVE TypeOK
  OBVIOUS
<1>0. Typed /\ Engine /\ \A w \in Ranks : InOrder(w) /\ Answered(w)
  BY DEF AInv
<1>1. Calls = 1..Len(made) /\ Len(made) \in Nat /\ Drained \in 0..Len(made)
  BY <1>0, EngineLemma
<1>2. /\ futures \in Seq(Calls)
      /\ \A c \in Calls : c \in ToSet(futures) <=> c > Drained
  <2>1. futures \in Seq(Nat) /\ IsTail(futures, Len(made)) /\ DOMAIN futures = 1..Len(futures)
    BY <1>0, LenProperties DEF Typed, Engine
  <2> QED
    BY <1>1, <2>1, TailHolds DEF ToSet, Drained
<1>3. ToSet(futures) \cup ({reading.call} \ {0}) = {c \in Calls : result[c].is = "pending"}
  <2>1. ToSet(futures) \subseteq Calls
    BY <1>2, ElementOfSeq, LenProperties DEF ToSet
  <2>2. reading.call # 0 => reading.call \in Calls
    <3>1. reading.call # 0 => reading.call = Drained /\ reading.call \in Nat
      BY <1>0 DEF Engine, Typed
    <3> QED
      BY <1>1, <3>1
  <2>3. 0 \notin Calls
    BY <1>1
  <2>4. \A c \in Calls : result[c].is = "pending" <=> c \in ToSet(futures) \/ c = reading.call
    BY <1>0, <1>2 DEF Engine
  <2> QED
    BY <2>1, <2>2, <2>3, <2>4
<1>4. ASSUME NEW w \in Ranks
      PROVE  /\ work[w] \in Calls \cup {Loop, Exited}
             /\ inbox[w] \in Seq(Calls) /\ joined[w] \in Seq(Calls)
             /\ ToSet(outq[w]) \cup ToSet(answers[w]) \subseteq Messages
  <2>1. Taken(w) \in 0..Len(made) /\ work[w] \in 0..Taken(w) \cup {Exited}
    BY <1>0, TakenLemma
  <2>2. work[w] \in Calls \cup {Loop, Exited}
    BY <1>1, <2>1 DEF Loop, Exited
  <2>3. inbox[w] \in Seq(Calls)
    BY <1>0, <1>1, TailHolds DEF InOrder, Typed
  <2>4. joined[w] \in Seq(Calls)
    <3>1. joined[w] \in Seq(Nat) /\ DOMAIN joined[w] = 1..Len(joined[w])
      BY <1>0, LenProperties DEF Typed
    <3>2. \A i \in 1..Len(joined[w]) : joined[w][i] \in 1..Taken(w)
      BY <1>0, <3>1 DEF InOrder
    <3>3. \A i \in 1..Len(joined[w]) : joined[w][i] \in 1..Len(made)
      BY <1>1, <2>1, <3>2
    <3> QED
      BY <1>1, <3>1, <3>3, OfCalls
  <2> QED
    BY <1>0, <2>2, <2>3, <2>4, AnswersAreMessages
<1> QED
  BY <1>0, <1>2, <1>3, <1>4 DEF TypeOK, Typed, Kinds

\* If no call was left silently, no rank but the one that replies left one.
LEMMA NobodySilent ==
    ASSUME Typed, \A w \in Ranks : InOrder(w), \A c \in Calls : ~Silent(c)
    PROVE  NoneSkipped
<1> SUFFICES ASSUME NEW w \in Ranks \ {OutputRank}, NEW c \in Calls, Skipped(w, c)
             PROVE  Silent(c)
  BY DEF NoneSkipped
<1>1. Calls = 1..Len(made) /\ Len(made) \in Nat /\ Taken(w) = Len(made) - Len(inbox[w])
  BY CallsLemma DEF Taken
<1>2. ~Contains(joined[w], c)
  <2>1. DOMAIN joined[w] = 1..Len(joined[w])
    BY LenProperties DEF Typed
  <2> QED
    BY <2>1 DEF Skipped, HasJoined, Contains
<1>3. ~Contains(inbox[w], c)
  <2>1. inbox[w] \in Seq(Nat) /\ IsTail(inbox[w], Len(made))
    BY DEF Typed, InOrder
  <2>2. (\E i \in 1..Len(inbox[w]) : inbox[w][i] = c) <=> c > Taken(w)
    <3>1. \A b \in 1..Len(made) : (\E i \in 1..Len(inbox[w]) : inbox[w][i] = b)
                                     <=> b > Len(made) - Len(inbox[w])
      BY <1>1, <2>1, TailHolds
    <3>2. c \in 1..Len(made)
      BY <1>1
    <3> QED
      BY <1>1, <3>1, <3>2
  <2>3. c <= Taken(w) /\ c \in Nat /\ Len(inbox[w]) \in Nat
    BY <1>1, <2>1, LenProperties DEF Skipped
  <2>4. ~(c > Taken(w))
    BY <1>1, <2>3
  <2> QED
    BY <2>2, <2>4 DEF Contains
<1> QED
  BY <1>2, <1>3 DEF Silent, Skipped

\* Every variable has its type, and the queue of futures with the one being read
\* is exactly the set of the calls without a result, whatever raises, hangs or
\* dies (FutureWrapper.result, collective_rpc, worker_busy_loop).
THEOREM Typing == Spec => []TypeOK
BY AlwaysAnswered, AnsweredIsTyped, PTL

\* Until a call fails, a call gets the answers its own workers gave to it, and a
\* step is computed by all the ranks together unless one that does not reply
\* failed, though no message carries the number of its call (FutureWrapper.result,
\* get_response, handle_output, async_output_busy_loop).
THEOREM AnswersAreOwn == Spec => []OwnAnswer
<1>1. AInv => OwnAnswer
  <2> SUFFICES ASSUME AInv, NEW c \in Calls, result[c].is = "value",
                      \A b \in 1..(c - 1) : result[b].is # "error"
               PROVE  /\ Len(result[c].got) = Len(Repliers(c))
                      /\ \A i \in DOMAIN result[c].got :
                            /\ result[c].got[i].call = c
                            /\ (\A b \in Calls : ~Silent(b)) => result[c].got[i].with = {c}
    BY DEF OwnAnswer
  <2>1. Typed /\ Owned /\ \A w \in Ranks : InOrder(w)
    BY DEF AInv
  <2>2. FineTo(c)
    <3>1. Calls = 1..Len(made) /\ Len(made) \in Nat
      BY <2>1, CallsLemma
    <3> SUFFICES ASSUME NEW b \in 1..c PROVE result[b].is # "error"
      BY DEF FineTo
    <3>2. b = c \/ b \in 1..(c - 1)
      BY <3>1
    <3> QED
      BY <3>2
  <2>3. /\ Len(result[c].got) = Len(Repliers(c))
        /\ \A i \in DOMAIN result[c].got : Good(result[c].got[i], c)
    BY <2>1, <2>2 DEF Owned
  <2>4. (\A b \in Calls : ~Silent(b)) => NoneSkipped
    BY <2>1, NobodySilent
  <2> QED
    BY <2>3, <2>4 DEF Good
<1> QED
  BY <1>1, AlwaysAnswered, PTL
=============================================================================
