------------------------------- MODULE Executor -------------------------------
(***************************************************************************)
(* The multiprocess executor, src/src/vllm/v1/executor/                    *)
(* multiproc_executor.py: calls broadcast to the workers, answers taken    *)
(* from one queue per worker in the order of the calls, and the ends of    *)
(* it all: a worker that raises, hangs or dies, the monitor thread, the    *)
(* failure callback, and shutdown with its escalation to SIGKILL.          *)
(*                                                                         *)
(* Calls are numbered; "execute" is a step of the model (a collective over *)
(* all ranks, answered by the output rank, with a timeout), "all" a method *)
(* every rank runs on its own and answers.  The engine core that makes the *)
(* calls is not in this repository: it keeps up to Depth steps in flight   *)
(* and shuts down after a call that failed.                                *)
(***************************************************************************)
EXTENDS Integers, Sequences, FiniteSets, Functions, SequencesExt

CONSTANTS
    WorldSize,    \* world_size
    OutputRank,   \* _get_output_rank
    Depth,        \* steps in flight
    MaxCalls,     \* calls of one behaviour (the bound of the model)
    Modes,        \* values of use_async_scheduling a behaviour may have
    Faults,       \* subset of {"raise", "die", "gone"}
    LateRegister  \* the monitor may be done while the callback is stored

Ranks == 0..(WorldSize - 1)

ASSUME RankAssumption == WorldSize \in Nat /\ OutputRank \in Ranks
ASSUME CallAssumption == Depth \in Nat \ {0} /\ MaxCalls \in Nat
ASSUME ModeAssumption == Modes \subseteq BOOLEAN /\ LateRegister \in BOOLEAN
ASSUME FaultAssumption == Faults \subseteq {"raise", "die", "gone"}

VARIABLES
    async,       \* use_async_scheduling
    \* engine thread
    pc,          \* what it is doing
    futures,     \* futures_queue, oldest first: calls not drained
    result,      \* result[c]: [is: "pending", "error" or "value", got: answers]
    flight,      \* steps whose result the engine has not taken
    target,      \* the future whose result() runs, 0: none
    reading,     \* the future being drained: [call, got]
    made,        \* kinds of the calls made so far
    \* shared by the engine and the monitor thread
    isFailed, shuttingDown, callback, called,
    open,        \* queues not shut down: "broadcast", "responses"
    stage,       \* stage[t]: where thread t is in shutdown()
    monitor,     \* the monitor thread
    \* workers
    inbox,       \* inbox[w]: calls broadcast and not taken
    work,        \* work[w]: Loop, Exited, or the call it runs
    joined,      \* joined[w]: the steps whose collective w has entered
    outq,        \* outq[w]: async_output_queue
    answers,     \* answers[w]: worker_response_mq
    closing,     \* closing[w]: shutdown_requested, its queues are shut
    pipe,        \* the parent holds the writers of the death pipes
    unexpected   \* a worker died before any shutdown

engine  == <<pc, futures, result, flight, target, reading, made>>
shared  == <<isFailed, shuttingDown, callback, called, open, stage, monitor>>
workers == <<inbox, work, joined, outq, answers, closing>>
rest    == <<async, pipe, unexpected>>
vars    == <<rest, engine, shared, workers>>

Threads == {"engine", "monitor"}
Pending == [is |-> "pending", got |-> <<>>]
NoRead  == [call |-> 0, got |-> <<>>]
Loop   == 0
Exited == -1
Alive(w)  == work[w] # Exited
Busy(w)   == work[w] > 0
AllExited == \A w \in Ranks : ~Alive(w)

\* The ranks a call is answered by, in the order their queues are read
Repliers(c) == IF made[c] = "execute" THEN <<OutputRank>>
               ELSE [i \in 1..WorldSize |-> i - 1]

Init ==
    /\ async \in Modes
    /\ pc = "register" /\ futures = <<>> /\ result = <<>> /\ flight = <<>>
    /\ target = 0 /\ reading = NoRead /\ made = <<>>
    /\ isFailed = FALSE /\ shuttingDown = FALSE /\ callback = FALSE /\ called = 0
    /\ open = {"broadcast", "responses"}
    /\ stage = [t \in Threads |-> "no"] /\ monitor = "wait"
    /\ inbox = [w \in Ranks |-> <<>>] /\ work = [w \in Ranks |-> Loop]
    /\ joined = [w \in Ranks |-> <<>>]
    /\ outq = [w \in Ranks |-> <<>>] /\ answers = [w \in Ranks |-> <<>>]
    /\ closing = [w \in Ranks |-> FALSE]
    /\ pipe = TRUE /\ unexpected = FALSE

-----------------------------------------------------------------------------
(* The engine thread.                                                      *)

\* register_failure_callback looks at is_failed, then stores the callback.
\* Mutant: it stores the callback without looking.
RegisterBlind ==
    /\ pc = "register" /\ pc' = "store"
    /\ UNCHANGED <<futures, result, flight, target, reading, made, shared, workers, rest>>
Register ==
    /\ pc = "register"
    /\ IF isFailed THEN called' = called + 1 /\ pc' = "idle"
       ELSE pc' = "store" /\ UNCHANGED called
    /\ UNCHANGED <<futures, result, flight, target, reading, made, isFailed,
                   shuttingDown, callback, open, stage, monitor, workers, rest>>

Store ==
    /\ pc = "store"
    /\ callback' = TRUE /\ pc' = "idle"
    /\ UNCHANGED <<futures, result, flight, target, reading, made, isFailed,
                   shuttingDown, called, open, stage, monitor, workers, rest>>

\* collective_rpc: a failed executor, or one whose queue is gone, raises.
\* A step is not waited for, an "all" call is.
Call(kind) ==
    /\ pc = "idle" /\ Len(made) < MaxCalls
    /\ kind = "execute" => Len(flight) < Depth
    /\ IF isFailed \/ "broadcast" \notin open
       THEN pc' = "fatal" /\ UNCHANGED <<futures, result, flight, target, made, inbox>>
       ELSE LET c == Len(made) + 1 IN
            /\ made' = Append(made, kind)
            /\ inbox' = [w \in Ranks |-> Append(inbox[w], c)]
            /\ futures' = Append(futures, c)
            /\ result' = Append(result, Pending)
            /\ IF kind = "execute"
               THEN flight' = Append(flight, c) /\ UNCHANGED <<pc, target>>
               ELSE pc' = "drain" /\ target' = c /\ UNCHANGED flight
    /\ UNCHANGED <<reading, shared, work, joined, outq, answers, closing, rest>>

TakeResult ==
    /\ pc = "idle" /\ flight # <<>>
    /\ pc' = "drain" /\ target' = Head(flight) /\ flight' = Tail(flight)
    /\ UNCHANGED <<futures, result, reading, made, shared, workers, rest>>

\* FutureWrapper.result drains the futures ahead of this one, oldest first.
\* Mutant: the future asks the queue for its own answer at once.
DrainOwn ==
    /\ pc = "drain" /\ result[target].is = "pending"
    /\ reading' = [call |-> target, got |-> <<>>]
    /\ futures' = SelectSeq(futures, LAMBDA c : c # target)
    /\ pc' = "read"
    /\ UNCHANGED <<result, flight, target, made, shared, workers, rest>>
Drain ==
    /\ pc = "drain" /\ result[target].is = "pending"
    /\ reading' = [call |-> Head(futures), got |-> <<>>]
    /\ futures' = Tail(futures)
    /\ pc' = "read"
    /\ UNCHANGED <<result, flight, target, made, shared, workers, rest>>

From == Repliers(reading.call)[Len(reading.got) + 1]

Resolve(value, got) ==
    /\ result' = [result EXCEPT ![reading.call] = [is |-> value, got |-> got]]
    /\ reading' = NoRead /\ pc' = "drain"

\* get_response: one answer of every replier; the first failure raises.
Read ==
    /\ pc = "read" /\ answers[From] # <<>>
    /\ answers' = [answers EXCEPT ![From] = Tail(@)]
    /\ LET a   == Head(answers[From])
           got == Append(reading.got, a)
       IN  CASE ~a.ok -> Resolve("error", <<>>)
             [] a.ok /\ Len(got) = Len(Repliers(reading.call)) -> Resolve("value", got)
             [] OTHER -> reading' = [reading EXCEPT !.got = got] /\ UNCHANGED <<pc, result>>
    /\ UNCHANGED <<futures, flight, target, made, shared, inbox, work, joined, outq,
                   closing, rest>>

\* VLLM_EXECUTE_MODEL_TIMEOUT_SECONDS, or the queues have been shut down
\* Mutant: the exception is not stored in the future.
ReadRaises ==
    /\ pc = "read" /\ answers[From] = <<>>
    /\ made[reading.call] = "execute" \/ open # {"broadcast", "responses"}
    /\ reading' = NoRead /\ pc' = "fatal"
    /\ UNCHANGED <<futures, result, flight, target, made, shared, workers, rest>>
ReadFails ==
    /\ pc = "read" /\ answers[From] = <<>>
    /\ made[reading.call] = "execute" \/ open # {"broadcast", "responses"}
    /\ Resolve("error", <<>>)
    /\ UNCHANGED <<futures, flight, target, made, shared, workers, rest>>

\* The engine ends with a failed step; a failed "all" call it may survive.
Return ==
    /\ pc = "drain" /\ result[target].is # "pending"
    /\ pc' \in IF result[target].is # "error" THEN {"idle"}
               ELSE IF made[target] = "execute" THEN {"fatal"} ELSE {"fatal", "idle"}
    /\ target' = 0
    /\ UNCHANGED <<futures, result, flight, reading, made, shared, workers, rest>>

\* The engine calls shutdown(): after an error, when told so by the failure
\* callback, or at the end of its work.
Stop ==
    /\ pc = "fatal" \/ (pc = "idle" /\ (flight = <<>> \/ called > 0))
    /\ pc' = "stopping"
    /\ stage' = [stage EXCEPT !["engine"] = "enter"]
    /\ UNCHANGED <<futures, result, flight, target, reading, made, isFailed,
                   shuttingDown, callback, called, open, monitor, workers, rest>>

-----------------------------------------------------------------------------
(* shutdown(), run by the engine thread or by the monitor.                 *)

Step(t, from, to) == stage[t] = from /\ stage' = [stage EXCEPT ![t] = to]

Enter(t) ==
    /\ Step(t, "enter", IF shuttingDown THEN "queues" ELSE "mark")
    /\ UNCHANGED <<engine, isFailed, shuttingDown, callback, called, open, monitor,
                   workers, rest>>

\* Mutant: shutting_down is not set before the workers are told to exit.
MarkNothing(t) ==
    /\ Step(t, "mark", "close")
    /\ UNCHANGED <<engine, isFailed, shuttingDown, callback, called, open, monitor,
                   workers, rest>>
Mark(t) ==
    /\ Step(t, "mark", "close")
    /\ shuttingDown' = TRUE
    /\ UNCHANGED <<engine, isFailed, callback, called, open, monitor, workers, rest>>

CloseDeathWriters(t) ==
    /\ Step(t, "close", "grace")
    /\ pipe' = FALSE
    /\ UNCHANGED <<engine, isFailed, shuttingDown, callback, called, open, monitor,
                   workers, async, unexpected>>

\* Inside a collective, out of reach of a Python signal handler
Waiting(w) == Busy(w) /\ joined[w] # <<>> /\ Last(joined[w]) = work[w]

Exit(S) ==
    /\ work' = [w \in Ranks |-> IF w \in S THEN Exited ELSE work[w]]
    /\ UNCHANGED <<inbox, joined, outq, answers, closing>>

\* _ensure_worker_termination: the grace period, then SIGTERM, which a worker
\* answers with SystemExit only if its shutdown was not requested before.
Terminate(t) ==
    /\ Step(t, "grace", IF AllExited THEN "responses" ELSE "term")
    /\ Exit({w \in Ranks : ~Waiting(w) /\ ~closing[w]})
    /\ UNCHANGED <<engine, isFailed, shuttingDown, callback, called, open, monitor, rest>>

\* Mutant: the last signal is SIGTERM again.
TermAgain(t) ==
    /\ Step(t, "term", "responses")
    /\ Exit({w \in Ranks : ~Waiting(w) /\ ~closing[w]})
    /\ UNCHANGED <<engine, isFailed, shuttingDown, callback, called, open, monitor, rest>>
Kill(t) ==
    /\ Step(t, "term", "responses")
    /\ Exit(Ranks)
    /\ UNCHANGED <<engine, isFailed, shuttingDown, callback, called, open, monitor, rest>>

CloseResponses(t) ==
    /\ Step(t, "responses", "queues")
    /\ open' = open \ {"responses"}
    /\ UNCHANGED <<engine, isFailed, shuttingDown, callback, called, monitor, workers, rest>>

CloseQueues(t) ==
    /\ Step(t, "queues", "done")
    /\ open' = {}
    /\ UNCHANGED <<engine, isFailed, shuttingDown, callback, called, monitor, workers, rest>>

Shutdown(t) == \/ Enter(t) \/ Mark(t) \/ CloseDeathWriters(t) \/ Terminate(t)
               \/ Kill(t) \/ CloseResponses(t) \/ CloseQueues(t)

-----------------------------------------------------------------------------
(* The monitor thread waits for the first worker process to end.           *)

Notice ==
    /\ monitor = "wait" /\ \E w \in Ranks : ~Alive(w)
    /\ IF shuttingDown
       THEN monitor' = "done" /\ UNCHANGED <<isFailed, stage>>
       ELSE /\ monitor' = "failed" /\ isFailed' = TRUE
            /\ stage' = [stage EXCEPT !["monitor"] = "enter"]
    /\ UNCHANGED <<engine, shuttingDown, callback, called, open, workers, rest>>

\* The callback is called once, if there is one yet.
Report ==
    /\ monitor = "failed" /\ stage["monitor"] = "done"
    /\ pc = "store" => LateRegister
    /\ monitor' = "done"
    /\ called' = IF callback THEN called + 1 ELSE called
    /\ callback' = FALSE
    /\ UNCHANGED <<engine, isFailed, shuttingDown, open, stage, workers, rest>>

-----------------------------------------------------------------------------
(* The workers.                                                            *)

Take(w) ==
    /\ work[w] = Loop /\ inbox[w] # <<>> /\ ~closing[w]
    /\ work' = [work EXCEPT ![w] = Head(inbox[w])]
    /\ inbox' = [inbox EXCEPT ![w] = Tail(@)]
    /\ UNCHANGED <<engine, shared, joined, outq, answers, closing, rest>>

\* The collectives of a step; the k-th one a rank enters pairs with the
\* k-th ones of the others.
Join(w) ==
    /\ Busy(w) /\ made[work[w]] = "execute" /\ ~Waiting(w)
    /\ joined' = [joined EXCEPT ![w] = Append(@, work[w])]
    /\ UNCHANGED <<engine, shared, inbox, work, outq, answers, closing, rest>>

\* handle_output: only the ranks that are to reply do, a failure included.
Answer(w, ok, with) ==
    LET c == work[w]
        a == [call |-> c, ok |-> ok, with |-> with]
    IN  CASE ~Contains(Repliers(c), w) -> UNCHANGED <<outq, answers>>
          [] Contains(Repliers(c), w) /\ async ->
                outq' = [outq EXCEPT ![w] = Append(@, a)] /\ UNCHANGED answers
          [] OTHER -> answers' = [answers EXCEPT ![w] = Append(@, a)] /\ UNCHANGED outq

Finish(w) ==
    /\ Busy(w)
    /\ LET k == Len(joined[w])
       IN  IF made[work[w]] = "execute"
           THEN /\ Waiting(w) /\ \A v \in Ranks : Len(joined[v]) >= k
                /\ Answer(w, TRUE, {joined[v][k] : v \in Ranks})
           ELSE Answer(w, TRUE, {work[w]})
    /\ work' = [work EXCEPT ![w] = Loop]
    /\ UNCHANGED <<engine, shared, inbox, joined, closing, rest>>

\* An exception in the method: answered like a result, and the loop goes on.
Raises(w) ==
    /\ "raise" \in Faults /\ Busy(w) /\ ~Waiting(w)
    /\ Answer(w, FALSE, {})
    /\ work' = [work EXCEPT ![w] = Loop]
    /\ UNCHANGED <<engine, shared, inbox, joined, closing, rest>>

\* async_output_busy_loop
Forward(w) ==
    /\ outq[w] # <<>> /\ Alive(w) /\ ~closing[w]
    /\ answers' = [answers EXCEPT ![w] = Append(@, Head(outq[w]))]
    /\ outq' = [outq EXCEPT ![w] = Tail(@)]
    /\ UNCHANGED <<engine, shared, inbox, work, joined, closing, rest>>

\* monitor_death_pipe
DeathPipe(w) ==
    /\ ~pipe /\ Alive(w) /\ ~closing[w]
    /\ closing' = [closing EXCEPT ![w] = TRUE]
    /\ UNCHANGED <<engine, shared, inbox, work, joined, outq, answers, rest>>

\* dequeue on a queue that was shut down ends worker_busy_loop.
WorkerExits(w) ==
    /\ work[w] = Loop /\ closing[w]
    /\ Exit({w})
    /\ UNCHANGED <<engine, shared, rest>>

-----------------------------------------------------------------------------
(* Faults.                                                                 *)

\* A worker process is lost (one of them, as a bound of the model).
Dies(w) ==
    /\ "die" \in Faults /\ \A v \in Ranks : Alive(v)
    /\ Exit({w})
    /\ unexpected' = (unexpected \/ ~shuttingDown)
    /\ UNCHANGED <<engine, shared, async, pipe>>

\* The engine process is lost, and with it the writers of the death pipes
\* (bound: not after the loss of a worker).
EngineGone ==
    /\ "gone" \in Faults /\ pc # "gone" /\ ~unexpected
    /\ pc' = "gone" /\ monitor' = "done"
    /\ stage' = [t \in Threads |-> "done"]
    /\ pipe' = FALSE
    /\ UNCHANGED <<futures, result, flight, target, reading, made, isFailed,
                   shuttingDown, callback, called, open, workers, async, unexpected>>

\* The executor has been shut down, or its process is gone.
Done ==
    /\ pc = "gone" \/ (pc = "stopping" /\ stage["engine"] = "done")
    /\ UNCHANGED vars

Next ==
    \/ Register \/ Store \/ \E kind \in {"execute", "all"} : Call(kind)
    \/ TakeResult \/ Drain \/ Read \/ ReadFails \/ Return \/ Stop
    \/ \E t \in Threads : Shutdown(t)
    \/ Notice \/ Report
    \/ \E w \in Ranks : \/ Take(w) \/ Join(w) \/ Finish(w) \/ Raises(w) \/ Forward(w)
                        \/ DeathPipe(w) \/ WorkerExits(w) \/ Dies(w)
    \/ EngineGone \/ Done

\* Threads and processes that can go on do, except that nobody is obliged to
\* make calls, to fail, or to stop an engine that has no reason to.
Fairness ==
    /\ WF_vars(Register \/ Store \/ Drain \/ Read \/ ReadFails \/ Return)
    /\ WF_vars(Stop /\ (pc = "fatal" \/ called > 0))
    /\ \A t \in Threads : WF_vars(Shutdown(t))
    /\ WF_vars(Notice \/ Report)
    /\ \A w \in Ranks : /\ WF_vars(Take(w) \/ Join(w) \/ Finish(w) \/ WorkerExits(w))
                        /\ WF_vars(Forward(w))
                        /\ WF_vars(DeathPipe(w))

Spec == Init /\ [][Next]_vars /\ Fairness

-----------------------------------------------------------------------------
(* Properties.                                                             *)

Calls   == DOMAIN made
Messages == [call : Calls, ok : BOOLEAN, with : SUBSET Calls]

\* Every variable has its type, and a call is in the queue of futures as long
\* as nobody has begun to read its answer (FutureWrapper).
TypeOK ==
    /\ pc \in {"register", "store", "idle", "drain", "read", "fatal", "stopping", "gone"}
    /\ made \in Seq({"execute", "all"}) /\ Len(result) = Len(made)
    /\ futures \in Seq(Calls) /\ flight \in Seq(Calls) /\ target \in Calls \cup {0}
    /\ ToSet(futures) \cup ({reading.call} \ {0}) = {c \in Calls : result[c].is = "pending"}
    /\ monitor \in {"wait", "failed", "done"} /\ open \subseteq {"broadcast", "responses"}
    /\ \A w \in Ranks : /\ work[w] \in Calls \cup {Loop, Exited}
                        /\ inbox[w] \in Seq(Calls) /\ joined[w] \in Seq(Calls)
                        /\ ToSet(outq[w]) \cup ToSet(answers[w]) \subseteq Messages

\* A rank that is not to reply failed in a step, which nobody is told.
Silent(c) == /\ made[c] = "execute"
             /\ \E w \in Ranks \ {OutputRank} :
                    /\ ~Contains(joined[w], c) /\ ~Contains(inbox[w], c)
                    /\ work[w] # c

\* The result of a call is the answer every replying rank gave to that very
\* call, and a step was computed by all the ranks together.  Answers carry no
\* number, so this rests on the order of the queues: it ends with the first
\* call that failed, whose late or other answers the next call would read, and
\* the collectives fall out of step when a rank that does not reply fails.
OwnAnswer ==
    \A c \in Calls :
        /\ result[c].is = "value"
        /\ \A b \in 1..(c - 1) : result[b].is # "error"
        => /\ Len(result[c].got) = Len(Repliers(c))
           /\ \A i \in DOMAIN result[c].got :
                /\ result[c].got[i].call = c
                /\ (\A b \in Calls : ~Silent(b)) => result[c].got[i].with = {c}

\* The executor is declared failed, and the failure callback called, only if
\* a worker died before anybody shut it down, and at most once.
NoFalseAlarm ==
    /\ isFailed => unexpected
    /\ called > 0 => isFailed
    /\ called <= 1

\* A rank in a collective that a peer will not enter.
Stuck(w) ==
    /\ Waiting(w)
    /\ \E v \in Ranks : /\ Len(joined[v]) < Len(joined[w])
                        /\ ~Alive(v) \/ (work[v] = Loop /\ inbox[v] = <<>>)

\* result() returns or raises, whatever fails: the one exception is an "all"
\* call, which has no timeout, behind a step in which a rank is stuck.
Released ==
    (pc \in {"drain", "read"})
        ~> (\/ pc \notin {"drain", "read"}
            \/ target # 0 /\ made[target] = "all" /\ \E w \in Ranks : Stuck(w))

\* After shutdown() no worker is left; after the loss of the engine process
\* only those stuck in a collective are.
WorkersExit ==
    /\ (\E t \in Threads : stage[t] = "enter") ~> (AllExited \/ pc = "gone")
    /\ (pc = "gone") ~> (\A w \in Ranks : ~Alive(w) \/ Stuck(w))

\* The engine is told of a dead worker, also when it died before the callback
\* was registered.
FailureReported == isFailed ~> (called = 1 \/ pc = "gone")

Progress == Released /\ WorkersExit /\ FailureReported
=============================================================================
