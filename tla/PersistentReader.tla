--------------------------- MODULE PersistentReader ---------------------------
(***************************************************************************)
(* The slots of the persistent GDS reader: the Python wrapper, which lends  *)
(* them to concurrent callers (src/src/ple_gds/persistent_reader.py), and   *)
(* the native state, which reuses their staging and output memory while the *)
(* device may still be working on it (src/csrc/ple_gds/ple_gds_persistent   *)
(* .cpp, Slot, read, release, rebind_outputs and close).                    *)
(*                                                                          *)
(* Every read is given a number; a buffer holds the number of the read that *)
(* filled it last.  The reads of a slot are issued and released on one      *)
(* stream by all callers in the repository, so the device runs the gather   *)
(* of a read before the work of its consumer, and consumer_done is reached  *)
(* after both.                                                              *)
(*                                                                          *)
(* The slots have outputs of their own.  The input-driven connector rebinds *)
(* them all to one tensor, which a single thread fills on a single stream:  *)
(* that use is the subject of PleHandoff.                                   *)
(***************************************************************************)
EXTENDS Integers, Sequences, FiniteSets, Functions

CONSTANTS
    Clients,   \* threads that read
    Slots,     \* slot indices
    FirstSlot, \* slot 0, through which the constructor loads the global scale
    NoSlot,    \* a client that has no slot
    Nobody,    \* a mutex that is not held
    MaxReads   \* number of native reads of one behaviour (the bound)

ASSUME SlotAssumption == IsFiniteSet(Slots) /\ FirstSlot \in Slots /\ NoSlot \notin Slots
ASSUME ClientAssumption == Nobody \notin Clients
ASSUME BoundAssumption == MaxReads \in Nat

VARIABLES
    free_slots,     \* _free_slots, a FIFO queue
    active_slots,   \* _active_slots
    closed,         \* _closed
    pc,             \* pc[c]: where client c is
    slot,           \* slot[c]: the slot in its hands
    binding,        \* holder of output_binding_mutex_
    slot_released,  \* Slot::released
    consumer_event_recorded,
    gather_event_recorded,
    native_closed,  \* closed_
    closing,        \* close() of the wrapper is between its two halves
    reads,          \* native reads begun
    staging,        \* staging[s], output[s]: the read whose bytes they hold
    output,
    gathers,        \* gathers[s]: reads whose gather kernel is not executed
    consumers       \* consumers[s]: reads whose consumer work is not executed

python == <<free_slots, active_slots, closed, closing>>
native == <<binding, slot_released, consumer_event_recorded, gather_event_recorded,
            native_closed>>
memory == <<reads, staging, output>>
device == <<gathers, consumers>>
vars   == <<python, native, memory, device, pc, slot>>

\* Events: work enqueued before the record that the device has not done.
GatherDone(s)   == gathers[s] = {}
ConsumerDone(s) == gathers[s] = {} /\ consumers[s] = {}

\* Mutant: only a slot with a consumer event is waited for.
QuietConsumer(s) == consumer_event_recorded[s] => ConsumerDone(s)

\* What read, rebind_outputs and close wait for before they touch a slot.
Quiet(s) ==
    /\ consumer_event_recorded[s] => ConsumerDone(s)
    /\ ~consumer_event_recorded[s] /\ gather_event_recorded[s] => GatherDone(s)

\* Where a client has taken a slot from the queue and not put it back, and
\* where its slot is in _active_slots.
Carrying == {"enter", "lock", "wait", "io", "leased", "abort", "put"}
Holding  == {"lock", "wait", "io", "leased", "abort"}

Carriers == {c \in Clients : pc[c] \in Carrying}
Holders  == {c \in Clients : pc[c] \in Holding}
Carried  == {slot[c] : c \in Carriers}

Init ==
    /\ free_slots \in [1..Cardinality(Slots) -> Slots]
    /\ IsInjective(free_slots)
    /\ active_slots = {} /\ closed = FALSE /\ closing = FALSE
    /\ pc = [c \in Clients |-> "idle"]
    /\ slot = [c \in Clients |-> NoSlot]
    /\ binding = Nobody
    /\ slot_released = [s \in Slots |-> TRUE]
    \* the constructor has read the global scale through the first slot
    /\ consumer_event_recorded = [s \in Slots |-> s = FirstSlot]
    /\ gather_event_recorded = [s \in Slots |-> s = FirstSlot]
    /\ native_closed = FALSE
    /\ reads = 0
    /\ staging = [s \in Slots |-> 0] /\ output = [s \in Slots |-> 0]
    /\ gathers = [s \in Slots |-> {}]
    /\ \E pending \in SUBSET {0} :
          consumers = [s \in Slots |-> IF s = FirstSlot THEN pending ELSE {}]

-----------------------------------------------------------------------------
(* The wrapper.                                                            *)

Goto(c, label) == pc' = [pc EXCEPT ![c] = label]

\* read_at: refused when closed, otherwise the caller waits for a slot.
Read(c) ==
    /\ pc[c] = "idle" /\ ~closed
    /\ reads + Cardinality({d \in Clients : pc[d] \in {"get", "enter", "lock", "wait"}})
         < MaxReads
    /\ Goto(c, "get")
    /\ UNCHANGED <<python, native, memory, device, slot>>

Get(c) ==
    /\ pc[c] = "get" /\ free_slots # <<>>
    /\ slot' = [slot EXCEPT ![c] = Head(free_slots)]
    /\ free_slots' = Tail(free_slots)
    /\ Goto(c, "enter")
    /\ UNCHANGED <<active_slots, closed, closing, native, memory, device>>

\* Mutant: the slot becomes active without another look at _closed.
EnterUnchecked(c) ==
    /\ pc[c] = "enter"
    /\ active_slots' = active_slots \cup {slot[c]}
    /\ Goto(c, "lock")
    /\ UNCHANGED <<free_slots, closed, closing, native, memory, device, slot>>

\* _slot_lock: the slot becomes active, or goes back when the reader has closed.
Enter(c) ==
    /\ pc[c] = "enter"
    /\ IF closed
         THEN /\ free_slots' = Append(free_slots, slot[c])
              /\ Goto(c, "idle")
              /\ slot' = [slot EXCEPT ![c] = NoSlot]
              /\ UNCHANGED active_slots
         ELSE /\ active_slots' = active_slots \cup {slot[c]}
              /\ Goto(c, "lock")
              /\ UNCHANGED <<free_slots, slot>>
    /\ UNCHANGED <<closed, closing, native, memory, device>>

\* The exception path of _read_prepared: the slot stops being active, then it
\* is put back (by Put).
Abort(c) ==
    /\ pc[c] = "abort"
    /\ active_slots' = active_slots \ {slot[c]}
    /\ Goto(c, "put")
    /\ UNCHANGED <<free_slots, closed, closing, native, memory, device, slot>>

\* release: native.release records consumer_done under the slot lock.
Release(c) ==
    LET s == slot[c] IN
    /\ pc[c] = "leased"
    /\ s \in active_slots /\ ~slot_released[s]
    /\ consumer_event_recorded' = [consumer_event_recorded EXCEPT ![s] = TRUE]
    /\ slot_released' = [slot_released EXCEPT ![s] = TRUE]
    /\ active_slots' = active_slots \ {s}
    /\ Goto(c, "put")
    /\ UNCHANGED <<free_slots, closed, closing, binding, gather_event_recorded,
                   native_closed, memory, device, slot>>

\* Mutants: a slot given back after close is dropped; the lease keeps its slot.
PutUnlessClosed(c) ==
    /\ pc[c] = "put"
    /\ free_slots' = IF closed THEN free_slots ELSE Append(free_slots, slot[c])
    /\ slot' = [slot EXCEPT ![c] = NoSlot]
    /\ Goto(c, "idle")
    /\ UNCHANGED <<active_slots, closed, closing, native, memory, device>>
PutKeeping(c) ==
    /\ pc[c] = "put"
    /\ free_slots' = Append(free_slots, slot[c])
    /\ Goto(c, "idle")
    /\ UNCHANGED <<active_slots, closed, closing, native, memory, device, slot>>

\* put_nowait, after the slot lock is released
Put(c) ==
    /\ pc[c] = "put"
    /\ free_slots' = Append(free_slots, slot[c])
    /\ slot' = [slot EXCEPT ![c] = NoSlot]
    /\ Goto(c, "idle")
    /\ UNCHANGED <<active_slots, closed, closing, native, memory, device>>

-----------------------------------------------------------------------------
(* The native reader.                                                      *)

\* read takes the binding mutex and the slot's mutex, and refuses a slot that
\* its consumer still owns.
Lock(c) ==
    /\ pc[c] = "lock" /\ binding = Nobody
    /\ IF slot_released[slot[c]]
         THEN binding' = c /\ Goto(c, "wait")
         ELSE Goto(c, "abort") /\ UNCHANGED binding
    /\ UNCHANGED <<python, slot_released, consumer_event_recorded,
                   gather_event_recorded, native_closed, memory, device, slot>>

\* The events of the slot's previous read are synchronized and forgotten.
Wait(c) ==
    LET s == slot[c] IN
    /\ pc[c] = "wait" /\ Quiet(s)
    /\ gather_event_recorded' = [gather_event_recorded EXCEPT ![s] = FALSE]
    /\ consumer_event_recorded' = [consumer_event_recorded EXCEPT ![s] = FALSE]
    /\ slot_released' = [slot_released EXCEPT ![s] = FALSE]
    /\ reads' = reads + 1
    /\ staging' = [staging EXCEPT ![s] = reads + 1]
    /\ Goto(c, "io")
    /\ UNCHANGED <<python, binding, native_closed, output, device, slot>>

\* The gather is launched behind the I/O and gather_end is recorded.
Launch(c) ==
    LET s == slot[c] IN
    /\ pc[c] = "io"
    /\ gathers' = [gathers EXCEPT ![s] = @ \cup {staging[s]}]
    /\ gather_event_recorded' = [gather_event_recorded EXCEPT ![s] = TRUE]
    /\ binding' = Nobody
    /\ Goto(c, "leased")
    /\ UNCHANGED <<python, slot_released, consumer_event_recorded, native_closed,
                   memory, consumers, slot>>

\* Mutant: the failed read leaves its slot unreleased.
ReadFailsOwned(c) ==
    /\ pc[c] = "io"
    /\ binding' = Nobody
    /\ Goto(c, "abort")
    /\ UNCHANGED <<python, slot_released, gather_event_recorded, consumer_event_recorded,
                   native_closed, memory, device, slot>>

\* An exception inside read: the slot is released again; the gather may have
\* been launched (a failed validation) or not (a failed or short I/O).
ReadFails(c) ==
    LET s == slot[c] IN
    /\ pc[c] = "io"
    /\ \E launched \in BOOLEAN :
          /\ gathers' = IF launched THEN [gathers EXCEPT ![s] = @ \cup {staging[s]}]
                                    ELSE gathers
          /\ gather_event_recorded' = [gather_event_recorded EXCEPT ![s] = launched]
    /\ slot_released' = [slot_released EXCEPT ![s] = TRUE]
    /\ binding' = Nobody
    /\ Goto(c, "abort")
    /\ UNCHANGED <<python, consumer_event_recorded, native_closed, memory, consumers,
                   slot>>

\* The caller enqueues work that reads the leased output.
Consume(c) ==
    LET s == slot[c] IN
    /\ pc[c] = "leased" /\ consumers[s] = {}
    /\ consumers' = [consumers EXCEPT ![s] = {staging[s]}]
    /\ UNCHANGED <<python, native, memory, gathers, pc, slot>>

\* rebind_output_slots: only while no slot is active, after every event.
Rebind ==
    /\ ~closed /\ active_slots = {} /\ binding = Nobody
    /\ \A s \in Slots : slot_released[s] /\ Quiet(s)
    /\ output' = [s \in Slots |-> 0]
    /\ consumer_event_recorded' = [s \in Slots |-> FALSE]
    /\ gather_event_recorded' = [s \in Slots |-> FALSE]
    /\ UNCHANGED <<python, binding, slot_released, native_closed, reads, staging, device,
                   pc, slot>>

-----------------------------------------------------------------------------
(* close: the wrapper refuses while a slot is active, then the native state *)
(* waits for the events of every slot and frees the memory.                 *)

\* Mutant: close goes on to the native state only when the queue is full.
CloseWhenFull ==
    /\ ~closed /\ active_slots = {}
    /\ closed' = TRUE /\ closing' = (Len(free_slots) = Cardinality(Slots))
    /\ UNCHANGED <<free_slots, active_slots, native, memory, device, pc, slot>>

Close ==
    /\ ~closed /\ active_slots = {}
    /\ closed' = TRUE /\ closing' = TRUE
    /\ UNCHANGED <<free_slots, active_slots, native, memory, device, pc, slot>>

\* Mutant: the memory is freed without waiting for the consumers.
NativeCloseEarly ==
    /\ closing /\ binding = Nobody
    /\ \A s \in Slots : gather_event_recorded[s] => GatherDone(s)
    /\ native_closed' = TRUE
    /\ closing' = FALSE
    /\ UNCHANGED <<free_slots, active_slots, closed, binding, slot_released,
                   consumer_event_recorded, gather_event_recorded, memory, device, pc,
                   slot>>

NativeClose ==
    /\ closing /\ binding = Nobody
    /\ \A s \in Slots :
          /\ gather_event_recorded[s] => GatherDone(s)
          /\ consumer_event_recorded[s] => ConsumerDone(s)
    /\ native_closed' = TRUE
    /\ closing' = FALSE
    /\ UNCHANGED <<free_slots, active_slots, closed, binding, slot_released,
                   consumer_event_recorded, gather_event_recorded, memory, device, pc,
                   slot>>

-----------------------------------------------------------------------------
(* The device.                                                             *)

Gather(s) ==
    /\ \E k \in gathers[s] : gathers' = [gathers EXCEPT ![s] = @ \ {k}]
    /\ output' = [output EXCEPT ![s] = staging[s]]
    /\ UNCHANGED <<python, native, reads, staging, consumers, pc, slot>>

Consumed(s) ==
    /\ gathers[s] = {}
    /\ \E k \in consumers[s] : consumers' = [consumers EXCEPT ![s] = @ \ {k}]
    /\ UNCHANGED <<python, native, memory, gathers, pc, slot>>

Finished == closed /\ ~closing /\ (\A c \in Clients : pc[c] = "idle") /\ UNCHANGED vars

Client(c) ==
    \/ Get(c) \/ Enter(c) \/ Abort(c) \/ Release(c) \/ Put(c)
    \/ Lock(c) \/ Wait(c) \/ Launch(c)

Next ==
    \/ \E c \in Clients : Read(c) \/ Client(c) \/ ReadFails(c) \/ Consume(c)
    \/ Rebind \/ Close \/ NativeClose
    \/ \E s \in Slots : Gather(s) \/ Consumed(s)
    \/ Finished

\* Callers return their leases and the device runs what it was given; nobody has
\* to read, to fail or to close.
Fairness ==
    /\ \A c \in Clients : WF_vars(Client(c))
    /\ \A s \in Slots : WF_vars(Gather(s) \/ Consumed(s))
    /\ WF_vars(NativeClose)

Spec == Init /\ [][Next]_vars /\ Fairness

-----------------------------------------------------------------------------
(* Properties.                                                             *)

Labels == Carrying \cup {"idle", "get"}

\* Every variable has its type.
TypeOK ==
    /\ free_slots \in Seq(Slots)
    /\ active_slots \subseteq Slots
    /\ closed \in BOOLEAN /\ closing \in BOOLEAN /\ native_closed \in BOOLEAN
    /\ pc \in [Clients -> Labels]
    /\ slot \in [Clients -> Slots \cup {NoSlot}]
    /\ \A c \in Clients : pc[c] \in Carrying <=> slot[c] # NoSlot
    /\ binding \in Clients \cup {Nobody}
    /\ slot_released \in [Slots -> BOOLEAN]
    /\ consumer_event_recorded \in [Slots -> BOOLEAN]
    /\ gather_event_recorded \in [Slots -> BOOLEAN]
    /\ reads \in Nat
    /\ staging \in [Slots -> Nat] /\ output \in [Slots -> Nat]
    /\ gathers \in [Slots -> SUBSET Nat] /\ consumers \in [Slots -> SUBSET Nat]

\* A slot is in exactly one place: once in the queue, or in the hands of one
\* client.  No error path loses a slot or puts it back twice.
EachSlotOnce ==
    /\ IsInjective(free_slots)
    /\ \A c, d \in Carriers : slot[c] = slot[d] => c = d
    /\ Range(free_slots) = Slots \ Carried

\* The wrapper and the native state agree on ownership: a slot is active while
\* its client holds it, and not released exactly while a read or a lease uses
\* it, so a read never finds "slot is still owned by the previous consumer".
OwnershipAgrees ==
    /\ active_slots = {slot[c] : c \in Holders}
    /\ \A s \in Slots :
          ~slot_released[s] <=>
              \E c \in Clients : pc[c] \in {"io", "leased"} /\ slot[c] = s

\* The slots are accounted for, whatever reads fail and whenever the reader closes.
SlotAccounting == EachSlotOnce /\ OwnershipAgrees

\* The bytes a pending gather was launched for are still in the staging memory,
\* and the rows a pending consumer was given are in the output when it runs: no
\* later read, rebind or failed read overwrites them.
DataIntact ==
    \A s \in Slots :
        /\ \A k \in gathers[s] : staging[s] = k
        /\ \A k \in consumers[s] : gathers[s] = {} => output[s] = k

\* The native state is freed only when no thread is inside it and the device
\* has finished with its memory, and nothing enters it afterwards.
NothingAfterClose ==
    native_closed =>
        /\ Holders = {}
        /\ \A s \in Slots : gathers[s] = {} /\ consumers[s] = {}

\* A caller that waits for a slot does not wait on an empty queue forever.
SlotsReturn == []<>(free_slots # <<>>)

\* A close that was accepted completes.
CloseCompletes == closed ~> native_closed

\* Whoever waits, for a slot or for the close, is served.
Progress == SlotsReturn /\ CloseCompletes

\* The reader implements the lease pool: a client holds a slot from the moment
\* it is active until it no longer is.
Held == {<<c, slot[c]>> : c \in Holders}
Pool == INSTANCE LeasePool WITH held <- Held, open <- ~closed
PoolSpec == Pool!Spec
=============================================================================
