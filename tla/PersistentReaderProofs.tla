------------------------ MODULE PersistentReaderProofs ------------------------
(***************************************************************************)
(* Proofs about the persistent reader, for every set of clients, every     *)
(* finite set of slots and any number of reads.                            *)
(***************************************************************************)
EXTENDS PersistentReader, TLAPS, SequenceTheorems, FiniteSetTheorems

-----------------------------------------------------------------------------
(* The slot queue: taking its head and appending a slot.                   *)

\* Taking the head of a queue without duplicates removes exactly that slot.
LEMMA PopQueue ==
    ASSUME NEW S, NEW q \in Seq(S), q # <<>>, IsInjective(q)
    PROVE  /\ Head(q) \in S /\ Head(q) \in Range(q)
           /\ Tail(q) \in Seq(S)
           /\ IsInjective(Tail(q))
           /\ Range(Tail(q)) = Range(q) \ {Head(q)}
<1>1. /\ Head(q) = q[1] /\ 1 \in DOMAIN q /\ q[1] \in S
      /\ Tail(q) \in Seq(S)
      /\ DOMAIN Tail(q) = 1..(Len(q) - 1)
      /\ \A i \in 1..(Len(q) - 1) : Tail(q)[i] = q[i + 1]
  OBVIOUS
<1>2. DOMAIN q = 1..Len(q) /\ Len(q) \in Nat
  OBVIOUS
<1>3. IsInjective(Tail(q))
  BY <1>1, <1>2, SMT DEF IsInjective
<1>4. ASSUME NEW x \in Range(Tail(q)) PROVE x \in Range(q) \ {Head(q)}
  <2>1. PICK i \in 1..(Len(q) - 1) : x = q[i + 1]
    BY <1>1 DEF Range
  <2>2. i + 1 \in DOMAIN q /\ i + 1 # 1
    BY <1>2
  <2> QED
    BY <1>1, <2>1, <2>2 DEF Range, IsInjective
<1>5. ASSUME NEW x \in Range(q) \ {Head(q)} PROVE x \in Range(Tail(q))
  <2>1. PICK i \in DOMAIN q : x = q[i]
    BY DEF Range
  <2>2. i - 1 \in 1..(Len(q) - 1) /\ q[(i - 1) + 1] = x
    BY <1>1, <1>2, <2>1
  <2> QED
    BY <1>1, <2>2 DEF Range
<1> QED
  BY <1>1, <1>3, <1>4, <1>5 DEF Range

\* Putting a slot that is not in the queue at its end adds exactly that slot.
LEMMA PushQueue ==
    ASSUME NEW S, NEW q \in Seq(S), NEW s \in S, IsInjective(q), s \notin Range(q)
    PROVE  /\ Append(q, s) \in Seq(S)
           /\ IsInjective(Append(q, s))
           /\ Range(Append(q, s)) = Range(q) \cup {s}
<1> DEFINE r == Append(q, s)
<1>1. /\ r \in Seq(S) /\ Len(q) \in Nat
      /\ DOMAIN q = 1..Len(q) /\ DOMAIN r = 1..(Len(q) + 1)
      /\ \A i \in 1..Len(q) : r[i] = q[i]
      /\ r[Len(q) + 1] = s
  OBVIOUS
<1> HIDE DEF r
<1>2. IsInjective(r)
  <2> SUFFICES ASSUME NEW i \in 1..(Len(q) + 1), NEW j \in 1..(Len(q) + 1), r[i] = r[j]
               PROVE  i = j
    BY <1>1 DEF IsInjective
  <2>1. \A k \in 1..Len(q) : q[k] # s
    BY <1>1 DEF Range
  <2>2. \A k \in 1..(Len(q) + 1) : k = Len(q) + 1 \/ k \in 1..Len(q)
    BY <1>1
  <2>3. \A k, l \in 1..Len(q) : q[k] = q[l] => k = l
    BY <1>1 DEF IsInjective
  <2> QED
    BY <1>1, <2>1, <2>2, <2>3
<1>3. Range(r) = Range(q) \cup {s}
  <2>1. ASSUME NEW x \in Range(r) PROVE x \in Range(q) \cup {s}
    <3>1. PICK i \in 1..(Len(q) + 1) : x = r[i]
      BY <1>1 DEF Range
    <3>2. i = Len(q) + 1 \/ i \in 1..Len(q)
      BY <1>1
    <3> QED
      BY <1>1, <3>1, <3>2 DEF Range
  <2>2. ASSUME NEW x \in Range(q) \cup {s} PROVE x \in Range(r)
    <3>1. Len(q) + 1 \in DOMAIN r /\ \A i \in DOMAIN q : i \in DOMAIN r
      BY <1>1
    <3> QED
      BY <1>1, <3>1 DEF Range
  <2> QED
    BY <2>1, <2>2
<1> QED
  BY <1>1, <1>2, <1>3 DEF r

-----------------------------------------------------------------------------
(* The inductive invariant: beside the properties, who holds the binding   *)
(* mutex, what close leaves behind, and that the recorded events cover the *)
(* work the device has not done.                                           *)

BindingMutex ==
    \A c \in Clients : pc[c] \in {"wait", "io"} <=> binding = c

ClosedIsEmpty ==
    /\ closed => active_slots = {}
    /\ closing \/ native_closed => closed
    /\ native_closed => \A s \in Slots : gathers[s] = {} /\ consumers[s] = {}

EventsCover ==
    \A s \in Slots :
        /\ gathers[s] # {} => gather_event_recorded[s]
        /\ slot_released[s] /\ consumers[s] # {} => consumer_event_recorded[s]

\* The bytes a pending gather or consumer was given are still where it looks.
StagingKept ==
    \A s \in Slots : \A k \in gathers[s] \cup consumers[s] : staging[s] = k
OutputKept ==
    \A s \in Slots : gathers[s] = {} /\ consumers[s] # {} => output[s] = staging[s]

\* A read in its I/O phase is alone with its slot; a lease whose gather is done
\* has its rows in the output.
AloneInIO ==
    \A c \in Clients : pc[c] = "io" => gathers[slot[c]] = {} /\ consumers[slot[c]] = {}
LeaseFilled ==
    \A c \in Clients :
        pc[c] = "leased" /\ gathers[slot[c]] = {} => output[slot[c]] = staging[slot[c]]

IInv ==
    /\ TypeOK
    /\ EachSlotOnce
    /\ OwnershipAgrees
    /\ BindingMutex
    /\ ClosedIsEmpty
    /\ EventsCover
    /\ StagingKept
    /\ OutputKept
    /\ AloneInIO
    /\ LeaseFilled

\* What the invariant says of one client and of one slot.
LEMMA Facts ==
    ASSUME IInv
    PROVE  /\ \A c \in Clients : pc[c] \in Carrying =>
                 slot[c] \in Slots /\ slot[c] \notin Range(free_slots)
           /\ \A c, d \in Clients :
                 pc[c] \in Carrying /\ pc[d] \in Carrying /\ slot[c] = slot[d] => c = d
           /\ \A c \in Clients : pc[c] \in {"io", "leased"} => ~slot_released[slot[c]]
           /\ \A c \in Clients : pc[c] \in Holding => slot[c] \in active_slots /\ ~closed
           /\ \A s \in Slots : slot_released[s] /\ Quiet(s) =>
                 gathers[s] = {} /\ consumers[s] = {}
<1> USE SlotAssumption
<1>1. \A c \in Clients : pc[c] \in Carrying => slot[c] \in Slots /\ slot[c] \in Carried
  BY DEF IInv, TypeOK, Carriers, Carried
<1>2. \A c \in Clients : pc[c] \in Carrying => slot[c] \notin Range(free_slots)
  BY <1>1 DEF IInv, EachSlotOnce
<1>3. \A c, d \in Clients :
        pc[c] \in Carrying /\ pc[d] \in Carrying /\ slot[c] = slot[d] => c = d
  BY DEF IInv, EachSlotOnce, Carriers
<1>4. \A c \in Clients : pc[c] \in {"io", "leased"} => ~slot_released[slot[c]]
  BY <1>1 DEF IInv, OwnershipAgrees, Carrying
<1>5. \A c \in Clients : pc[c] \in Holding => slot[c] \in active_slots
  BY DEF IInv, OwnershipAgrees, Holders
<1>6. \A s \in Slots : slot_released[s] /\ Quiet(s) => gathers[s] = {} /\ consumers[s] = {}
  BY DEF IInv, EventsCover, Quiet, GatherDone, ConsumerDone
<1> QED
  BY <1>1, <1>2, <1>3, <1>4, <1>5, <1>6 DEF IInv, ClosedIsEmpty

\* When a read may go past its wait, the device has nothing of the slot left.
LEMMA WaitIsQuiet ==
    ASSUME IInv, NEW c \in Clients, pc[c] = "wait", Quiet(slot[c])
    PROVE  slot[c] \in Slots /\ gathers[slot[c]] = {} /\ consumers[slot[c]] = {}
<1>1. slot[c] \in Slots
  BY Facts DEF Carrying
<1>2. slot_released[slot[c]]
  <2>1. \A d \in Clients : pc[d] \in {"io", "leased"} => slot[d] # slot[c]
    BY Facts DEF Carrying
  <2> QED
    BY <1>1, <2>1 DEF IInv, OwnershipAgrees
<1> QED
  BY <1>1, <1>2, Facts

\* Every step of the reader, its clients and the device preserves the invariant.
LEMMA Step == IInv /\ [Next]_vars => IInv'
<1> SUFFICES ASSUME IInv, [Next]_vars PROVE IInv'
  OBVIOUS
<1> USE SlotAssumption, ClientAssumption DEF IInv
<1>1. ASSUME NEW c \in Clients, Read(c) PROVE IInv'
  <2>1. TypeOK'
    BY <1>1 DEF Read, Goto, python, native, memory, device, TypeOK, Labels, Carrying
  <2>2. EachSlotOnce'
    <3>1. Carriers' = Carriers /\ slot' = slot /\ free_slots' = free_slots
      BY <1>1 DEF Read, Goto, python, native, memory, device, Carriers, Carrying, TypeOK
    <3> QED
      BY <3>1 DEF EachSlotOnce, Carried
  <2>3. OwnershipAgrees'
    BY <1>1 DEF Read, Goto, python, native, memory, device, OwnershipAgrees, TypeOK, Labels, Holders, Holding, Carrying, EachSlotOnce, Carriers
  <2>4. BindingMutex'
    BY <1>1 DEF Read, Goto, python, native, memory, device, BindingMutex, TypeOK, Labels
  <2>5. ClosedIsEmpty'
    BY <1>1 DEF Read, Goto, python, native, memory, device, ClosedIsEmpty, TypeOK, OwnershipAgrees, Holders, Holding, Labels
  <2>6. EventsCover'
    BY <1>1 DEF Read, Goto, python, native, memory, device, EventsCover, TypeOK, Labels
  <2>7. StagingKept'
    BY <1>1 DEF Read, Goto, python, native, memory, device, StagingKept, TypeOK
  <2>8. OutputKept'
    BY <1>1 DEF Read, Goto, python, native, memory, device, OutputKept, TypeOK
  <2>9. AloneInIO'
    BY <1>1 DEF Read, Goto, python, native, memory, device, AloneInIO, TypeOK, Carrying, Labels
  <2>10. LeaseFilled'
    BY <1>1 DEF Read, Goto, python, native, memory, device, LeaseFilled, TypeOK, Carrying, Labels
  <2> QED
    BY <2>1, <2>2, <2>3, <2>4, <2>5, <2>6, <2>7, <2>8, <2>9, <2>10 DEF IInv
<1>2. ASSUME NEW c \in Clients, Get(c) PROVE IInv'
  <2>1. TypeOK'
    BY <1>2 DEF Get, Goto, python, native, memory, device, TypeOK, Labels, Carrying
  <2>2. EachSlotOnce'
    <3>1. /\ Range(free_slots') = Range(free_slots) \ {Head(free_slots)}
          /\ IsInjective(free_slots')
          /\ Head(free_slots) \in Range(free_slots)
      BY <1>2, PopQueue DEF Get, TypeOK, EachSlotOnce
    <3>2. /\ Carriers' = Carriers \cup {c} /\ c \notin Carriers
          /\ slot'[c] = Head(free_slots)
          /\ \A d \in Carriers : slot'[d] = slot[d]
      BY <1>2 DEF Get, Goto, Carriers, Carrying, TypeOK
    <3>3. Carried' = Carried \cup {Head(free_slots)}
      BY <3>2 DEF Carried
    <3>4. \A d \in Carriers : slot[d] # Head(free_slots)
      BY <3>1 DEF EachSlotOnce, Carried
    <3> QED
      BY <3>1, <3>2, <3>3, <3>4 DEF EachSlotOnce
  <2>3. OwnershipAgrees'
    BY <1>2 DEF Get, Goto, python, native, memory, device, OwnershipAgrees, TypeOK, Labels, Holders, Holding, Carrying, EachSlotOnce, Carriers
  <2>4. BindingMutex'
    BY <1>2 DEF Get, Goto, python, native, memory, device, BindingMutex, TypeOK, Labels
  <2>5. ClosedIsEmpty'
    BY <1>2 DEF Get, Goto, python, native, memory, device, ClosedIsEmpty, TypeOK, OwnershipAgrees, Holders, Holding, Labels
  <2>6. EventsCover'
    BY <1>2 DEF Get, Goto, python, native, memory, device, EventsCover, TypeOK, Labels
  <2>7. StagingKept'
    BY <1>2 DEF Get, Goto, python, native, memory, device, StagingKept, TypeOK
  <2>8. OutputKept'
    BY <1>2 DEF Get, Goto, python, native, memory, device, OutputKept, TypeOK
  <2>9. AloneInIO'
    BY <1>2 DEF Get, Goto, python, native, memory, device, AloneInIO, TypeOK, Carrying, Labels
  <2>10. LeaseFilled'
    BY <1>2 DEF Get, Goto, python, native, memory, device, LeaseFilled, TypeOK, Carrying, Labels
  <2> QED
    BY <2>1, <2>2, <2>3, <2>4, <2>5, <2>6, <2>7, <2>8, <2>9, <2>10 DEF IInv
<1>3. ASSUME NEW c \in Clients, Enter(c) PROVE IInv'
  <2>1. TypeOK'
    <3>1. slot[c] \in Slots
      BY <1>3, Facts DEF Enter, Carrying
    <3>2. Append(free_slots, slot[c]) \in Seq(Slots)
      BY <3>1 DEF TypeOK
    <3>3. CASE closed
      BY <1>3, <3>2, <3>3 DEF Enter, Goto, python, native, memory, device, TypeOK, Labels, Carrying
    <3>4. CASE ~closed
      <4>1. /\ active_slots' \subseteq Slots
            /\ pc' = [pc EXCEPT ![c] = "lock"] /\ pc' \in [Clients -> Labels]
        <5>1. pc' = [pc EXCEPT ![c] = "lock"] /\ active_slots' = active_slots \cup {slot[c]}
          BY <1>3, <3>4 DEF Enter, Goto
        <5>2. active_slots \subseteq Slots /\ pc \in [Clients -> Labels]
          BY DEF TypeOK
        <5>3. "lock" \in Labels
          BY DEF Labels, Carrying
        <5> QED
          BY <3>1, <5>1, <5>2, <5>3
      <4>2. pc[c] = "enter" /\ UNCHANGED <<free_slots, slot>>
        BY <1>3, <3>4 DEF Enter
      <4>3. \A d \in Clients : pc'[d] \in Carrying <=> slot'[d] # NoSlot
        BY <4>1, <4>2 DEF TypeOK, Carrying
      <4>4. UNCHANGED <<free_slots, slot, closed, closing, native, memory, device>>
        BY <1>3, <3>4 DEF Enter
      <4> QED
        BY <4>1, <4>3, <4>4 DEF native, memory, device, TypeOK
    <3> QED
      BY <3>3, <3>4
  <2>2. EachSlotOnce'
    <3>1. CASE closed
      <4>1. slot[c] \in Slots /\ slot[c] \notin Range(free_slots)
        BY <1>3, Facts DEF Enter, Carrying
      <4>2. /\ Range(free_slots') = Range(free_slots) \cup {slot[c]}
            /\ IsInjective(free_slots')
        <5>1. free_slots' = Append(free_slots, slot[c])
          BY <1>3, <3>1 DEF Enter
        <5> QED
          BY <4>1, <5>1, PushQueue DEF TypeOK, EachSlotOnce
      <4>3. /\ Carriers' = Carriers \ {c} /\ c \in Carriers
            /\ \A d \in Carriers' : slot'[d] = slot[d]
        BY <1>3, <3>1 DEF Enter, Goto, Carriers, Carrying, TypeOK
      <4>4. Carried' = Carried \ {slot[c]}
        BY <4>3 DEF Carried, EachSlotOnce
      <4> QED
        BY <4>1, <4>2, <4>3, <4>4 DEF EachSlotOnce
    <3>2. CASE ~closed
      <4>1. Carriers' = Carriers /\ slot' = slot /\ free_slots' = free_slots
        BY <1>3, <3>2 DEF Enter, Goto, python, native, memory, device, Carriers, Carrying, TypeOK
      <4> QED
        BY <4>1 DEF EachSlotOnce, Carried
    <3> QED
      BY <3>1, <3>2
  <2>3. OwnershipAgrees'
    <3>1. Holders' = (IF closed THEN Holders ELSE Holders \cup {c})
          /\ \A d \in Holders' : slot'[d] = slot[d]
      BY <1>3 DEF Enter, Goto, Holders, Holding, TypeOK
    <3>2. active_slots' = {slot'[d] : d \in Holders'}
      BY <1>3, <3>1 DEF Enter, Goto, python, native, memory, device, OwnershipAgrees
    <3>3. slot_released' = slot_released /\ \A d \in Clients :
            /\ pc'[d] \in {"io", "leased"} <=> pc[d] \in {"io", "leased"}
            /\ pc[d] \in {"io", "leased"} => slot'[d] = slot[d]
      BY <1>3 DEF Enter, Goto, python, native, memory, device, TypeOK
    <3> QED
      BY <3>2, <3>3 DEF OwnershipAgrees
  <2>4. BindingMutex'
    BY <1>3 DEF Enter, Goto, python, native, memory, device, BindingMutex, TypeOK, Labels
  <2>5. ClosedIsEmpty'
    BY <1>3 DEF Enter, Goto, python, native, memory, device, ClosedIsEmpty, TypeOK, OwnershipAgrees, Holders, Holding, Labels
  <2>6. EventsCover'
    BY <1>3 DEF Enter, Goto, python, native, memory, device, EventsCover, TypeOK, Labels
  <2>7. StagingKept'
    BY <1>3 DEF Enter, Goto, python, native, memory, device, StagingKept, TypeOK
  <2>8. OutputKept'
    BY <1>3 DEF Enter, Goto, python, native, memory, device, OutputKept, TypeOK
  <2>9. AloneInIO'
    BY <1>3 DEF Enter, Goto, python, native, memory, device, AloneInIO, TypeOK, Carrying, Labels
  <2>10. LeaseFilled'
    BY <1>3 DEF Enter, Goto, python, native, memory, device, LeaseFilled, TypeOK, Carrying, Labels
  <2> QED
    BY <2>1, <2>2, <2>3, <2>4, <2>5, <2>6, <2>7, <2>8, <2>9, <2>10 DEF IInv
<1>4. ASSUME NEW c \in Clients, Abort(c) PROVE IInv'
  <2>1. TypeOK'
    BY <1>4 DEF Abort, Goto, python, native, memory, device, TypeOK, Labels, Carrying
  <2>2. EachSlotOnce'
    BY <1>4 DEF Abort, Goto, python, native, memory, device, EachSlotOnce, TypeOK, Labels, Carriers, Carried, Carrying
  <2>3. OwnershipAgrees'
    <3>1. Holders' = Holders \ {c} /\ slot' = slot /\ c \in Holders
      BY <1>4 DEF Abort, Goto, Holders, Holding, TypeOK
    <3>2. \A d \in Holders : slot[d] = slot[c] => d = c
      BY <3>1, Facts DEF Holders, Holding, Carrying
    <3>3. active_slots' = {slot'[d] : d \in Holders'}
      BY <1>4, <3>1, <3>2 DEF Abort, OwnershipAgrees
    <3>4. slot_released' = slot_released /\ \A d \in Clients :
            pc'[d] \in {"io", "leased"} <=> pc[d] \in {"io", "leased"}
      BY <1>4 DEF Abort, Goto, python, native, memory, device, TypeOK
    <3> QED
      BY <3>1, <3>3, <3>4 DEF OwnershipAgrees
  <2>4. BindingMutex'
    BY <1>4 DEF Abort, Goto, python, native, memory, device, BindingMutex, TypeOK, Labels
  <2>5. ClosedIsEmpty'
    BY <1>4 DEF Abort, Goto, python, native, memory, device, ClosedIsEmpty, TypeOK, OwnershipAgrees, Holders, Holding, Labels
  <2>6. EventsCover'
    BY <1>4 DEF Abort, Goto, python, native, memory, device, EventsCover, TypeOK, Labels
  <2>7. StagingKept'
    BY <1>4 DEF Abort, Goto, python, native, memory, device, StagingKept, TypeOK
  <2>8. OutputKept'
    BY <1>4 DEF Abort, Goto, python, native, memory, device, OutputKept, TypeOK
  <2>9. AloneInIO'
    BY <1>4 DEF Abort, Goto, python, native, memory, device, AloneInIO, TypeOK, Carrying, Labels
  <2>10. LeaseFilled'
    BY <1>4 DEF Abort, Goto, python, native, memory, device, LeaseFilled, TypeOK, Carrying, Labels
  <2> QED
    BY <2>1, <2>2, <2>3, <2>4, <2>5, <2>6, <2>7, <2>8, <2>9, <2>10 DEF IInv
<1>5. ASSUME NEW c \in Clients, Release(c) PROVE IInv'
  <2>1. TypeOK'
    BY <1>5 DEF Release, Goto, python, native, memory, device, TypeOK, Labels, Carrying
  <2>2. EachSlotOnce'
    BY <1>5 DEF Release, Goto, python, native, memory, device, EachSlotOnce, TypeOK, Labels, Carriers, Carried, Carrying
  <2>3. OwnershipAgrees'
    BY <1>5 DEF Release, Goto, python, native, memory, device, OwnershipAgrees, TypeOK, Labels, Holders, Holding, Carrying, EachSlotOnce, Carriers
  <2>4. BindingMutex'
    BY <1>5 DEF Release, Goto, python, native, memory, device, BindingMutex, TypeOK, Labels
  <2>5. ClosedIsEmpty'
    BY <1>5 DEF Release, Goto, python, native, memory, device, ClosedIsEmpty, TypeOK, OwnershipAgrees, Holders, Holding, Labels
  <2>6. EventsCover'
    BY <1>5 DEF Release, Goto, python, native, memory, device, EventsCover, TypeOK, Labels
  <2>7. StagingKept'
    BY <1>5 DEF Release, Goto, python, native, memory, device, StagingKept, TypeOK
  <2>8. OutputKept'
    BY <1>5 DEF Release, Goto, python, native, memory, device, OutputKept, TypeOK
  <2>9. AloneInIO'
    BY <1>5 DEF Release, Goto, python, native, memory, device, AloneInIO, TypeOK, Carrying, Labels
  <2>10. LeaseFilled'
    BY <1>5 DEF Release, Goto, python, native, memory, device, LeaseFilled, TypeOK, Carrying, Labels
  <2> QED
    BY <2>1, <2>2, <2>3, <2>4, <2>5, <2>6, <2>7, <2>8, <2>9, <2>10 DEF IInv
<1>6. ASSUME NEW c \in Clients, Put(c) PROVE IInv'
  <2>1. TypeOK'
    BY <1>6 DEF Put, Goto, python, native, memory, device, TypeOK, Labels, Carrying
  <2>2. EachSlotOnce'
    <3> QED
      <4>1. slot[c] \in Slots /\ slot[c] \notin Range(free_slots)
        BY <1>6, Facts DEF Put, Carrying
      <4>2. /\ Range(free_slots') = Range(free_slots) \cup {slot[c]}
            /\ IsInjective(free_slots')
        <5>1. free_slots' = Append(free_slots, slot[c])
          BY <1>6 DEF Put
        <5> QED
          BY <4>1, <5>1, PushQueue DEF TypeOK, EachSlotOnce
      <4>3. /\ Carriers' = Carriers \ {c} /\ c \in Carriers
            /\ \A d \in Carriers' : slot'[d] = slot[d]
        BY <1>6 DEF Put, Goto, Carriers, Carrying, TypeOK
      <4>4. Carried' = Carried \ {slot[c]}
        BY <4>3 DEF Carried, EachSlotOnce
      <4> QED
        BY <4>1, <4>2, <4>3, <4>4 DEF EachSlotOnce
  <2>3. OwnershipAgrees'
    <3>1. Holders' = Holders /\ \A d \in Holders : slot'[d] = slot[d]
      BY <1>6 DEF Put, Goto, Holders, Holding, TypeOK
    <3>2. active_slots' = {slot'[d] : d \in Holders'}
      BY <1>6, <3>1 DEF Put, Goto, python, native, memory, device, OwnershipAgrees
    <3>3. slot_released' = slot_released /\ \A d \in Clients :
            /\ pc'[d] \in {"io", "leased"} <=> pc[d] \in {"io", "leased"}
            /\ pc[d] \in {"io", "leased"} => slot'[d] = slot[d]
      BY <1>6 DEF Put, Goto, python, native, memory, device, TypeOK
    <3> QED
      BY <3>2, <3>3 DEF OwnershipAgrees
  <2>4. BindingMutex'
    BY <1>6 DEF Put, Goto, python, native, memory, device, BindingMutex, TypeOK, Labels
  <2>5. ClosedIsEmpty'
    BY <1>6 DEF Put, Goto, python, native, memory, device, ClosedIsEmpty, TypeOK, OwnershipAgrees, Holders, Holding, Labels
  <2>6. EventsCover'
    BY <1>6 DEF Put, Goto, python, native, memory, device, EventsCover, TypeOK, Labels
  <2>7. StagingKept'
    BY <1>6 DEF Put, Goto, python, native, memory, device, StagingKept, TypeOK
  <2>8. OutputKept'
    BY <1>6 DEF Put, Goto, python, native, memory, device, OutputKept, TypeOK
  <2>9. AloneInIO'
    BY <1>6 DEF Put, Goto, python, native, memory, device, AloneInIO, TypeOK, Carrying, Labels
  <2>10. LeaseFilled'
    BY <1>6 DEF Put, Goto, python, native, memory, device, LeaseFilled, TypeOK, Carrying, Labels
  <2> QED
    BY <2>1, <2>2, <2>3, <2>4, <2>5, <2>6, <2>7, <2>8, <2>9, <2>10 DEF IInv
<1>7. ASSUME NEW c \in Clients, Lock(c) PROVE IInv'
  <2>1. TypeOK'
    BY <1>7 DEF Lock, Goto, python, native, memory, device, TypeOK, Labels, Carrying
  <2>2. EachSlotOnce'
    <3>1. Carriers' = Carriers /\ slot' = slot /\ free_slots' = free_slots
      BY <1>7 DEF Lock, Goto, python, native, memory, device, Carriers, Carrying, TypeOK
    <3> QED
      BY <3>1 DEF EachSlotOnce, Carried
  <2>3. OwnershipAgrees'
    <3>1. /\ Holders' = Holders /\ slot' = slot /\ active_slots' = active_slots
          /\ slot_released' = slot_released
          /\ \A d \in Clients : pc'[d] \in {"io", "leased"} <=> pc[d] \in {"io", "leased"}
      BY <1>7 DEF Lock, Goto, python, native, memory, device, Holders, Holding, TypeOK
    <3> QED
      BY <3>1 DEF OwnershipAgrees
  <2>4. BindingMutex'
    BY <1>7 DEF Lock, Goto, python, native, memory, device, BindingMutex, TypeOK, Labels
  <2>5. ClosedIsEmpty'
    BY <1>7 DEF Lock, Goto, python, native, memory, device, ClosedIsEmpty, TypeOK, OwnershipAgrees, Holders, Holding, Labels
  <2>6. EventsCover'
    BY <1>7 DEF Lock, Goto, python, native, memory, device, EventsCover, TypeOK, Labels
  <2>7. StagingKept'
    BY <1>7 DEF Lock, Goto, python, native, memory, device, StagingKept, TypeOK
  <2>8. OutputKept'
    BY <1>7 DEF Lock, Goto, python, native, memory, device, OutputKept, TypeOK
  <2>9. AloneInIO'
    BY <1>7 DEF Lock, Goto, python, native, memory, device, AloneInIO, TypeOK, Carrying, Labels
  <2>10. LeaseFilled'
    BY <1>7 DEF Lock, Goto, python, native, memory, device, LeaseFilled, TypeOK, Carrying, Labels
  <2> QED
    BY <2>1, <2>2, <2>3, <2>4, <2>5, <2>6, <2>7, <2>8, <2>9, <2>10 DEF IInv
<1>8. ASSUME NEW c \in Clients, Wait(c) PROVE IInv'
  <2>1. TypeOK'
    BY <1>8 DEF Wait, Goto, python, native, memory, device, TypeOK, Labels, Carrying
  <2>2. EachSlotOnce'
    <3>1. Carriers' = Carriers /\ slot' = slot /\ free_slots' = free_slots
      BY <1>8 DEF Wait, Goto, python, native, memory, device, Carriers, Carrying, TypeOK
    <3> QED
      BY <3>1 DEF EachSlotOnce, Carried
  <2>3. OwnershipAgrees'
    BY <1>8 DEF Wait, Goto, python, native, memory, device, OwnershipAgrees, TypeOK, Labels, Holders, Holding, Carrying, EachSlotOnce, Carriers
  <2>4. BindingMutex'
    BY <1>8 DEF Wait, Goto, python, native, memory, device, BindingMutex, TypeOK, Labels
  <2>5. ClosedIsEmpty'
    BY <1>8 DEF Wait, Goto, python, native, memory, device, ClosedIsEmpty, TypeOK, OwnershipAgrees, Holders, Holding, Labels
  <2>6. EventsCover'
    <3>1. slot[c] \in Slots /\ gathers[slot[c]] = {} /\ consumers[slot[c]] = {}
      BY <1>8, WaitIsQuiet DEF Wait
    <3> QED
      BY <1>8, <3>1 DEF Wait, Goto, python, native, memory, device, EventsCover, TypeOK, Labels
  <2>7. StagingKept'
    <3>1. slot[c] \in Slots /\ gathers[slot[c]] = {} /\ consumers[slot[c]] = {}
      BY <1>8, WaitIsQuiet DEF Wait
    <3> QED
      BY <1>8, <3>1 DEF Wait, Goto, python, native, memory, device, StagingKept, TypeOK
  <2>8. OutputKept'
    <3>1. slot[c] \in Slots /\ gathers[slot[c]] = {} /\ consumers[slot[c]] = {}
      BY <1>8, WaitIsQuiet DEF Wait
    <3> QED
      BY <1>8, <3>1 DEF Wait, Goto, python, native, memory, device, OutputKept, TypeOK
  <2>9. AloneInIO'
    <3>1. slot[c] \in Slots /\ gathers[slot[c]] = {} /\ consumers[slot[c]] = {}
      BY <1>8, WaitIsQuiet DEF Wait
    <3>2. \A d \in Clients : d # c /\ pc[d] \in Carrying => slot[d] # slot[c]
      BY <1>8, Facts DEF Wait, Carrying
    <3> QED
      BY <1>8, <3>1, <3>2 DEF Wait, Goto, python, native, memory, device, AloneInIO, TypeOK, Carrying, Labels
  <2>10. LeaseFilled'
    <3>1. slot[c] \in Slots /\ gathers[slot[c]] = {} /\ consumers[slot[c]] = {}
      BY <1>8, WaitIsQuiet DEF Wait
    <3>2. \A d \in Clients : d # c /\ pc[d] \in Carrying => slot[d] # slot[c]
      BY <1>8, Facts DEF Wait, Carrying
    <3> QED
      BY <1>8, <3>1, <3>2 DEF Wait, Goto, python, native, memory, device, LeaseFilled, TypeOK, Carrying, Labels
  <2> QED
    BY <2>1, <2>2, <2>3, <2>4, <2>5, <2>6, <2>7, <2>8, <2>9, <2>10 DEF IInv
<1>9. ASSUME NEW c \in Clients, Launch(c) PROVE IInv'
  <2>1. TypeOK'
    BY <1>9 DEF Launch, Goto, python, native, memory, device, TypeOK, Labels, Carrying
  <2>2. EachSlotOnce'
    BY <1>9 DEF Launch, Goto, python, native, memory, device, EachSlotOnce, TypeOK, Labels, Carriers, Carried, Carrying
  <2>3. OwnershipAgrees'
    BY <1>9 DEF Launch, Goto, python, native, memory, device, OwnershipAgrees, TypeOK, Labels, Holders, Holding, Carrying, EachSlotOnce, Carriers
  <2>4. BindingMutex'
    BY <1>9 DEF Launch, Goto, python, native, memory, device, BindingMutex, TypeOK, Labels
  <2>5. ClosedIsEmpty'
    <3>1. ~closed
      BY <1>9, Facts DEF Launch, Holding
    <3> QED
      BY <1>9, <3>1 DEF Launch, Goto, python, native, memory, device, ClosedIsEmpty
  <2>6. EventsCover'
    BY <1>9 DEF Launch, Goto, python, native, memory, device, EventsCover, TypeOK, Labels
  <2>7. StagingKept'
    BY <1>9 DEF Launch, Goto, python, native, memory, device, StagingKept, TypeOK
  <2>8. OutputKept'
    BY <1>9 DEF Launch, Goto, python, native, memory, device, OutputKept, TypeOK
  <2>9. AloneInIO'
    <3>1. slot[c] \in Slots /\ \A d \in Clients :
            d # c /\ pc[d] \in Carrying => slot[d] \in Slots /\ slot[d] # slot[c]
      BY <1>9, Facts DEF Launch, Carrying
    <3>2. \A d \in Clients : pc'[d] = "io" =>
            /\ d # c /\ pc[d] = "io" /\ slot'[d] = slot[d] /\ slot[d] # slot[c]
            /\ gathers'[slot[d]] = gathers[slot[d]]
            /\ consumers'[slot[d]] = consumers[slot[d]]
      BY <1>9, <3>1 DEF Launch, Goto, python, native, memory, device, TypeOK, Carrying
    <3> QED
      BY <3>2 DEF AloneInIO
  <2>10. LeaseFilled'
    BY <1>9 DEF Launch, Goto, python, native, memory, device, LeaseFilled, TypeOK, Carrying, Labels
  <2> QED
    BY <2>1, <2>2, <2>3, <2>4, <2>5, <2>6, <2>7, <2>8, <2>9, <2>10 DEF IInv
<1>10. ASSUME NEW c \in Clients, ReadFails(c) PROVE IInv'
  <2>1. TypeOK'
    BY <1>10 DEF ReadFails, Goto, python, native, memory, device, TypeOK, Labels, Carrying
  <2>2. EachSlotOnce'
    BY <1>10 DEF ReadFails, Goto, python, native, memory, device, EachSlotOnce, TypeOK, Labels, Carriers, Carried, Carrying
  <2>3. OwnershipAgrees'
    BY <1>10 DEF ReadFails, Goto, python, native, memory, device, OwnershipAgrees, TypeOK, Labels, Holders, Holding, Carrying, EachSlotOnce, Carriers
  <2>4. BindingMutex'
    BY <1>10 DEF ReadFails, Goto, python, native, memory, device, BindingMutex, TypeOK, Labels
  <2>5. ClosedIsEmpty'
    <3>1. ~closed
      BY <1>10, Facts DEF ReadFails, Holding
    <3> QED
      BY <1>10, <3>1 DEF ReadFails, Goto, python, native, memory, device, ClosedIsEmpty
  <2>6. EventsCover'
    <3>1. slot[c] \in Slots /\ gathers[slot[c]] = {} /\ consumers[slot[c]] = {}
      BY <1>10, Facts DEF ReadFails, AloneInIO, Carrying
    <3> QED
      BY <1>10, <3>1 DEF ReadFails, Goto, python, native, memory, device, EventsCover, TypeOK, Labels
  <2>7. StagingKept'
    BY <1>10 DEF ReadFails, Goto, python, native, memory, device, StagingKept, TypeOK
  <2>8. OutputKept'
    <3>1. slot[c] \in Slots /\ gathers[slot[c]] = {} /\ consumers[slot[c]] = {}
      BY <1>10, Facts DEF ReadFails, AloneInIO, Carrying
    <3> QED
      BY <1>10, <3>1 DEF ReadFails, Goto, python, native, memory, device, OutputKept, TypeOK
  <2>9. AloneInIO'
    <3>1. slot[c] \in Slots /\ \A d \in Clients :
            d # c /\ pc[d] \in Carrying => slot[d] \in Slots /\ slot[d] # slot[c]
      BY <1>10, Facts DEF ReadFails, Carrying
    <3>2. \A d \in Clients : pc'[d] = "io" =>
            /\ d # c /\ pc[d] = "io" /\ slot'[d] = slot[d] /\ slot[d] # slot[c]
            /\ gathers'[slot[d]] = gathers[slot[d]]
            /\ consumers'[slot[d]] = consumers[slot[d]]
      BY <1>10, <3>1 DEF ReadFails, Goto, python, native, memory, device, TypeOK, Carrying
    <3> QED
      BY <3>2 DEF AloneInIO
  <2>10. LeaseFilled'
    BY <1>10 DEF ReadFails, Goto, python, native, memory, device, LeaseFilled, TypeOK, Carrying, Labels
  <2> QED
    BY <2>1, <2>2, <2>3, <2>4, <2>5, <2>6, <2>7, <2>8, <2>9, <2>10 DEF IInv
<1>11. ASSUME NEW c \in Clients, Consume(c) PROVE IInv'
  <2>1. TypeOK'
    BY <1>11 DEF Consume, Goto, python, native, memory, device, TypeOK, Labels, Carrying
  <2>2. EachSlotOnce'
    BY <1>11 DEF Consume, Goto, python, native, memory, device, EachSlotOnce, TypeOK, Labels, Carriers, Carried, Carrying
  <2>3. OwnershipAgrees'
    BY <1>11 DEF Consume, Goto, python, native, memory, device, OwnershipAgrees, TypeOK, Labels, Holders, Holding, Carrying, EachSlotOnce, Carriers
  <2>4. BindingMutex'
    BY <1>11 DEF Consume, Goto, python, native, memory, device, BindingMutex, TypeOK, Labels
  <2>5. ClosedIsEmpty'
    <3>1. ~closed
      BY <1>11, Facts DEF Consume, Holding
    <3> QED
      BY <1>11, <3>1 DEF Consume, Goto, python, native, memory, device, ClosedIsEmpty
  <2>6. EventsCover'
    <3>1. slot[c] \in Slots /\ ~slot_released[slot[c]]
      BY <1>11, Facts DEF Consume, Carrying
    <3> QED
      BY <1>11, <3>1 DEF Consume, Goto, python, native, memory, device, EventsCover, TypeOK, Labels
  <2>7. StagingKept'
    BY <1>11 DEF Consume, Goto, python, native, memory, device, StagingKept, TypeOK
  <2>8. OutputKept'
    <3>1. slot[c] \in Slots /\ (gathers[slot[c]] = {} => output[slot[c]] = staging[slot[c]])
      BY <1>11, Facts DEF Consume, Carrying, LeaseFilled
    <3> QED
      BY <1>11, <3>1 DEF Consume, Goto, python, native, memory, device, OutputKept, TypeOK
  <2>9. AloneInIO'
    <3>1. slot[c] \in Slots /\ \A d \in Clients :
            d # c /\ pc[d] \in Carrying => slot[d] \in Slots /\ slot[d] # slot[c]
      BY <1>11, Facts DEF Consume, Carrying
    <3>2. \A d \in Clients : pc'[d] = "io" =>
            /\ d # c /\ pc[d] = "io" /\ slot'[d] = slot[d] /\ slot[d] # slot[c]
            /\ gathers'[slot[d]] = gathers[slot[d]]
            /\ consumers'[slot[d]] = consumers[slot[d]]
      BY <1>11, <3>1 DEF Consume, Goto, python, native, memory, device, TypeOK, Carrying
    <3> QED
      BY <3>2 DEF AloneInIO
  <2>10. LeaseFilled'
    BY <1>11 DEF Consume, Goto, python, native, memory, device, LeaseFilled, TypeOK, Carrying, Labels
  <2> QED
    BY <2>1, <2>2, <2>3, <2>4, <2>5, <2>6, <2>7, <2>8, <2>9, <2>10 DEF IInv
<1>12. ASSUME Rebind PROVE IInv'
  <2>1. TypeOK'
    BY <1>12 DEF Rebind, Goto, python, native, memory, device, TypeOK, Labels, Carrying
  <2>2. EachSlotOnce'
    BY <1>12 DEF Rebind, Goto, python, native, memory, device, EachSlotOnce, TypeOK, Labels, Carriers, Carried, Carrying
  <2>3. OwnershipAgrees'
    <3>1. /\ Holders' = Holders /\ slot' = slot /\ active_slots' = active_slots
          /\ slot_released' = slot_released
          /\ \A d \in Clients : pc'[d] \in {"io", "leased"} <=> pc[d] \in {"io", "leased"}
      BY <1>12 DEF Rebind, Goto, python, native, memory, device, Holders, Holding, TypeOK
    <3> QED
      BY <3>1 DEF OwnershipAgrees
  <2>4. BindingMutex'
    BY <1>12 DEF Rebind, Goto, python, native, memory, device, BindingMutex, TypeOK, Labels
  <2>5. ClosedIsEmpty'
    BY <1>12 DEF Rebind, Goto, python, native, memory, device, ClosedIsEmpty, TypeOK, OwnershipAgrees, Holders, Holding, Labels
  <2>6. EventsCover'
    <3>1. \A s \in Slots : gathers[s] = {} /\ consumers[s] = {}
      BY <1>12, Facts DEF Rebind
    <3> QED
      BY <1>12, <3>1 DEF Rebind, Goto, python, native, memory, device, EventsCover
  <2>7. StagingKept'
    BY <1>12 DEF Rebind, Goto, python, native, memory, device, StagingKept, TypeOK
  <2>8. OutputKept'
    <3>1. \A s \in Slots : gathers[s] = {} /\ consumers[s] = {}
      BY <1>12, Facts DEF Rebind
    <3> QED
      BY <1>12, <3>1 DEF Rebind, Goto, python, native, memory, device, OutputKept
  <2>9. AloneInIO'
    BY <1>12 DEF Rebind, Goto, python, native, memory, device, AloneInIO, TypeOK, Carrying, Labels
  <2>10. LeaseFilled'
    <3>1. \A d \in Clients : pc[d] # "leased"
      BY <1>12, Facts DEF Rebind, Carrying
    <3> QED
      BY <1>12, <3>1 DEF Rebind, Goto, python, native, memory, device, LeaseFilled
  <2> QED
    BY <2>1, <2>2, <2>3, <2>4, <2>5, <2>6, <2>7, <2>8, <2>9, <2>10 DEF IInv
<1>13. ASSUME Close PROVE IInv'
  <2>1. TypeOK'
    BY <1>13 DEF Close, Goto, python, native, memory, device, TypeOK, Labels, Carrying
  <2>2. EachSlotOnce'
    BY <1>13 DEF Close, Goto, python, native, memory, device, EachSlotOnce, TypeOK, Labels, Carriers, Carried, Carrying
  <2>3. OwnershipAgrees'
    <3>1. /\ Holders' = Holders /\ slot' = slot /\ active_slots' = active_slots
          /\ slot_released' = slot_released
          /\ \A d \in Clients : pc'[d] \in {"io", "leased"} <=> pc[d] \in {"io", "leased"}
      BY <1>13 DEF Close, Goto, python, native, memory, device, Holders, Holding, TypeOK
    <3> QED
      BY <3>1 DEF OwnershipAgrees
  <2>4. BindingMutex'
    BY <1>13 DEF Close, Goto, python, native, memory, device, BindingMutex, TypeOK, Labels
  <2>5. ClosedIsEmpty'
    BY <1>13 DEF Close, Goto, python, native, memory, device, ClosedIsEmpty, TypeOK, OwnershipAgrees, Holders, Holding, Labels
  <2>6. EventsCover'
    BY <1>13 DEF Close, Goto, python, native, memory, device, EventsCover, TypeOK, Labels
  <2>7. StagingKept'
    BY <1>13 DEF Close, Goto, python, native, memory, device, StagingKept, TypeOK
  <2>8. OutputKept'
    BY <1>13 DEF Close, Goto, python, native, memory, device, OutputKept, TypeOK
  <2>9. AloneInIO'
    BY <1>13 DEF Close, Goto, python, native, memory, device, AloneInIO, TypeOK, Carrying, Labels
  <2>10. LeaseFilled'
    BY <1>13 DEF Close, Goto, python, native, memory, device, LeaseFilled, TypeOK, Carrying, Labels
  <2> QED
    BY <2>1, <2>2, <2>3, <2>4, <2>5, <2>6, <2>7, <2>8, <2>9, <2>10 DEF IInv
<1>14. ASSUME NativeClose PROVE IInv'
  <2>1. TypeOK'
    BY <1>14 DEF NativeClose, Goto, python, native, memory, device, TypeOK, Labels, Carrying
  <2>2. EachSlotOnce'
    BY <1>14 DEF NativeClose, Goto, python, native, memory, device, EachSlotOnce, TypeOK, Labels, Carriers, Carried, Carrying
  <2>3. OwnershipAgrees'
    BY <1>14 DEF NativeClose, Goto, python, native, memory, device, OwnershipAgrees, TypeOK, Labels, Holders, Holding, Carrying, EachSlotOnce, Carriers
  <2>4. BindingMutex'
    BY <1>14 DEF NativeClose, Goto, python, native, memory, device, BindingMutex, TypeOK, Labels
  <2>5. ClosedIsEmpty'
    <3>1. closed /\ \A s \in Slots : slot_released[s]
      BY <1>14, Facts DEF NativeClose, ClosedIsEmpty, Holding, OwnershipAgrees
    <3>2. \A s \in Slots : gathers[s] = {} /\ consumers[s] = {}
      BY <1>14, <3>1 DEF NativeClose, EventsCover, GatherDone, ConsumerDone
    <3> QED
      BY <1>14, <3>1, <3>2 DEF NativeClose, Goto, python, native, memory, device, ClosedIsEmpty
  <2>6. EventsCover'
    BY <1>14 DEF NativeClose, Goto, python, native, memory, device, EventsCover, TypeOK, Labels
  <2>7. StagingKept'
    BY <1>14 DEF NativeClose, Goto, python, native, memory, device, StagingKept, TypeOK
  <2>8. OutputKept'
    BY <1>14 DEF NativeClose, Goto, python, native, memory, device, OutputKept, TypeOK
  <2>9. AloneInIO'
    BY <1>14 DEF NativeClose, Goto, python, native, memory, device, AloneInIO, TypeOK, Carrying, Labels
  <2>10. LeaseFilled'
    BY <1>14 DEF NativeClose, Goto, python, native, memory, device, LeaseFilled, TypeOK, Carrying, Labels
  <2> QED
    BY <2>1, <2>2, <2>3, <2>4, <2>5, <2>6, <2>7, <2>8, <2>9, <2>10 DEF IInv
<1>15. ASSUME NEW s \in Slots, Gather(s) PROVE IInv'
  <2>1. TypeOK'
    BY <1>15 DEF Gather, Goto, python, native, memory, device, TypeOK, Labels, Carrying
  <2>2. EachSlotOnce'
    BY <1>15 DEF Gather, Goto, python, native, memory, device, EachSlotOnce, TypeOK, Labels, Carriers, Carried, Carrying
  <2>3. OwnershipAgrees'
    BY <1>15 DEF Gather, Goto, python, native, memory, device, OwnershipAgrees, TypeOK, Labels, Holders, Holding, Carrying, EachSlotOnce, Carriers
  <2>4. BindingMutex'
    BY <1>15 DEF Gather, Goto, python, native, memory, device, BindingMutex, TypeOK, Labels
  <2>5. ClosedIsEmpty'
    BY <1>15 DEF Gather, Goto, python, native, memory, device, ClosedIsEmpty, TypeOK, OwnershipAgrees, Holders, Holding, Labels
  <2>6. EventsCover'
    BY <1>15 DEF Gather, Goto, python, native, memory, device, EventsCover, TypeOK, Labels
  <2>7. StagingKept'
    BY <1>15 DEF Gather, Goto, python, native, memory, device, StagingKept, TypeOK
  <2>8. OutputKept'
    BY <1>15 DEF Gather, Goto, python, native, memory, device, OutputKept, TypeOK
  <2>9. AloneInIO'
    BY <1>15 DEF Gather, Goto, python, native, memory, device, AloneInIO, TypeOK, Carrying, Labels
  <2>10. LeaseFilled'
    BY <1>15 DEF Gather, Goto, python, native, memory, device, LeaseFilled, TypeOK, Carrying, Labels
  <2> QED
    BY <2>1, <2>2, <2>3, <2>4, <2>5, <2>6, <2>7, <2>8, <2>9, <2>10 DEF IInv
<1>16. ASSUME NEW s \in Slots, Consumed(s) PROVE IInv'
  <2>1. TypeOK'
    BY <1>16 DEF Consumed, Goto, python, native, memory, device, TypeOK, Labels, Carrying
  <2>2. EachSlotOnce'
    BY <1>16 DEF Consumed, Goto, python, native, memory, device, EachSlotOnce, TypeOK, Labels, Carriers, Carried, Carrying
  <2>3. OwnershipAgrees'
    BY <1>16 DEF Consumed, Goto, python, native, memory, device, OwnershipAgrees, TypeOK, Labels, Holders, Holding, Carrying, EachSlotOnce, Carriers
  <2>4. BindingMutex'
    BY <1>16 DEF Consumed, Goto, python, native, memory, device, BindingMutex, TypeOK, Labels
  <2>5. ClosedIsEmpty'
    BY <1>16 DEF Consumed, Goto, python, native, memory, device, ClosedIsEmpty, TypeOK, OwnershipAgrees, Holders, Holding, Labels
  <2>6. EventsCover'
    BY <1>16 DEF Consumed, Goto, python, native, memory, device, EventsCover, TypeOK, Labels
  <2>7. StagingKept'
    BY <1>16 DEF Consumed, Goto, python, native, memory, device, StagingKept, TypeOK
  <2>8. OutputKept'
    BY <1>16 DEF Consumed, Goto, python, native, memory, device, OutputKept, TypeOK
  <2>9. AloneInIO'
    BY <1>16 DEF Consumed, Goto, python, native, memory, device, AloneInIO, TypeOK, Carrying, Labels
  <2>10. LeaseFilled'
    BY <1>16 DEF Consumed, Goto, python, native, memory, device, LeaseFilled, TypeOK, Carrying, Labels
  <2> QED
    BY <2>1, <2>2, <2>3, <2>4, <2>5, <2>6, <2>7, <2>8, <2>9, <2>10 DEF IInv
<1>17. ASSUME UNCHANGED vars PROVE IInv'
  <2>1. TypeOK' /\ EachSlotOnce' /\ OwnershipAgrees' /\ BindingMutex'
    BY <1>17 DEF vars, python, native, memory, device, TypeOK, EachSlotOnce, Carriers,
       Carried, OwnershipAgrees, Holders, BindingMutex
  <2>2. ClosedIsEmpty' /\ EventsCover' /\ StagingKept' /\ OutputKept'
    BY <1>17 DEF vars, python, native, memory, device, ClosedIsEmpty, EventsCover,
       StagingKept, OutputKept
  <2>3. AloneInIO' /\ LeaseFilled'
    BY <1>17 DEF vars, python, native, memory, device, AloneInIO, LeaseFilled
  <2> QED
    BY <2>1, <2>2, <2>3 DEF IInv
<1> QED
  BY <1>1, <1>2, <1>3, <1>4, <1>5, <1>6, <1>7, <1>8, <1>9, <1>10, <1>11, <1>12, <1>13,
     <1>14, <1>15, <1>16, <1>17 DEF Next, Client, Finished

\* The reader starts, after its constructor, in the invariant.
LEMMA Initially == Init => IInv
<1> SUFFICES ASSUME Init PROVE IInv
  OBVIOUS
<1> USE SlotAssumption, ClientAssumption
<1>1. Cardinality(Slots) \in Nat /\ IsFiniteSet(Slots)
  BY FS_CardinalityType
<1> DEFINE n == Cardinality(Slots)
<1>2. free_slots \in [1..n -> Slots] /\ IsInjective(free_slots)
  BY DEF Init
<1> HIDE DEF n
<1>3. free_slots \in Seq(Slots)
  BY <1>1, <1>2 DEF n
<1>4. Range(free_slots) = Slots
  <2>1. Cardinality(1..n) = n
    BY <1>1, FS_Interval DEF n
  <2>2. free_slots \in Injection(1..n, Slots)
    BY <1>2 DEF Injection
  <2>3. free_slots \in Surjection(1..n, Slots)
    BY <1>1, <2>1, <2>2, FS_Injection DEF n
  <2> QED
    BY <1>2, <2>3 DEF Surjection, Range
<1>5. Carriers = {} /\ Holders = {}
  BY DEF Init, Carriers, Carrying, Holders, Holding
<1>6. TypeOK
  <2>1. free_slots \in Seq(Slots) /\ active_slots \subseteq Slots
    BY <1>3 DEF Init
  <2>2. closed \in BOOLEAN /\ closing \in BOOLEAN /\ native_closed \in BOOLEAN
    BY DEF Init
  <2>3. /\ pc \in [Clients -> Labels]
        /\ slot \in [Clients -> Slots \cup {NoSlot}]
        /\ binding \in Clients \cup {Nobody}
    BY DEF Init, Labels
  <2>4. \A c \in Clients : pc[c] \in Carrying <=> slot[c] # NoSlot
    BY DEF Init, Carrying
  <2>5. /\ slot_released \in [Slots -> BOOLEAN]
        /\ consumer_event_recorded \in [Slots -> BOOLEAN]
        /\ gather_event_recorded \in [Slots -> BOOLEAN]
    BY Zenon DEF Init
  <2>6. reads \in Nat /\ staging \in [Slots -> Nat] /\ output \in [Slots -> Nat]
    BY DEF Init
  <2>7. gathers \in [Slots -> SUBSET Nat]
    BY DEF Init
  <2>8. consumers \in [Slots -> SUBSET Nat]
    BY DEF Init
  <2> QED
    BY <2>1, <2>2, <2>3, <2>4, <2>5, <2>6, <2>7, <2>8 DEF TypeOK
<1>7. EachSlotOnce
  BY <1>2, <1>4, <1>5 DEF EachSlotOnce, Carried
<1>8. OwnershipAgrees
  BY <1>5 DEF Init, OwnershipAgrees
<1>9. BindingMutex /\ ClosedIsEmpty /\ AloneInIO /\ LeaseFilled
  BY DEF Init, BindingMutex, ClosedIsEmpty, AloneInIO, LeaseFilled
<1>10. EventsCover /\ StagingKept /\ OutputKept
  BY DEF Init, EventsCover, StagingKept, OutputKept
<1> QED
  BY <1>6, <1>7, <1>8, <1>9, <1>10 DEF IInv

\* The strengthened invariant holds of every reachable state.
LEMMA Invariance == Spec => []IInv
  BY Initially, Step, PTL DEF Spec

-----------------------------------------------------------------------------
(* The properties of PersistentReader, for every value of its constants.   *)

\* The variables keep their types.
THEOREM TypeCorrect == Spec => []TypeOK
  BY Invariance, PTL DEF IInv

\* Both of the following.
THEOREM SlotsAccounted == Spec => []SlotAccounting
<1>1. IInv => SlotAccounting
  BY DEF IInv, SlotAccounting
<1> QED
  BY <1>1, Invariance, PTL

\* No interleaving of reads, failures, releases and close loses a slot, lends it
\* twice or puts it back twice, however many clients and slots there are.
THEOREM SlotsConserved == Spec => []EachSlotOnce
  BY Invariance, PTL DEF IInv

\* Wrapper and native state never disagree on who owns a slot.
THEOREM OwnersAgree == Spec => []OwnershipAgrees
  BY Invariance, PTL DEF IInv

\* Staging and output memory is not overwritten under a pending gather or under
\* a pending consumer: what the device events of a slot are recorded for.
THEOREM DataKept == Spec => []DataIntact
<1>1. IInv => DataIntact
  BY DEF IInv, TypeOK, StagingKept, OutputKept, DataIntact
<1> QED
  BY <1>1, Invariance, PTL

\* Once the native state is freed no client is inside it and the device has
\* nothing left to do with its memory.
THEOREM CloseIsFinal == Spec => []NothingAfterClose
<1>1. IInv => NothingAfterClose
  BY DEF IInv, ClosedIsEmpty, OwnershipAgrees, NothingAfterClose
<1> QED
  BY <1>1, Invariance, PTL

-----------------------------------------------------------------------------
(* The reader implements the lease pool.                                   *)

\* At the start nothing is lent.
LEMMA PoolInit == Init => Pool!Init
  BY DEF Init, Pool!Init, Held, Holders, Holding

\* A step that leaves the holders and closed alone is a stutter of the pool.
LEMMA PoolStutter ==
    ASSUME Holders' = Holders, \A c \in Holders : slot'[c] = slot[c], closed' = closed
    PROVE  UNCHANGED <<Held, ~closed>>
  BY DEF Held

\* Every step of the reader is a step of the lease pool or leaves it unchanged.
LEMMA PoolStep == IInv /\ [Next]_vars => [Pool!Next]_<<Held, ~closed>>
<1> SUFFICES ASSUME IInv, [Next]_vars PROVE [Pool!Next]_<<Held, ~closed>>
  OBVIOUS
<1> USE DEF IInv
<1>1. ASSUME NEW c \in Clients, Enter(c) PROVE [Pool!Next]_<<Held, ~closed>>
  <2>1. CASE closed
    <3>1. Holders' = Holders /\ \A d \in Holders : slot'[d] = slot[d]
      BY <1>1, <2>1 DEF Enter, Goto, Holders, Holding, TypeOK
    <3> QED
      BY <1>1, <3>1, PoolStutter DEF Enter
  <2>2. CASE ~closed
    <3>1. /\ Holders' = Holders \cup {c} /\ c \notin Holders /\ slot' = slot
          /\ closed' = closed
      BY <1>1, <2>2 DEF Enter, Goto, Holders, Holding, TypeOK
    <3>2. Held' = Held \cup {<<c, slot[c]>>}
      BY <3>1 DEF Held
    <3>3. slot[c] \in Slots /\ \A d \in Holders : slot[d] # slot[c]
      BY <1>1, <3>1, Facts DEF Enter, Holders, Holding, Carrying
    <3>4. \A d \in Clients : ~Pool!Holds(d, slot[c])
      BY <3>3 DEF Pool!Holds, Held
    <3>5. \A t \in Slots : ~Pool!Holds(c, t)
      BY <3>1 DEF Pool!Holds, Held
    <3>6. Pool!Acquire(c, slot[c])
      BY <2>2, <3>1, <3>2, <3>4, <3>5 DEF Pool!Acquire
    <3> QED
      BY <3>3, <3>6 DEF Pool!Next
  <2> QED
    BY <2>1, <2>2
<1>2. ASSUME NEW c \in Clients, Abort(c) \/ Release(c)
      PROVE  [Pool!Next]_<<Held, ~closed>>
  <2>1. /\ Holders' = Holders \ {c} /\ c \in Holders /\ slot' = slot
        /\ closed' = closed
    BY <1>2 DEF Abort, Release, Goto, Holders, Holding, TypeOK
  <2>2. slot[c] \in Slots
    BY <2>1, Facts DEF Holders, Holding, Carrying
  <2>3. Held' = Held \ {<<c, slot[c]>>} /\ <<c, slot[c]>> \in Held
    BY <2>1 DEF Held
  <2>4. Pool!GiveBack(c, slot[c])
    BY <2>1, <2>3 DEF Pool!GiveBack, Pool!Holds
  <2> QED
    BY <2>2, <2>4 DEF Pool!Next
<1>3. ASSUME Close PROVE [Pool!Next]_<<Held, ~closed>>
  <2>1. Holders = {} /\ Holders' = {} /\ ~closed /\ closed'
    BY <1>3 DEF Close, OwnershipAgrees, Holders
  <2>2. Pool!Shut
    BY <2>1 DEF Pool!Shut, Held
  <2> QED
    BY <2>2 DEF Pool!Next
<1>4. ASSUME NEW c \in Clients,
             Read(c) \/ Get(c) \/ Put(c) \/ Lock(c) \/ Wait(c) \/ Launch(c)
               \/ ReadFails(c) \/ Consume(c)
      PROVE  [Pool!Next]_<<Held, ~closed>>
  <2>1. closed' = closed /\ Holders' = Holders /\ \A d \in Holders : slot'[d] = slot[d]
    <3>1. CASE Read(c) \/ Get(c) \/ Put(c)
      BY <3>1 DEF Read, Get, Put, Goto, python, Holders, Holding, TypeOK
    <3>2. CASE Lock(c) \/ Wait(c) \/ Launch(c) \/ ReadFails(c) \/ Consume(c)
      BY <3>2 DEF Lock, Wait, Launch, ReadFails, Consume, Goto, python, Holders, Holding,
                  TypeOK
    <3> QED
      BY <1>4, <3>1, <3>2
  <2> QED
    BY <2>1, PoolStutter
<1>5. ASSUME Rebind \/ NativeClose \/ (\E s \in Slots : Gather(s) \/ Consumed(s))
               \/ UNCHANGED vars
      PROVE  [Pool!Next]_<<Held, ~closed>>
  <2>1. closed' = closed /\ Holders' = Holders /\ \A d \in Holders : slot'[d] = slot[d]
    BY <1>5 DEF Rebind, NativeClose, Gather, Consumed, vars, python, native, Holders
  <2> QED
    BY <2>1, PoolStutter
<1> QED
  BY <1>1, <1>2, <1>3, <1>4, <1>5 DEF Next, Client, Finished

\* Every behaviour of the reader is one of the lease pool: at most one holder per
\* slot, at most one slot per client's read, a close only when nothing is lent.
THEOREM ImplementsPool == Spec => PoolSpec
  BY PoolInit, PoolStep, Invariance, PTL DEF Spec, PoolSpec, Pool!Spec
=============================================================================
