--------------------------- MODULE PleHandoffProofs ---------------------------
(***************************************************************************)
(* Proofs about the hand-off of the PLE rows between the two ranks, for    *)
(* any number of steps and whatever reads fail or time out: every variable *)
(* has its type, the streams access no buffer at the same time, each       *)
(* forward reads the rows of its own step, and nothing but a fault makes   *)
(* the protocol raise.                                                     *)
(***************************************************************************)
EXTENDS PleHandoffInvariant, FiniteSetTheorems, SequenceTheorems, WellFoundedInduction,
        TLAPS

-----------------------------------------------------------------------------
(* Streams and scripts.                                                    *)

LEMMA StreamFacts ==
    /\ Streams = {Main(0), Main(1), Tp(0), Tp(1), D2H, Reader, Error}
    /\ Scripted = {Main(0), Main(1), Tp(0), Tp(1), D2H, Reader}
    /\ Main(0) # Main(1) /\ Main(0) # Tp(0) /\ Main(0) # Tp(1) /\ Main(0) # D2H
    /\ Main(0) # Reader /\ Main(0) # Error /\ Main(1) # Tp(0) /\ Main(1) # Tp(1)
    /\ Main(1) # D2H /\ Main(1) # Reader /\ Main(1) # Error /\ Tp(0) # Tp(1)
    /\ Tp(0) # D2H /\ Tp(0) # Reader /\ Tp(0) # Error /\ Tp(1) # D2H /\ Tp(1) # Reader
    /\ Tp(1) # Error /\ D2H # Reader /\ D2H # Error /\ Reader # Error
<1>1. /\ Main(0) # Main(1) /\ Main(0) # Tp(0) /\ Main(0) # Tp(1) /\ Main(0) # D2H
      /\ Main(0) # Reader /\ Main(0) # Error /\ Main(1) # Tp(0) /\ Main(1) # Tp(1)
  BY DEF Main, Tp, D2H, Reader, Error
<1>2. /\ Main(1) # D2H /\ Main(1) # Reader /\ Main(1) # Error /\ Tp(0) # Tp(1)
      /\ Tp(0) # D2H /\ Tp(0) # Reader /\ Tp(0) # Error /\ Tp(1) # D2H
  BY DEF Main, Tp, D2H, Reader, Error
<1>3. Tp(1) # Reader /\ Tp(1) # Error /\ D2H # Reader /\ D2H # Error /\ Reader # Error
  BY DEF Main, Tp, D2H, Reader, Error
<1> QED
  BY <1>1, <1>2, <1>3 DEF Streams, Scripted

LEMMA Seconds ==
    /\ Main(0)[2] = 0 /\ Main(1)[2] = 1 /\ Tp(0)[2] = 0 /\ Tp(1)[2] = 1
    /\ Reader[2] = 0 /\ Error[2] = 0 /\ D2H[2] = 0
BY DEF Main, Tp, D2H, Reader, Error

LEMMA Sizes ==
    /\ DummySize(Main(0)) = 6 /\ RealSize(Main(0)) = 7
    /\ DummySize(Main(1)) = 5 /\ RealSize(Main(1)) = 4
    /\ \A r \in Ranks : DummySize(Tp(r)) = 0 /\ RealSize(Tp(r)) = 4
    /\ DummySize(D2H) = 0 /\ RealSize(D2H) = 3
    /\ DummySize(Reader) = 0 /\ RealSize(Reader) = 3
<1>1. DummySize(Main(0)) = 6 /\ DummySize(Main(1)) = 5
  BY StreamFacts DEF DummySize
<1>2. DummySize(Tp(0)) = 0 /\ DummySize(Tp(1)) = 0 /\ DummySize(D2H) = 0 /\ DummySize(Reader) = 0
  BY StreamFacts DEF DummySize
<1>3. RealSize(Main(0)) = 7 /\ RealSize(Main(1)) = 4
  BY StreamFacts DEF RealSize
<1>4. RealSize(Tp(0)) = 4 /\ RealSize(Tp(1)) = 4 /\ RealSize(D2H) = 3 /\ RealSize(Reader) = 3
  BY StreamFacts DEF RealSize
<1> QED
  BY <1>1, <1>2, <1>3, <1>4 DEF Ranks

LEMMA SizesOf ==
    ASSUME NEW s \in Scripted
    PROVE  DummySize(s) \in {0, 5, 6} /\ RealSize(s) \in {3, 4, 7}
BY StreamFacts, Sizes DEF Ranks

\* The operations of the scripts, one by one.
LEMMA Scripts ==
    ASSUME NEW d, NEW n
    PROVE  /\ Script(d, Main(0), n) = MainScript0(d, n)
           /\ Script(d, Main(1), n) = MainScript1(d, n)
           /\ Script(d, Tp(0), n) = TpScript0(d, n)
           /\ Script(d, Tp(1), n) = TpScript1(d, n)
           /\ Script(d, D2H, n) = CopyScript(d, n)
           /\ Script(d, Reader, n) = ReadScript(n)
BY StreamFacts DEF Script

LEMMA OpFields ==
    /\ \A o, n : Op(o, n).op = o /\ Op(o, n).n = n /\ Op(o, n).ev = "none"
    /\ \A e : Record(e).op = "record" /\ Record(e).n = 0 /\ Record(e).ev = e
    /\ \A e, j : Await(e, j).op = "wait_event" /\ Await(e, j).n = j /\ Await(e, j).ev = e
    /\ \A v : WaitValue(v).op = "wait_value" /\ WaitValue(v).n = v
    /\ \A v : WriteValue(v).op = "write_value" /\ WriteValue(v).n = v
BY DEF Op, Record, Await, WaitValue, WriteValue

\* Two steps of a stream do not overlap.
LEMMA OneStep ==
    ASSUME NEW d \in Nat, NEW s \in Scripted, NEW m \in Nat \ {0}, NEW n \in Nat \ {0},
           NEW k \in 1..Size(d, s, m), NEW j \in 1..Size(d, s, n),
           Base(d, s, m) + k = Base(d, s, n) + j
    PROVE  m = n /\ k = j
<1>1. \A a, b \in Nat \ {0} : \A i \in 1..Size(d, s, a) : \A l \in Nat \ {0} :
          a < b => Base(d, s, a) + i < Base(d, s, b) + l
  <2> SUFFICES ASSUME NEW a \in Nat \ {0}, NEW b \in Nat \ {0}, NEW i \in 1..Size(d, s, a),
                      NEW l \in Nat \ {0}, a < b
               PROVE  Base(d, s, a) + i < Base(d, s, b) + l
    OBVIOUS
  <2> DEFINE x == DummySize(s)
             y == RealSize(s)
  <2>1. x \in {0, 5, 6} /\ y \in {3, 4, 7}
    BY SizesOf
  <2> HIDE DEF x, y
  <2>2. CASE b <= d
    <3>1. i <= x /\ Base(d, s, a) = x * (a - 1) /\ Base(d, s, b) = x * (b - 1)
      BY <2>2, <2>1 DEF Size, Base, x, y
    <3> QED
      BY <3>1, <2>1
  <2>3. CASE a > d
    <3>1. i <= y /\ Base(d, s, a) = x * d + y * (a - d - 1) /\ Base(d, s, b) = x * d + y * (b - d - 1)
      BY <2>3, <2>1 DEF Size, Base, x, y
    <3>2. y * (b - d - 1) >= y * (a - d - 1) + y
      BY <2>1, <2>3
    <3> QED
      BY <3>1, <3>2, <2>1
  <2>4. CASE a <= d /\ b > d
    <3>1. i <= x /\ Base(d, s, a) = x * (a - 1) /\ Base(d, s, b) = x * d + y * (b - d - 1)
      BY <2>4, <2>1 DEF Size, Base, x, y
    <3>2. x * (a - 1) + x <= x * d /\ y * (b - d - 1) >= 0
      BY <2>1, <2>4
    <3> QED
      BY <3>1, <3>2, <2>1
  <2> QED
    BY <2>2, <2>3, <2>4
<1>2. k \in Nat \ {0} /\ j \in Nat \ {0} /\ Base(d, s, m) \in Int /\ Base(d, s, n) \in Int
  BY SizesOf DEF Size, Base
<1>3. ~(m < n) /\ ~(n < m)
  BY <1>1, <1>2
<1> QED
  BY <1>2, <1>3

-----------------------------------------------------------------------------
(* Queues and cursors.                                                     *)

LEMMA QueueFacts ==
    ASSUME Shape, NEW s \in Streams
    PROVE  /\ queue[s] \in Seq(Ops) /\ Len(queue[s]) \in Nat
           /\ Idle(s) => Len(queue[s]) = 0
           /\ ~Idle(s) => /\ Len(queue[s]) \in Nat \ {0} /\ Head(queue[s]) = queue[s][1]
                          /\ Tail(queue[s]) \in Seq(Ops)
                          /\ Len(Tail(queue[s])) = Len(queue[s]) - 1
                          /\ \A i \in 1..(Len(queue[s]) - 1) :
                                Tail(queue[s])[i] = queue[s][i + 1]
<1>1. queue[s] \in Seq(Ops)
  BY DEF Shape
<1>2. CASE Idle(s)
  BY <1>1, <1>2 DEF Idle
<1>3. CASE ~Idle(s)
  BY <1>1, <1>3 DEF Idle
<1> QED
  BY <1>1, <1>2, <1>3

LEMMA CursorFacts ==
    ASSUME NEW d \in 0..MaxStep, NEW at, NEW ph, Cursors(d, at, ph), NEW s \in Scripted
    PROVE  /\ s \in Streams /\ d \in Nat /\ MaxStep \in Nat \ {0}
           /\ at[s] \in 1..(MaxStep + 1) /\ ph[s] \in Nat /\ ph[s] < Size(d, s, at[s])
           /\ \A n \in 0..(MaxStep + 2) :
                 /\ Size(d, s, n) \in {0, 3, 4, 5, 6, 7} /\ Base(d, s, n) \in Int
                 /\ Base(d, s, n + 1) = Base(d, s, n) + Size(d, s, n)
           /\ Executed(d, at, ph, s) \in Int
<1>1. d \in Nat /\ MaxStep \in Nat \ {0} /\ s \in Streams
  BY StepAssumption DEF Scripted
<1>2. at[s] \in 1..(MaxStep + 1) /\ ph[s] \in Nat /\ ph[s] < Size(d, s, at[s])
  BY <1>1 DEF Cursors
<1> DEFINE x == DummySize(s)
           y == RealSize(s)
<1>3. x \in {0, 5, 6} /\ y \in {3, 4, 7}
  BY SizesOf
<1>4. \A n \in 0..(MaxStep + 2) :
         /\ Size(d, s, n) = IF n > d THEN y ELSE x
         /\ Base(d, s, n) = IF n > d THEN x * d + y * (n - d - 1) ELSE x * (n - 1)
         /\ Base(d, s, n + 1) = IF n + 1 > d THEN x * d + y * (n + 1 - d - 1) ELSE x * (n + 1 - 1)
  BY DEF Size, Base
<1> HIDE DEF x, y
<1>5. \A n \in 0..(MaxStep + 2) :
         /\ Size(d, s, n) \in {0, 3, 4, 5, 6, 7} /\ Base(d, s, n) \in Int
         /\ Base(d, s, n + 1) = Base(d, s, n) + Size(d, s, n)
  <2> SUFFICES ASSUME NEW n \in 0..(MaxStep + 2)
               PROVE  /\ Size(d, s, n) \in {0, 3, 4, 5, 6, 7} /\ Base(d, s, n) \in Int
                      /\ Base(d, s, n + 1) = Base(d, s, n) + Size(d, s, n)
    OBVIOUS
  <2>1. CASE n > d
    <3>1. n + 1 > d
      BY <2>1, <1>1
    <3>2. y * (n + 1 - d - 1) = y * (n - d - 1) + y
      BY <1>1, <1>3
    <3> QED
      BY <1>1, <1>3, <1>4, <2>1, <3>1, <3>2
  <2>2. CASE n < d
    <3>1. ~(n + 1 > d) /\ ~(n > d)
      BY <2>2, <1>1
    <3>2. x * (n + 1 - 1) = x * (n - 1) + x
      BY <1>1, <1>3
    <3> QED
      BY <1>1, <1>3, <1>4, <2>2, <3>1, <3>2
  <2>3. CASE n = d
    <3>1. n + 1 > d /\ ~(n > d) /\ n + 1 - d - 1 = 0
      BY <2>3, <1>1
    <3>2. x * d = x * (n - 1) + x /\ y * 0 = 0
      BY <1>1, <1>3, <2>3
    <3> QED
      BY <1>1, <1>3, <1>4, <2>3, <3>1, <3>2
  <2> QED
    BY <2>1, <2>2, <2>3, <1>1
<1> QED
  BY <1>1, <1>2, <1>5 DEF Executed

\* The first operation of a queue is the next one of the script.
LEMMA HeadIs ==
    ASSUME NEW d \in 0..MaxStep, NEW at, NEW ph, Shape, Cursors(d, at, ph),
           Queues(d, at, ph), NEW s \in Scripted, ~Idle(s)
    PROVE  at[s] \in Steps /\ Head(queue[s]) = Script(d, s, at[s])[ph[s] + 1]
<1>1. /\ s \in Streams /\ Len(queue[s]) \in Nat \ {0} /\ Head(queue[s]) = queue[s][1]
  BY QueueFacts, CursorFacts
<1>2. Nth(d, s, Executed(d, at, ph, s) + 1, queue[s][1])
  BY <1>1 DEF Queues
<1>3a. PICK n \in Steps : \E k \in 1..Size(d, s, n) :
         Executed(d, at, ph, s) + 1 = Base(d, s, n) + k /\ queue[s][1] = Script(d, s, n)[k]
  BY <1>2 DEF Nth
<1>3. PICK k \in 1..Size(d, s, n) :
         Executed(d, at, ph, s) + 1 = Base(d, s, n) + k /\ queue[s][1] = Script(d, s, n)[k]
  BY <1>3a
<1>4. /\ at[s] \in 1..(MaxStep + 1) /\ ph[s] \in Nat /\ ph[s] < Size(d, s, at[s])
      /\ Size(d, s, at[s]) \in Nat /\ Base(d, s, at[s]) \in Int /\ MaxStep \in Nat /\ d \in Nat
  BY CursorFacts
<1>5. Base(d, s, at[s]) + (ph[s] + 1) = Base(d, s, n) + k
  BY <1>3, <1>4 DEF Executed
<1>6. ph[s] + 1 \in 1..Size(d, s, at[s]) /\ at[s] \in Nat \ {0} /\ n \in Nat \ {0}
  BY <1>4, <1>3 DEF Steps
<1> DEFINE j == ph[s] + 1
<1> HIDE DEF j
<1>7. j \in 1..Size(d, s, at[s]) /\ Base(d, s, at[s]) + j = Base(d, s, n) + k
  BY <1>5, <1>6 DEF j
<1>8. at[s] = n /\ j = k
  BY <1>7, <1>6, <1>3, <1>4, OneStep
<1> QED
  BY <1>1, <1>3, <1>8 DEF j

LEMMA NextCursors ==
    ASSUME NEW d \in 0..MaxStep, NEW at, NEW ph, Shape, Cursors(d, at, ph),
           Queues(d, at, ph), NEW P \in SUBSET Scripted, \A s \in P : ~Idle(s)
    PROVE  /\ Cursors(d, NextAt(d, at, ph, P), NextPh(d, at, ph, P))
           /\ \A s \in Scripted :
                 Executed(d, NextAt(d, at, ph, P), NextPh(d, at, ph, P), s) =
                    Executed(d, at, ph, s) + (IF s \in P THEN 1 ELSE 0)
<1> DEFINE a == NextAt(d, at, ph, P)
           p == NextPh(d, at, ph, P)
<1>1. \A s \in Streams : at[s] \in 1..(MaxStep + 1) /\ ph[s] \in 0..6
  BY DEF Cursors
<1>2. ASSUME NEW s \in Scripted, s \in P
      PROVE  /\ a[s] \in 1..(MaxStep + 1) /\ p[s] \in 0..6 /\ p[s] < Size(d, s, a[s])
             /\ Executed(d, a, p, s) = Executed(d, at, ph, s) + 1
  <2>1. at[s] \in 1..MaxStep /\ ~Idle(s)
    BY <1>2, HeadIs DEF Steps
  <2>2. /\ s \in Streams /\ d \in Nat /\ MaxStep \in Nat
        /\ at[s] \in 1..(MaxStep + 1) /\ ph[s] \in Nat /\ ph[s] < Size(d, s, at[s])
        /\ Size(d, s, at[s]) \in {0, 3, 4, 5, 6, 7} /\ Base(d, s, at[s]) \in Int
        /\ Size(d, s, at[s] + 1) \in {0, 3, 4, 5, 6, 7}
        /\ Base(d, s, at[s] + 1) = Base(d, s, at[s]) + Size(d, s, at[s])
    BY CursorFacts, <2>1
  <2>3. CASE ph[s] + 1 = Size(d, s, at[s])
    <3>1. a[s] = at[s] + 1 /\ p[s] = 0
      BY <1>2, <2>2, <2>3 DEF NextAt, NextPh
    <3>2. Size(d, s, at[s] + 1) > 0
      <4>1. RealSize(s) \in {3, 4, 7} /\ DummySize(s) \in {0, 5, 6}
        BY SizesOf
      <4> QED
        BY <4>1, <2>2 DEF Size
    <3> HIDE DEF a, p
    <3> QED
      BY <3>1, <3>2, <2>1, <2>2, <2>3 DEF Executed
  <2>4. CASE ph[s] + 1 # Size(d, s, at[s])
    <3>1. a[s] = at[s] /\ p[s] = ph[s] + 1
      BY <1>2, <2>2, <2>4 DEF NextAt, NextPh
    <3> HIDE DEF a, p
    <3> QED
      BY <3>1, <2>1, <2>2, <2>4 DEF Executed
  <2> QED
    BY <2>3, <2>4
<1>3. ASSUME NEW s \in Streams, s \notin P
      PROVE  a[s] = at[s] /\ p[s] = ph[s]
  BY <1>3 DEF NextAt, NextPh
<1>4. \A s \in Scripted : s \in Streams
  BY DEF Scripted
<1>5. \A s \in Scripted : s \notin P => Executed(d, a, p, s) = Executed(d, at, ph, s) + 0
  <2>1. \A s \in Scripted : Executed(d, at, ph, s) \in Int
    BY CursorFacts
  <2> QED
    BY <1>3, <1>4, <2>1 DEF Executed
<1>6. DOMAIN a = Streams /\ DOMAIN p = Streams /\ a = [s \in Streams |-> a[s]] /\ p = [s \in Streams |-> p[s]]
  BY DEF NextAt, NextPh
<1>7. P \subseteq Scripted /\ Scripted \subseteq Streams
  BY <1>4
<1> HIDE DEF a, p
<1>8. Cursors(d, a, p)
  <2>1. \A s \in Streams : a[s] \in 1..(MaxStep + 1) /\ p[s] \in 0..6
    BY <1>1, <1>2, <1>3, <1>7
  <2>2. a \in [Streams -> 1..(MaxStep + 1)] /\ p \in [Streams -> 0..6]
    BY <1>6, <2>1
  <2>3. \A s \in Scripted : p[s] < Size(d, s, a[s])
    <3> SUFFICES ASSUME NEW s \in Scripted PROVE p[s] < Size(d, s, a[s])
      OBVIOUS
    <3>1. CASE s \in P
      BY <3>1, <1>2
    <3>2. CASE s \notin P
      BY <3>2, <1>3, <1>4 DEF Cursors
    <3> QED
      BY <3>1, <3>2
  <2> QED
    BY <2>2, <2>3 DEF Cursors
<1> QED
  BY <1>2, <1>5, <1>8 DEF a, p

LEMMA Pop ==
    ASSUME NEW d \in 0..MaxStep, NEW at, NEW ph, Shape, Cursors(d, at, ph),
           Queues(d, at, ph), NEW P \in SUBSET Scripted, \A s \in P : ~Idle(s),
           queue' = Popped(P)
    PROVE  /\ queue' \in [Streams -> Seq(Ops)]
           /\ Queues(d, NextAt(d, at, ph, P), NextPh(d, at, ph, P))'
           /\ \A s \in Scripted :
                 Enqueued(d, NextAt(d, at, ph, P), NextPh(d, at, ph, P), s)' =
                    Enqueued(d, at, ph, s)
           /\ \A s \in Streams \ P : queue'[s] = queue[s]
<1> DEFINE a == NextAt(d, at, ph, P)
           p == NextPh(d, at, ph, P)
<1>1. \A s \in Scripted : /\ Executed(d, a, p, s) = Executed(d, at, ph, s) + (IF s \in P THEN 1 ELSE 0)
                          /\ Executed(d, at, ph, s) \in Int
  BY NextCursors, CursorFacts
<1> HIDE DEF a, p
<1>2. Scripted \subseteq Streams /\ Error \in Streams \ P
  BY StreamFacts
<1>3. \A s \in P : queue'[s] = Tail(queue[s])
  BY <1>2 DEF Popped
<1>4. \A s \in Streams \ P : queue'[s] = queue[s]
  BY <1>2 DEF Popped
<1>5. queue' \in [Streams -> Seq(Ops)]
  BY <1>2, QueueFacts DEF Popped
<1>6. ASSUME NEW s \in Scripted
      PROVE  /\ Enqueued(d, a, p, s)' = Enqueued(d, at, ph, s)
             /\ \A i \in 1..Len(queue'[s]) : Nth(d, s, Executed(d, a, p, s) + i, queue'[s][i])
  <2>1. CASE s \in P
    <3>1. /\ Len(queue[s]) \in Nat \ {0} /\ Len(queue'[s]) = Len(queue[s]) - 1
          /\ \A i \in 1..(Len(queue[s]) - 1) : queue'[s][i] = queue[s][i + 1]
      BY <2>1, <1>2, <1>3, QueueFacts
    <3>2. Executed(d, a, p, s) = Executed(d, at, ph, s) + 1 /\ Executed(d, at, ph, s) \in Int
      BY <2>1, <1>1
    <3>3. Enqueued(d, a, p, s)' = Executed(d, a, p, s) + Len(queue'[s])
      BY DEF Enqueued, Executed
    <3>4. Enqueued(d, at, ph, s) = Executed(d, at, ph, s) + Len(queue[s])
      BY DEF Enqueued
    <3>5. ASSUME NEW i \in 1..Len(queue'[s])
          PROVE  Nth(d, s, Executed(d, a, p, s) + i, queue'[s][i])
      <4>1. i + 1 \in 1..Len(queue[s])
        BY <3>1
      <4>2. Nth(d, s, Executed(d, at, ph, s) + (i + 1), queue[s][i + 1])
        BY <4>1 DEF Queues
      <4>3. Executed(d, at, ph, s) + (i + 1) = Executed(d, a, p, s) + i
        BY <3>1, <3>2
      <4> QED
        BY <4>2, <4>3, <3>1
    <3> QED
      BY <3>1, <3>2, <3>3, <3>4, <3>5
  <2>2. CASE s \notin P
    <3>1. queue'[s] = queue[s] /\ Executed(d, a, p, s) = Executed(d, at, ph, s)
      BY <2>2, <1>1, <1>2, <1>4
    <3>2. Enqueued(d, a, p, s)' = Executed(d, a, p, s) + Len(queue'[s])
      BY DEF Enqueued, Executed
    <3> QED
      BY <3>1, <3>2 DEF Enqueued, Queues
  <2> QED
    BY <2>1, <2>2
<1>7. \A i \in 1..Len(queue'[Error]) : queue'[Error][i] \in {Op("zero", 0), WriteValue(1)}
  BY <1>2, <1>4 DEF Queues
<1>8. Queues(d, a, p)'
  BY <1>6, <1>7 DEF Queues, Executed, Nth
<1> QED
  BY <1>4, <1>5, <1>6, <1>8 DEF a, p

\* Appending operations, in a sequence of Ops.
LEMMA Concat ==
    ASSUME NEW s \in Seq(Ops), NEW ops \in Seq(Ops)
    PROVE  /\ s \o ops \in Seq(Ops) /\ Len(s \o ops) = Len(s) + Len(ops)
           /\ Len(s) \in Nat /\ Len(ops) \in Nat
           /\ \A i \in 1..Len(s) : (s \o ops)[i] = s[i]
           /\ \A i \in 1..Len(ops) : (s \o ops)[Len(s) + i] = ops[i]
           /\ \A i \in 1..Len(s \o ops) :
                 i > Len(s) => i - Len(s) \in 1..Len(ops) /\ (s \o ops)[i] = ops[i - Len(s)]
           /\ s # <<>> => s \o ops # <<>> /\ Head(s \o ops) = Head(s)
<1>1. s \o ops \in Seq(Ops) /\ Len(s \o ops) = Len(s) + Len(ops) /\ Len(s) \in Nat /\ Len(ops) \in Nat
  OBVIOUS
<1>2. \A i \in 1..Len(s) : (s \o ops)[i] = s[i]
  OBVIOUS
<1>3. \A i \in 1..Len(ops) : (s \o ops)[Len(s) + i] = ops[i]
  OBVIOUS
<1>4. \A i \in 1..Len(s \o ops) :
         i > Len(s) => i - Len(s) \in 1..Len(ops) /\ (s \o ops)[i] = ops[i - Len(s)]
  <2> SUFFICES ASSUME NEW i \in 1..Len(s \o ops), i > Len(s)
               PROVE  i - Len(s) \in 1..Len(ops) /\ (s \o ops)[i] = ops[i - Len(s)]
    OBVIOUS
  <2>1. i - Len(s) \in 1..Len(ops) /\ Len(s) + (i - Len(s)) = i
    BY <1>1
  <2> QED
    BY <2>1, <1>3
<1>5. s # <<>> => s \o ops # <<>> /\ Head(s \o ops) = Head(s)
  OBVIOUS
<1> QED
  BY <1>1, <1>2, <1>3, <1>4, <1>5

LEMMA UnderGrown == ASSUME Shape, Under, Grown, busy' = busy PROVE Under'
<1>1. busy \subseteq Streams
  BY DEF Shape
<1>2. \A s \in busy : ~Idle(s)' /\ Moved(s)'
  BY <1>1 DEF Under, Grown, Moved
<1>3. ASSUME Tp(0) \in busy PROVE Broadcasting'
  <2>1. Broadcasting
    BY <1>3 DEF Under
  <2>2. \A r \in Ranks : Tp(r) \in Streams
    BY StreamFacts DEF Ranks
  <2>3. \A r \in Ranks : ~Idle(Tp(r)) /\ Head(queue[Tp(r)]).op = "broadcast"
    BY <2>1 DEF Broadcasting
  <2>4. \A r \in Ranks : ~Idle(Tp(r))' /\ Head(queue'[Tp(r)]).op = "broadcast"
    BY <2>2, <2>3 DEF Grown
  <2> QED
    BY <2>4 DEF Broadcasting, Idle
<1> QED
  BY <1>2, <1>3 DEF Under

LEMMA Same ==
    ASSUME NEW d, NEW at, NEW ph, Shape, Queues(d, at, ph), queue' = queue
    PROVE  /\ Queues(d, at, ph)' /\ Grown
           /\ \A s : Enqueued(d, at, ph, s)' = Enqueued(d, at, ph, s)
           /\ \A s : Idle(s)' = Idle(s)
BY DEF Queues, Grown, Shape, Idle, Enqueued, Executed, Nth

\* The next part of the script of step n is appended to stream s.
LEMMA Push ==
    ASSUME NEW d \in 0..MaxStep, NEW at, NEW ph, Shape, Cursors(d, at, ph),
           Queues(d, at, ph), NEW s \in Scripted, NEW n \in Steps, NEW k \in Nat,
           NEW ops \in Seq(Ops), k + Len(ops) <= Size(d, s, n),
           Enqueued(d, at, ph, s) = Base(d, s, n) + k,
           \A i \in 1..Len(ops) : ops[i] = Script(d, s, n)[k + i],
           queue' = On(s, ops)
    PROVE  /\ Queues(d, at, ph)' /\ Grown
           /\ Enqueued(d, at, ph, s)' = Base(d, s, n) + k + Len(ops)
           /\ \A t \in Streams \ {s} : /\ queue'[t] = queue[t]
                                       /\ Enqueued(d, at, ph, t)' = Enqueued(d, at, ph, t)
                                       /\ Idle(t)' = Idle(t)
<1>1. s \in Streams /\ Error \in Streams \ {s} /\ Scripted \subseteq Streams
  BY StreamFacts
<1>2. queue[s] \in Seq(Ops) /\ Len(queue[s]) \in Nat
  BY <1>1, QueueFacts
<1>3. queue \in [Streams -> Seq(Ops)]
  BY DEF Shape
<1>4. queue'[s] = queue[s] \o ops /\ \A t \in Streams \ {s} : queue'[t] = queue[t]
  BY <1>1, <1>3 DEF On
<1>5. /\ queue'[s] \in Seq(Ops) /\ Len(queue'[s]) = Len(queue[s]) + Len(ops)
      /\ Len(ops) \in Nat
      /\ \A i \in 1..Len(queue[s]) : queue'[s][i] = queue[s][i]
      /\ \A i \in 1..Len(queue'[s]) : i > Len(queue[s]) =>
            i - Len(queue[s]) \in 1..Len(ops) /\ queue'[s][i] = ops[i - Len(queue[s])]
      /\ queue[s] # <<>> => queue'[s] # <<>> /\ Head(queue'[s]) = Head(queue[s])
  BY <1>2, <1>4, Concat
<1>6. queue' \in [Streams -> Seq(Ops)]
  BY <1>1, <1>3, <1>4, <1>5 DEF On
<1>7. /\ Executed(d, at, ph, s) \in Int /\ Base(d, s, n) \in Int /\ Size(d, s, n) \in Nat
      /\ MaxStep \in Nat
  <2>1. n \in 0..(MaxStep + 2) /\ MaxStep \in Nat
    BY StepAssumption DEF Steps
  <2>2. /\ \A m \in 0..(MaxStep + 2) : Size(d, s, m) \in {0, 3, 4, 5, 6, 7} /\ Base(d, s, m) \in Int
        /\ Executed(d, at, ph, s) \in Int
    BY CursorFacts
  <2>3. Size(d, s, n) \in {0, 3, 4, 5, 6, 7} /\ Base(d, s, n) \in Int
    BY <2>1, <2>2
  <2>4. Size(d, s, n) \in Nat
    BY <2>3
  <2> QED
    BY <2>1, <2>2, <2>3, <2>4
<1>8. ASSUME NEW i \in 1..Len(queue'[s])
      PROVE  Nth(d, s, Executed(d, at, ph, s) + i, queue'[s][i])
  <2>1. CASE i <= Len(queue[s])
    <3>1. i \in 1..Len(queue[s])
      BY <2>1, <1>2
    <3> QED
      BY <3>1, <1>5 DEF Queues
  <2>2. CASE i > Len(queue[s])
    <3>1. PICK j \in 1..Len(ops) : queue'[s][i] = ops[j] /\ i = Len(queue[s]) + j
      <4>1. i - Len(queue[s]) \in 1..Len(ops) /\ queue'[s][i] = ops[i - Len(queue[s])]
        BY <1>5, <2>2
      <4>2. i = Len(queue[s]) + (i - Len(queue[s]))
        BY <1>2
      <4> QED
        BY <4>1, <4>2
    <3>2. k + j \in 1..Size(d, s, n) /\ ops[j] = Script(d, s, n)[k + j]
      BY <3>1, <1>5, <1>7
    <3>3. Executed(d, at, ph, s) + Len(queue[s]) = Base(d, s, n) + k
      BY DEF Enqueued
    <3>4. Executed(d, at, ph, s) + i = Base(d, s, n) + (k + j)
      <4> DEFINE e == Executed(d, at, ph, s)
                 b == Base(d, s, n)
                 l == Len(queue[s])
      <4>1. e \in Int /\ b \in Int
        BY <1>7
      <4>2. l \in Int /\ k \in Int
        BY <1>2
      <4>3. j \in Int /\ i = l + j
        BY <3>1, <1>5
      <4>4. e + l = b + k
        BY <3>3
      <4> HIDE DEF e, b, l
      <4>5. e + i = b + (k + j)
        BY ONLY <4>1, <4>2, <4>3, <4>4
      <4> QED
        BY <4>5 DEF e, b
    <3> QED
      BY <3>1, <3>2, <3>4 DEF Nth
  <2> QED
    BY <2>1, <2>2, <1>2, <1>5
<1>9. Queues(d, at, ph)'
  <2>1. \A t \in Scripted : \A i \in 1..Len(queue'[t]) :
           Nth(d, t, Executed(d, at, ph, t) + i, queue'[t][i])
    <3> SUFFICES ASSUME NEW t \in Scripted, NEW i \in 1..Len(queue'[t])
                 PROVE  Nth(d, t, Executed(d, at, ph, t) + i, queue'[t][i])
      OBVIOUS
    <3>1. CASE t = s
      BY <3>1, <1>8
    <3>2. CASE t # s
      <4>1. queue'[t] = queue[t]
        BY <3>2, <1>1, <1>4
      <4> QED
        BY <4>1 DEF Queues
    <3> QED
      BY <3>1, <3>2
  <2>2. \A i \in 1..Len(queue'[Error]) : queue'[Error][i] \in {Op("zero", 0), WriteValue(1)}
    BY <1>1, <1>4 DEF Queues
  <2> QED
    BY <2>1, <2>2 DEF Queues, Executed, Nth
<1>10. Grown
  BY <1>4, <1>5, <1>6 DEF Grown, Idle
<1>11. Enqueued(d, at, ph, s)' = Base(d, s, n) + k + Len(ops)
  <2>1. Enqueued(d, at, ph, s)' = Executed(d, at, ph, s) + Len(queue'[s])
    BY DEF Enqueued, Executed
  <2>2. Executed(d, at, ph, s) + Len(queue[s]) = Base(d, s, n) + k
    BY DEF Enqueued
  <2> QED
    BY <2>1, <2>2, <1>2, <1>5, <1>7
<1>12. \A t \in Streams \ {s} : /\ Enqueued(d, at, ph, t)' = Enqueued(d, at, ph, t)
                                /\ Idle(t)' = Idle(t)
  BY <1>4 DEF Enqueued, Executed, Idle
<1> QED
  BY <1>4, <1>9, <1>10, <1>11, <1>12

\* The zeros and the wake-up of _fail are appended to the error stream.
LEMMA PushError ==
    ASSUME NEW d, NEW at, NEW ph, Shape, Queues(d, at, ph), queue' = Wakeup
    PROVE  /\ Queues(d, at, ph)' /\ Grown
           /\ \A t \in Streams \ {Error} : /\ queue'[t] = queue[t]
                                           /\ Enqueued(d, at, ph, t)' = Enqueued(d, at, ph, t)
                                           /\ Idle(t)' = Idle(t)
<1> DEFINE ops == <<Op("zero", 0), WriteValue(1)>>
<1>1. /\ Error \in Streams /\ Scripted \subseteq Streams \ {Error}
  BY StreamFacts
<1>2. queue[Error] \in Seq(Ops) /\ Len(queue[Error]) \in Nat /\ queue \in [Streams -> Seq(Ops)]
  BY <1>1, QueueFacts DEF Shape
<1>3. ops \in Seq(Ops) /\ \A i \in 1..Len(ops) : ops[i] \in {Op("zero", 0), WriteValue(1)}
  <2>1. Op("zero", 0) \in Ops /\ WriteValue(1) \in Ops
    BY StepAssumption DEF Ops, Op, WriteValue, Moves
  <2> QED
    BY <2>1
<1>4. queue'[Error] = queue[Error] \o ops /\ \A t \in Streams \ {Error} : queue'[t] = queue[t]
  BY <1>1, <1>2 DEF Wakeup, On
<1>5. queue' \in [Streams -> Seq(Ops)]
  <2>1. queue[Error] \o ops \in Seq(Ops)
    BY <1>2, <1>3, Concat
  <2> HIDE DEF ops
  <2> QED
    BY <2>1, <1>1, <1>2 DEF Wakeup, On, ops
<1> HIDE DEF ops
<1>6. /\ \A i \in 1..Len(queue[Error]) : queue'[Error][i] = queue[Error][i]
      /\ \A i \in 1..Len(queue'[Error]) : i > Len(queue[Error]) =>
            i - Len(queue[Error]) \in 1..Len(ops) /\ queue'[Error][i] = ops[i - Len(queue[Error])]
      /\ queue[Error] # <<>> => queue'[Error] # <<>> /\ Head(queue'[Error]) = Head(queue[Error])
      /\ Len(queue'[Error]) \in Nat
  BY <1>2, <1>3, <1>4, Concat
<1>7. \A i \in 1..Len(queue'[Error]) : queue'[Error][i] \in {Op("zero", 0), WriteValue(1)}
  <2> SUFFICES ASSUME NEW i \in 1..Len(queue'[Error])
               PROVE  queue'[Error][i] \in {Op("zero", 0), WriteValue(1)}
    OBVIOUS
  <2>1. CASE i <= Len(queue[Error])
    <3>1. i \in 1..Len(queue[Error])
      BY <2>1, <1>2, <1>6
    <3> QED
      BY <3>1, <1>6 DEF Queues
  <2>2. CASE i > Len(queue[Error])
    BY <2>2, <1>3, <1>6
  <2> QED
    BY <2>1, <2>2, <1>2, <1>6
<1>8. Queues(d, at, ph)'
  <2>1. \A s \in Scripted : \A i \in 1..Len(queue'[s]) :
           Nth(d, s, Executed(d, at, ph, s) + i, queue'[s][i])
    BY <1>1, <1>4 DEF Queues
  <2> QED
    BY <2>1, <1>7 DEF Queues, Executed, Nth
<1>9. Grown
  BY <1>4, <1>5, <1>6 DEF Grown, Idle
<1> QED
  BY <1>4, <1>8, <1>9 DEF Enqueued, Executed, Idle

-----------------------------------------------------------------------------
(* What a step of the device leaves alone.                                 *)

\* A stream is idle when all that was enqueued was executed in earlier steps.
LEMMA IdleAt ==
    ASSUME NEW d \in 0..MaxStep, NEW at, NEW ph, Shape, Cursors(d, at, ph),
           NEW s \in {D2H, Reader}, at[s] > d,
           Enqueued(d, at, ph, s) = 3 * (at[s] - d - 1)
    PROVE  Idle(s) /\ ph[s] = 0
<1>1. s \in Scripted /\ s \in Streams /\ DummySize(s) = 0 /\ RealSize(s) = 3
  BY StreamFacts, Sizes
<1>2. at[s] \in Nat /\ ph[s] \in Nat /\ d \in Nat
  BY <1>1, CursorFacts
<1>3. Base(d, s, at[s]) = 3 * (at[s] - d - 1)
  BY <1>1, <1>2 DEF Base
<1>4. Len(queue[s]) \in Nat
  BY <1>1, QueueFacts
<1>5. ph[s] + Len(queue[s]) = 0
  BY <1>2, <1>3, <1>4 DEF Enqueued, Executed
<1>6. ph[s] = 0 /\ Len(queue[s]) = 0
  BY <1>2, <1>4, <1>5
<1> QED
  BY <1>1, <1>6, QueueFacts

LEMMA HostsKept ==
    ASSUME NEW d \in 0..MaxStep, NEW at, NEW ph, NEW a, NEW p, IInv(d, at, ph),
           Follows(d, at, ph, a, p), UNCHANGED <<workload, recorded, hosts, conn, rqst>>
    PROVE  /\ Mains(d, a, p)' /\ Counts(d, a, p)' /\ Kinded(d)' /\ Ranked(d, a, p)'
           /\ Owned(d)' /\ Served(d)' /\ Requests(d, a, p)' /\ Reading(d, a, p)'
           /\ Recorded(d)' /\ Faulty'
<1> USE DEF workload, hosts, conn, rqst
<1>1. /\ Shape /\ Cursors(d, at, ph) /\ Mains(d, at, ph) /\ Counts(d, at, ph) /\ Kinded(d)
      /\ Ranked(d, at, ph) /\ Owned(d) /\ Served(d) /\ Requests(d, at, ph)
      /\ Reading(d, at, ph) /\ Recorded(d) /\ Faulty
  BY DEF IInv
<1>2. /\ Main(0) \in Scripted /\ Main(1) \in Scripted /\ Tp(0) \in Scripted
      /\ Tp(1) \in Scripted /\ D2H \in Scripted /\ Reader \in Scripted
      /\ \A r \in Ranks : Tp(r) \in Scripted
  BY StreamFacts DEF Ranks
<1>3. \A s \in Scripted : at[s] \in Nat /\ ph[s] \in Nat /\ Executed(d, at, ph, s) \in Int
  BY <1>1, CursorFacts
<1>4. \A s \in Scripted : Enqueued(d, a, p, s)' = Enqueued(d, at, ph, s)
  BY DEF Follows
<1>5. \A s \in Scripted : /\ a[s] \in Nat /\ p[s] \in Nat /\ a[s] >= at[s]
                          /\ a[s] = at[s] => p[s] >= ph[s]
  BY DEF Follows
<1>6. Mains(d, a, p)'
  BY <1>1, <1>2, <1>4 DEF Mains
<1>7. Counts(d, a, p)'
  BY <1>1, <1>2, <1>4 DEF Counts
<1>8. Kinded(d)'
  BY <1>1 DEF Kinded, KindedAt, Serial
<1>9. Owned(d)' /\ Served(d)' /\ Recorded(d)'
  <2>1. Owned(d)'
    BY <1>1 DEF Owned
  <2>2. Served(d)'
    BY <1>1 DEF Served, Launched
  <2>3. Recorded(d)'
    BY <1>1 DEF Recorded
  <2> QED
    BY <2>1, <2>2, <2>3
<1>10. Faulty'
  BY <1>1 DEF Faulty, Follows
<1>11. Ranked(d, a, p)'
  <2>1. /\ (verify[0] = verify[1])'
        /\ (\A r \in Ranks : pc[r] \in {"verify", "verifying"} => verify[r] > 0)'
    BY <1>1 DEF Ranked
  <2>2. (pc[0] # "failed" /\ pc[1] # "failed" =>
          /\ \A n \in Steps : Serial(n) => Together(n, AfterStatus) /\ Together(n, AfterDrained)
          /\ verify[0] > 0 => \A n \in Steps : n > d => Together(n, AfterVerify))'
    BY <1>1 DEF Ranked, Serial, Together, Past
  <2>3. (\A r \in Ranks : pc[r] = "drained" => a[Tp(r)] > step[r])'
    <3>1. \A r \in Ranks : step[r] \in Nat
      BY <1>1, StepAssumption DEF Shape, Contents
    <3>2. \A r \in Ranks : pc[r] = "drained" => at[Tp(r)] > step[r]
      BY <1>1 DEF Ranked
    <3> QED
      BY <1>2, <1>3, <1>5, <3>1, <3>2
  <2>4. ASSUME NEW n \in Steps, Serial(n)'
        PROVE  (/\ \A r, t \in Ranks : Past(r, n, AfterDrained) => a[Tp(t)] > n
                /\ Past(1, n, AfterStatus) /\ ~BroadcastDone(a, p, n) =>
                      step[0] = n /\ pc[0] \in {"transport", "drain"})'
    <3>1. n \in Nat /\ Serial(n)
      BY <2>4 DEF Steps, Serial
    <3>2. /\ \A r, t \in Ranks : Past(r, n, AfterDrained) => at[Tp(t)] > n
          /\ Past(1, n, AfterStatus) /\ ~BroadcastDone(at, ph, n) =>
                step[0] = n /\ pc[0] \in {"transport", "drain"}
      BY <1>1, <3>1 DEF Ranked
    <3>3. \A t \in Ranks : at[Tp(t)] > n => a[Tp(t)] > n
      BY <1>2, <1>3, <1>5, <3>1
    <3>4. BroadcastDone(at, ph, n) => BroadcastDone(a, p, n)
      BY <1>2, <1>3, <1>5, <3>1 DEF BroadcastDone
    <3>5. \A r \in Ranks : /\ Past(r, n, AfterDrained)' <=> Past(r, n, AfterDrained)
                           /\ Past(r, n, AfterStatus)' <=> Past(r, n, AfterStatus)
      BY DEF Past
    <3>6. BroadcastDone(a, p, n)' <=> BroadcastDone(a, p, n)
      BY DEF BroadcastDone
    <3>7. \A r, t \in Ranks : Past(r, n, AfterDrained)' => a[Tp(t)] > n
      BY <3>2, <3>3, <3>5
    <3>8. Past(1, n, AfterStatus)' /\ ~BroadcastDone(a, p, n)' =>
             step[0] = n /\ pc[0] \in {"transport", "drain"}
      BY <3>2, <3>4, <3>5, <3>6 DEF Ranks
    <3> QED
      BY <3>7, <3>8
  <2>5. (pc[1] = "failed" /\ Serial(step[1]) => recorded["done1"] + d < step[1] \/ a[Tp(1)] > step[1])'
    <3>1. step[1] \in Nat
      BY <1>1, StepAssumption DEF Shape, Contents, Ranks
    <3>2. pc[1] = "failed" /\ Serial(step[1]) => recorded["done1"] + d < step[1] \/ at[Tp(1)] > step[1]
      BY <1>1 DEF Ranked
    <3>3. Serial(step[1])' <=> Serial(step[1])
      BY <1>2, <1>3, <1>5 DEF Serial
    <3> QED
      BY <1>2, <1>3, <1>5, <3>1, <3>2, <3>3
  <2>6. (step[1] > d /\ (pc[1] # "sync" \/ step[1] > d + 1) => (Serialize => a[Main(1)] > d))'
    <3>1. step[1] > d /\ (pc[1] # "sync" \/ step[1] > d + 1) => (Serialize => at[Main(1)] > d)
      BY <1>1 DEF Ranked
    <3> QED
      BY <1>2, <1>3, <1>5, <3>1
  <2>7. (Clean /\ Serialize => \A r \in Ranks : pc[r] = "verifying" => digest[r] = step[r])'
    BY <1>1 DEF Ranked, Clean
  <2> QED
    BY <2>1, <2>2, <2>3, <2>4, <2>5, <2>6, <2>7 DEF Ranked
<1>12. reqSeq \in Nat /\ d \in Nat /\ (reqSeq # 0 => reqSeq > d)
  BY <1>1, StepAssumption DEF Shape, Contents, Served
<1>13. Requests(d, a, p)'
  <2>1. reqSeq # 0 /\ req \notin {"stage", "notify", "sync"} => a[D2H] = at[D2H]
    <3> SUFFICES ASSUME reqSeq # 0, req \notin {"stage", "notify", "sync"}
                 PROVE  a[D2H] = at[D2H]
      OBVIOUS
    <3>1. at[D2H] = reqSeq + 1 /\ Enqueued(d, at, ph, D2H) = 3 * (reqSeq - d)
      BY <1>1 DEF Requests
    <3>2. at[D2H] > d /\ Enqueued(d, at, ph, D2H) = 3 * (at[D2H] - d - 1)
      BY <3>1, <1>12
    <3>3. Idle(D2H)
      BY <1>1, <3>2, IdleAt
    <3> QED
      BY <3>3, <1>2 DEF Follows
  <2>2. reqSeq # 0 => a[D2H] >= reqSeq
    BY <1>1, <1>2, <1>3, <1>5, <1>12 DEF Requests
  <2>3. Enqueued(d, a, p, D2H)' = 3 * recorded["d2h_done"]
    BY <1>1, <1>2, <1>4 DEF Requests
  <2> QED
    BY <1>1, <2>1, <2>2, <2>3 DEF Requests
<1>14. Reading(d, a, p)'
  <2>1. Enqueued(d, a, p, Reader)' = Enqueued(d, at, ph, Reader)
    BY <1>2, <1>4
  <2>2. reqSeq # 0 => \/ a[Reader] = at[Reader]
                      \/ ~(Enqueued(d, at, ph, Reader) = 3 * (reqSeq - d - 1) /\ at[Reader] = reqSeq)
                         /\ ~(Enqueued(d, at, ph, Reader) = 3 * (reqSeq - d) /\ at[Reader] = reqSeq + 1)
    <3>1. CASE reqSeq # 0 /\ Enqueued(d, at, ph, Reader) = 3 * (reqSeq - d - 1) /\ at[Reader] = reqSeq
      <4>1. Idle(Reader)
        BY <3>1, <1>1, <1>12, IdleAt
      <4> QED
        BY <4>1, <1>2 DEF Follows
    <3>2. CASE reqSeq # 0 /\ Enqueued(d, at, ph, Reader) = 3 * (reqSeq - d) /\ at[Reader] = reqSeq + 1
      <4>1. at[Reader] > d /\ Enqueued(d, at, ph, Reader) = 3 * (at[Reader] - d - 1)
        BY <3>2, <1>12
      <4>2. Idle(Reader)
        BY <4>1, <1>1, IdleAt
      <4> QED
        BY <4>2, <1>2 DEF Follows
    <3> QED
      BY <3>1, <3>2
  <2>3. Idle(Reader) => Idle(Reader)'
    BY <1>2 DEF Follows
  <2>4. Broken(d, a, p)' <=> Broken(d, at, ph)
    BY <2>1 DEF Broken
  <2>5. (reqSeq = 0 => Enqueued(d, a, p, Reader) = 0)'
    BY <1>1, <2>1 DEF Reading
  <2>6. (reqSeq # 0 =>
          /\ req \in {"stage", "notify", "sync", "plan", "produce"} =>
                Enqueued(d, a, p, Reader) = 3 * (reqSeq - d - 1) /\ a[Reader] = reqSeq
          /\ req = "complete" => Enqueued(d, a, p, Reader) = 3 * (reqSeq - d)
          /\ req \in {"fail", "wake"} => mailbox <= 0 /\ Broken(d, a, p)
          /\ req \in {"get", "stopped"} =>
                \/ Enqueued(d, a, p, Reader) = 3 * (reqSeq - d) /\ a[Reader] = reqSeq + 1
                      /\ reqSeq \in completed
                \/ error /\ mailbox <= 0 /\ Broken(d, a, p))'
    BY <1>1, <2>1, <2>2, <2>4 DEF Reading
  <2>7. (sync_steps => Enqueued(d, a, p, Reader) >= 3 * (Launched - 1))'
    BY <1>1, <2>1 DEF Reading, Launched
  <2>8. (pc[0] \in {"status", "transport", "drain", "drained"} /\ Serial(step[0]) =>
          step[0] \in completed /\ req = "get" /\ mailbox = 0 /\ Idle(Reader))'
    BY <1>1, <2>3 DEF Reading, Serial
  <2> QED
    BY <2>5, <2>6, <2>7, <2>8 DEF Reading
<1> QED
  BY <1>6, <1>7, <1>8, <1>9, <1>10, <1>11, <1>13, <1>14

-----------------------------------------------------------------------------
(* The device.                                                             *)

LEMMA PoppedFollows ==
    ASSUME NEW d \in 0..MaxStep, NEW at, NEW ph, IInv(d, at, ph),
           NEW P \in SUBSET Scripted, \A s \in P : ~Idle(s), queue' = Popped(P)
    PROVE  Follows(d, at, ph, NextAt(d, at, ph, P), NextPh(d, at, ph, P))
<1> DEFINE a == NextAt(d, at, ph, P)
           p == NextPh(d, at, ph, P)
<1>1. Shape /\ Cursors(d, at, ph) /\ Queues(d, at, ph)
  BY DEF IInv
<1>2. \A s \in Scripted : Enqueued(d, a, p, s)' = Enqueued(d, at, ph, s)
  BY <1>1, Pop
<1>3. \A s \in Streams \ P : queue'[s] = queue[s]
  BY <1>1, Pop
<1>4. \A s \in Scripted : s \in Streams /\ at[s] \in Nat /\ ph[s] \in Nat
  BY <1>1, CursorFacts
<1>5. \A s \in Scripted : \/ a[s] = at[s] + 1 /\ p[s] = 0
                          \/ a[s] = at[s] /\ p[s] = ph[s] + 1
                          \/ a[s] = at[s] /\ p[s] = ph[s]
  BY <1>4 DEF NextAt, NextPh
<1>6. \A s \in Scripted : Idle(s) => a[s] = at[s] /\ p[s] = ph[s]
  BY <1>4 DEF NextAt, NextPh
<1> HIDE DEF a, p
<1>7. \A s \in Streams : Idle(s) => Idle(s)'
  BY <1>3 DEF Idle
<1>8. \A s \in Scripted : /\ a[s] \in Nat /\ p[s] \in Nat /\ a[s] >= at[s]
                          /\ a[s] = at[s] => p[s] >= ph[s]
  BY <1>4, <1>5
<1> QED
  BY <1>2, <1>4, <1>6, <1>7, <1>8, StreamFacts DEF Follows, a, p

\* What is left to show of a step of the device that takes operations off the
\* streams of P.
LEMMA DeviceStep ==
    ASSUME NEW d \in 0..MaxStep, NEW at, NEW ph, IInv(d, at, ph),
           NEW P \in SUBSET Scripted, \A s \in P : ~Idle(s), queue' = Popped(P), Frame,
           Shape', Under', Device0(d, NextAt(d, at, ph, P), NextPh(d, at, ph, P))',
           Device1(d, NextAt(d, at, ph, P), NextPh(d, at, ph, P))'
    PROVE  IInv(d, NextAt(d, at, ph, P), NextPh(d, at, ph, P))'
<1> DEFINE a == NextAt(d, at, ph, P)
           p == NextPh(d, at, ph, P)
<1>1. Shape /\ Cursors(d, at, ph) /\ Queues(d, at, ph) /\ Dummies(d)
  BY DEF IInv
<1>2. Cursors(d, a, p) /\ Queues(d, a, p)'
  BY <1>1, NextCursors, Pop
<1>3. Follows(d, at, ph, a, p)
  BY PoppedFollows
<1>4. Dummies(d)'
  BY <1>1 DEF Dummies, Real, Frame, workload
<1>5. UNCHANGED <<workload, recorded, hosts, conn, rqst>>
  BY DEF Frame
<1> HIDE DEF a, p
<1>6. /\ Mains(d, a, p)' /\ Counts(d, a, p)' /\ Kinded(d)' /\ Ranked(d, a, p)'
      /\ Owned(d)' /\ Served(d)' /\ Requests(d, a, p)' /\ Reading(d, a, p)'
      /\ Recorded(d)' /\ Faulty'
  BY <1>3, <1>5, HostsKept
<1>7. Cursors(d, a, p)'
  BY <1>2 DEF Cursors
<1>8. Device0(d, a, p)' /\ Device1(d, a, p)'
  BY DEF a, p
<1>9. IInv(d, a, p)'
  BY <1>2, <1>4, <1>6, <1>7, <1>8 DEF IInv
<1> QED
  BY <1>9 DEF a, p

\* The cursors when one stream moves on.
LEMMA OneMoves ==
    ASSUME NEW d \in 0..MaxStep, NEW at, NEW ph, Cursors(d, at, ph), NEW s \in Scripted
    PROVE  /\ \A t \in Streams \ {s} : /\ NextAt(d, at, ph, {s})[t] = at[t]
                                       /\ NextPh(d, at, ph, {s})[t] = ph[t]
           /\ IF ph[s] + 1 = Size(d, s, at[s])
                THEN NextAt(d, at, ph, {s})[s] = at[s] + 1 /\ NextPh(d, at, ph, {s})[s] = 0
                ELSE NextAt(d, at, ph, {s})[s] = at[s] /\ NextPh(d, at, ph, {s})[s] = ph[s] + 1
BY CursorFacts DEF NextAt, NextPh

LEMMA NotBusy ==
    ASSUME Shape, Under, NEW s \in Streams, ~Moved(s), queue' = Popped({s}), busy' = busy
    PROVE  Under'
<1>1. s \notin busy
  BY DEF Under
<1>2. \A t \in Streams \ {s} : queue'[t] = queue[t]
  BY DEF Popped
<1>3. busy \subseteq Streams \ {s}
  BY <1>1 DEF Shape
<1>4. \A t \in busy : ~Idle(t)' /\ Moved(t)'
  BY <1>2, <1>3 DEF Under, Idle, Moved
<1>5. ASSUME Tp(0) \in busy PROVE Broadcasting'
  <2>1. Tp(1) \in busy /\ Broadcasting
    BY <1>5 DEF Under
  <2>2. \A r \in Ranks : Tp(r) \in Streams \ {s}
    BY <1>3, <1>5, <2>1 DEF Ranks
  <2> QED
    BY <1>2, <2>1, <2>2 DEF Broadcasting, Idle
<1> QED
  BY <1>4, <1>5 DEF Under

\* An operation that moves no data, with what it changes point by point.
LEMMA ExecuteIs ==
    ASSUME Shape, Under, NEW s \in Streams, Execute(s),
           Head(queue[s]).op = "write_value" => Head(queue[s]).n \in {0, 1}
    PROVE  /\ ~Idle(s) /\ queue' = Popped({s}) /\ Frame /\ Shape' /\ Under'
           /\ UNCHANGED <<inputs, pinned, output, got>>
           /\ Head(queue[s]).op \notin Moves
           /\ Head(queue[s]).op = "wait_event" => fired[Head(queue[s]).ev] >= Head(queue[s]).n
           /\ Head(queue[s]).op = "wait_value" => flag[s[2]] = Head(queue[s]).n
           /\ \A e \in Events :
                 fired'[e] = IF Head(queue[s]).op = "record" /\ Head(queue[s]).ev = e
                               THEN fired[e] + 1 ELSE fired[e]
           /\ \A r \in Ranks :
                 flag'[r] = IF Head(queue[s]).op = "write_value" /\ r = s[2]
                              THEN Head(queue[s]).n ELSE flag[r]
<1> DEFINE o == Head(queue[s])
<1>1. /\ ~Idle(s) /\ o.op \notin Moves
      /\ o.op = "wait_event" => fired[o.ev] >= o.n
      /\ o.op = "wait_value" => flag[s[2]] = o.n
      /\ fired' = IF o.op = "record" THEN [fired EXCEPT ![o.ev] = @ + 1] ELSE fired
      /\ flag' = IF o.op = "write_value" THEN [flag EXCEPT ![s[2]] = o.n] ELSE flag
  BY DEF Execute
<1>2. /\ queue' = [queue EXCEPT ![s] = Tail(@)] /\ Frame
      /\ UNCHANGED <<busy, inputs, pinned, output, got>>
  BY DEF Execute, Frame
<1>3. o.op = "write_value" => o.n \in {0, 1}
  OBVIOUS
<1>4. /\ queue \in [Streams -> Seq(Ops)] /\ fired \in [Events -> Nat]
      /\ flag \in [Ranks -> {0, 1}]
  BY DEF Shape
<1>5. queue' = Popped({s}) /\ queue' \in [Streams -> Seq(Ops)]
  <2>1. queue' = Popped({s})
    BY <1>2, <1>4 DEF Popped
  <2>2. \A t \in Streams : Popped({s})[t] \in Seq(Ops)
    BY <1>1, <1>4, QueueFacts DEF Popped
  <2> QED
    BY <2>1, <2>2 DEF Popped
<1> HIDE DEF o
<1>6. /\ \A e \in Events : fired'[e] = IF o.op = "record" /\ o.ev = e
                                         THEN fired[e] + 1 ELSE fired[e]
      /\ fired' \in [Events -> Nat]
  <2>1. CASE o.op = "record"
    <3>1. fired' = [fired EXCEPT ![o.ev] = @ + 1]
      BY <1>1, <2>1
    <3>2. \A e \in Events : fired'[e] = IF o.ev = e THEN fired[e] + 1 ELSE fired[e]
      BY <3>1, <1>4
    <3>3. \A e \in Events : fired[e] \in Nat /\ fired[e] + 1 \in Nat
      BY <1>4
    <3>4. DOMAIN fired' = Events /\ fired' = [e \in Events |-> fired'[e]]
      BY <3>1, <1>4
    <3>5. \A e \in Events : fired'[e] \in Nat
      BY <3>2, <3>3
    <3> QED
      BY <2>1, <3>2, <3>4, <3>5
  <2>2. CASE o.op # "record"
    BY <1>1, <1>4, <2>2
  <2> QED
    BY <2>1, <2>2
<1>7. /\ \A r \in Ranks : flag'[r] = IF o.op = "write_value" /\ r = s[2] THEN o.n ELSE flag[r]
      /\ flag' \in [Ranks -> {0, 1}]
  BY <1>1, <1>3, <1>4
<1>8. Under'
  <2>1. ~Moved(s)
    BY <1>1 DEF Moved, o
  <2> QED
    BY <2>1, <1>2, <1>5, NotBusy
<1>9. Shape'
  BY <1>2, <1>5, <1>6, <1>7 DEF Shape, Frame, workload, hosts, conn, rqst
<1> QED
  BY <1>1, <1>2, <1>5, <1>6, <1>7, <1>8, <1>9 DEF o

\* The operation a stream stands before, by its place in the script.
LEMMA HeadMain0 ==
    ASSUME NEW d \in 0..MaxStep, NEW at, NEW ph, Shape, Cursors(d, at, ph), Queues(d, at, ph),
           ~Idle(Main(0)), NEW n, NEW k, n = at[Main(0)], k = ph[Main(0)],
           NEW o, o = Head(queue[Main(0)])
    PROVE  /\ n \in Steps /\ k \in 0..6 /\ d \in Nat
           /\ Size(d, Main(0), n) = IF n > d THEN 7 ELSE 6
           /\ k < (IF n > d THEN 7 ELSE 6)
           /\ Ops0(d, n, k, o)
<1>1. Main(0) \in Scripted
  BY StreamFacts
<1>2. n \in Steps /\ o = Script(d, Main(0), n)[k + 1]
  BY <1>1, HeadIs
<1>3. k \in Nat /\ k < Size(d, Main(0), n) /\ d \in Nat
  BY <1>1, CursorFacts
<1>4. Size(d, Main(0), n) = IF n > d THEN 7 ELSE 6
  BY Sizes DEF Size
<1>5. o = MainScript0(d, n)[k + 1]
  BY <1>2, Scripts
<1>6. n > d => /\ k = 0 => o = Op("stage", n)
               /\ k = 1 => o = Record("input_ready")
               /\ k = 2 => o = Await("d2h_done", n - d)
               /\ k = 3 => o = WaitValue(1)
               /\ k = 4 => o = Op("consume", n)
               /\ k = 5 => o = Await("done0", n - d)
               /\ k = 6 => o = WriteValue(0)
  BY <1>5 DEF MainScript0
<1>7. ~(n > d) => /\ k = 0 => o = Op("stage", n)
                  /\ k = 1 => o = Op("zero", 0)
                  /\ k = 2 => o = WriteValue(1)
                  /\ k = 3 => o = WaitValue(1)
                  /\ k = 4 => o = Op("consume", n)
                  /\ k = 5 => o = WriteValue(0)
  BY <1>5 DEF MainScript0
<1> QED
  BY <1>2, <1>3, <1>4, <1>6, <1>7 DEF Ops0

LEMMA HeadMain1 ==
    ASSUME NEW d \in 0..MaxStep, NEW at, NEW ph, Shape, Cursors(d, at, ph), Queues(d, at, ph),
           ~Idle(Main(1)), NEW n, NEW k, n = at[Main(1)], k = ph[Main(1)],
           NEW o, o = Head(queue[Main(1)])
    PROVE  /\ n \in Steps /\ k \in 0..4 /\ d \in Nat
           /\ Size(d, Main(1), n) = IF n > d THEN 4 ELSE 5
           /\ k < (IF n > d THEN 4 ELSE 5)
           /\ Ops1(d, n, k, o)
<1>1. Main(1) \in Scripted
  BY StreamFacts
<1>2. n \in Steps /\ o = Script(d, Main(1), n)[k + 1]
  BY <1>1, HeadIs
<1>3. k \in Nat /\ k < Size(d, Main(1), n) /\ d \in Nat
  BY <1>1, CursorFacts
<1>4. Size(d, Main(1), n) = IF n > d THEN 4 ELSE 5
  BY Sizes DEF Size
<1>5. o = MainScript1(d, n)[k + 1]
  BY <1>2, Scripts
<1>6. n > d => /\ k = 0 => o = WaitValue(1)
               /\ k = 1 => o = Op("consume", n)
               /\ k = 2 => o = Await("done1", n - d)
               /\ k = 3 => o = WriteValue(0)
  BY <1>5 DEF MainScript1
<1>7. ~(n > d) => /\ k = 0 => o = Op("zero", 0)
                  /\ k = 1 => o = WriteValue(1)
                  /\ k = 2 => o = WaitValue(1)
                  /\ k = 3 => o = Op("consume", n)
                  /\ k = 4 => o = WriteValue(0)
  BY <1>5 DEF MainScript1
<1> QED
  BY <1>2, <1>3, <1>4, <1>6, <1>7 DEF Ops1

LEMMA HeadTp0 ==
    ASSUME NEW d \in 0..MaxStep, NEW at, NEW ph, Shape, Cursors(d, at, ph), Queues(d, at, ph),
           at[Tp(0)] > d, ~Idle(Tp(0)), NEW n, NEW k, n = at[Tp(0)], k = ph[Tp(0)],
           NEW o, o = Head(queue[Tp(0)])
    PROVE  /\ n \in Steps /\ k \in 0..3 /\ d \in Nat /\ Size(d, Tp(0), n) = 4
           /\ k = 0 => o = Await("d2h_done", n - d)
           /\ k = 1 => o = WaitValue(1)
           /\ k = 2 => o = Op("broadcast", n)
           /\ k = 3 => o = Record("done0")
<1>1. Tp(0) \in Scripted
  BY StreamFacts
<1>2. n \in Steps /\ o = Script(d, Tp(0), n)[k + 1]
  BY <1>1, HeadIs
<1>3. k \in Nat /\ k < Size(d, Tp(0), n) /\ d \in Nat
  BY <1>1, CursorFacts
<1>4. Size(d, Tp(0), n) = 4
  BY Sizes DEF Size, Ranks
<1>5. o = TpScript0(d, n)[k + 1]
  BY <1>2, Scripts
<1>6. /\ k = 0 => o = Await("d2h_done", n - d)
      /\ k = 1 => o = WaitValue(1)
      /\ k = 2 => o = Op("broadcast", n)
      /\ k = 3 => o = Record("done0")
  BY <1>5 DEF TpScript0
<1> QED
  BY <1>2, <1>3, <1>4, <1>6

LEMMA HeadTp1 ==
    ASSUME NEW d \in 0..MaxStep, NEW at, NEW ph, Shape, Cursors(d, at, ph), Queues(d, at, ph),
           at[Tp(1)] > d, ~Idle(Tp(1)), NEW n, NEW k, n = at[Tp(1)], k = ph[Tp(1)],
           NEW o, o = Head(queue[Tp(1)])
    PROVE  /\ n \in Steps /\ k \in 0..3 /\ d \in Nat /\ Size(d, Tp(1), n) = 4
           /\ k = 0 => o = WaitValue(0)
           /\ k = 1 => o = Op("broadcast", n)
           /\ k = 2 => o = WriteValue(1)
           /\ k = 3 => o = Record("done1")
<1>1. Tp(1) \in Scripted
  BY StreamFacts
<1>2. n \in Steps /\ o = Script(d, Tp(1), n)[k + 1]
  BY <1>1, HeadIs
<1>3. k \in Nat /\ k < Size(d, Tp(1), n) /\ d \in Nat
  BY <1>1, CursorFacts
<1>4. Size(d, Tp(1), n) = 4
  BY Sizes DEF Size, Ranks
<1>5. o = TpScript1(d, n)[k + 1]
  BY <1>2, Scripts
<1>6. /\ k = 0 => o = WaitValue(0)
      /\ k = 1 => o = Op("broadcast", n)
      /\ k = 2 => o = WriteValue(1)
      /\ k = 3 => o = Record("done1")
  BY <1>5 DEF TpScript1
<1> QED
  BY <1>2, <1>3, <1>4, <1>6

LEMMA HeadD2H ==
    ASSUME NEW d \in 0..MaxStep, NEW at, NEW ph, Shape, Cursors(d, at, ph), Queues(d, at, ph),
           at[D2H] > d, ~Idle(D2H), NEW n, NEW k, n = at[D2H], k = ph[D2H],
           NEW o, o = Head(queue[D2H])
    PROVE  /\ n \in Steps /\ k \in 0..2 /\ d \in Nat /\ Size(d, D2H, n) = 3
           /\ k = 0 => o = Await("input_ready", n - d)
           /\ k = 1 => o = Op("copy", 0)
           /\ k = 2 => o = Record("d2h_done")
<1>1. D2H \in Scripted
  BY StreamFacts
<1>2. n \in Steps /\ o = Script(d, D2H, n)[k + 1]
  BY <1>1, HeadIs
<1>3. k \in Nat /\ k < Size(d, D2H, n) /\ d \in Nat
  BY <1>1, CursorFacts
<1>4. Size(d, D2H, n) = 3
  BY Sizes DEF Size
<1>5. o = CopyScript(d, n)[k + 1]
  BY <1>2, Scripts
<1>6. /\ k = 0 => o = Await("input_ready", n - d)
      /\ k = 1 => o = Op("copy", 0)
      /\ k = 2 => o = Record("d2h_done")
  BY <1>5 DEF CopyScript
<1> QED
  BY <1>2, <1>3, <1>4, <1>6

LEMMA HeadReader ==
    ASSUME NEW d \in 0..MaxStep, NEW at, NEW ph, Shape, Cursors(d, at, ph), Queues(d, at, ph),
           at[Reader] > d, ~Idle(Reader), NEW n, NEW k, n = at[Reader], k = ph[Reader],
           NEW o, o = Head(queue[Reader])
    PROVE  /\ n \in Steps /\ k \in 0..2 /\ d \in Nat /\ Size(d, Reader, n) = 3
           /\ k = 0 => o = WaitValue(0)
           /\ k = 1 => o = Op("gather", n)
           /\ k = 2 => o = WriteValue(1)
<1>1. Reader \in Scripted
  BY StreamFacts
<1>2. n \in Steps /\ o = Script(d, Reader, n)[k + 1]
  BY <1>1, HeadIs
<1>3. k \in Nat /\ k < Size(d, Reader, n) /\ d \in Nat
  BY <1>1, CursorFacts
<1>4. Size(d, Reader, n) = 3
  BY Sizes DEF Size
<1>5. o = ReadScript(n)[k + 1]
  BY <1>2, Scripts
<1>6. /\ k = 0 => o = WaitValue(0)
      /\ k = 1 => o = Op("gather", n)
      /\ k = 2 => o = WriteValue(1)
  BY <1>5 DEF ReadScript
<1> QED
  BY <1>2, <1>3, <1>4, <1>6

LEMMA HeadError ==
    ASSUME NEW d, NEW at, NEW ph, Shape, Queues(d, at, ph), ~Idle(Error)
    PROVE  Head(queue[Error]) \in {Op("zero", 0), WriteValue(1)}
<1>1. Error \in Streams
  BY StreamFacts
<1>2. Len(queue[Error]) \in Nat \ {0} /\ Head(queue[Error]) = queue[Error][1]
  BY <1>1, QueueFacts
<1>3. 1 \in 1..Len(queue[Error])
  BY <1>2
<1> QED
  BY <1>2, <1>3 DEF Queues

\* An operation that moves data ends.
LEMMA FinishIs ==
    ASSUME Shape, Under, NEW s \in Streams \ {Tp(0), Tp(1)}, FinishMove(s), s[2] \in Ranks,
           Head(queue[s]).op \in {"stage", "gather", "zero"} => Head(queue[s]).n \in Contents,
           Head(queue[s]).op = "consume" => Head(queue[s]).n \in Steps
    PROVE  /\ ~Idle(s) /\ queue' = Popped({s}) /\ Frame /\ Shape' /\ Under'
           /\ UNCHANGED <<fired, flag>> /\ Head(queue[s]).op \in Moves \ {"broadcast"}
           /\ inputs' = IF Head(queue[s]).op = "stage" THEN Head(queue[s]).n ELSE inputs
           /\ pinned' = IF Head(queue[s]).op = "copy" THEN inputs ELSE pinned
           /\ \A r \in Ranks :
                 /\ output'[r] = IF Head(queue[s]).op \in {"gather", "zero"} /\ r = s[2]
                                   THEN Head(queue[s]).n ELSE output[r]
                 /\ got'[r] = IF Head(queue[s]).op = "consume" /\ r = s[2]
                                THEN [got[r] EXCEPT ![Head(queue[s]).n] = output[r]]
                                ELSE got[r]
<1> DEFINE o == Head(queue[s])
<1>1. /\ ~Idle(s) /\ o.op \in Moves \ {"broadcast"}
      /\ inputs' = IF o.op = "stage" THEN o.n ELSE inputs
      /\ pinned' = IF o.op = "copy" THEN inputs ELSE pinned
      /\ output' = IF o.op \in {"gather", "zero"}
                     THEN [output EXCEPT ![s[2]] = o.n] ELSE output
      /\ got' = IF o.op = "consume" THEN [got EXCEPT ![s[2]][o.n] = output[s[2]]] ELSE got
  BY DEF FinishMove, Moving
<1>2. /\ queue' = [queue EXCEPT ![s] = Tail(@)] /\ Frame /\ busy' = busy \ {s}
      /\ UNCHANGED <<fired, flag>>
  BY DEF FinishMove, Frame
<1>3. /\ o.op \in {"stage", "gather", "zero"} => o.n \in Contents
      /\ o.op = "consume" => o.n \in Steps
  OBVIOUS
<1>4. /\ queue \in [Streams -> Seq(Ops)] /\ output \in [Ranks -> Contents]
      /\ got \in [Ranks -> [Steps -> Contents \cup {-1}]]
      /\ inputs \in Contents /\ pinned \in Contents
  BY DEF Shape
<1>5. queue' = Popped({s}) /\ queue' \in [Streams -> Seq(Ops)]
  <2>1. queue' = Popped({s})
    BY <1>2, <1>4 DEF Popped
  <2>2. \A t \in Streams : Popped({s})[t] \in Seq(Ops)
    BY <1>1, <1>4, QueueFacts DEF Popped
  <2> QED
    BY <2>1, <2>2 DEF Popped
<1> HIDE DEF o
<1>6. /\ inputs' \in Contents /\ pinned' \in Contents
      /\ output' \in [Ranks -> Contents]
      /\ \A r \in Ranks : output'[r] = IF o.op \in {"gather", "zero"} /\ r = s[2]
                                         THEN o.n ELSE output[r]
  BY <1>1, <1>3, <1>4
<1>7. /\ got' \in [Ranks -> [Steps -> Contents \cup {-1}]]
      /\ \A r \in Ranks : got'[r] = IF o.op = "consume" /\ r = s[2]
                                      THEN [got[r] EXCEPT ![o.n] = output[r]] ELSE got[r]
  <2>1. CASE o.op = "consume"
    <3>1. got' = [got EXCEPT ![s[2]] = [got[s[2]] EXCEPT ![o.n] = output[s[2]]]]
      BY <1>1, <2>1
    <3>2. [got[s[2]] EXCEPT ![o.n] = output[s[2]]] \in [Steps -> Contents \cup {-1}]
      BY <1>3, <1>4, <2>1
    <3> QED
      BY <3>1, <3>2, <1>4, <2>1
  <2>2. CASE o.op # "consume"
    BY <1>1, <1>4, <2>2
  <2> QED
    BY <2>1, <2>2
<1>8. Under'
  <2>1. \A t \in Streams \ {s} : queue'[t] = queue[t]
    BY <1>5 DEF Popped
  <2>2. busy' \subseteq Streams \ {s}
    BY <1>2 DEF Shape
  <2>3. \A t \in busy' : ~Idle(t)' /\ Moved(t)'
    BY <1>2, <2>1, <2>2 DEF Under, Idle, Moved
  <2>4. Tp(0) \in busy' <=> Tp(1) \in busy'
    BY <1>2 DEF Under
  <2>5. ASSUME Tp(0) \in busy' PROVE Broadcasting'
    <3>1. Broadcasting
      BY <1>2, <2>5 DEF Under
    <3>2. \A r \in Ranks : Tp(r) \in Streams \ {s}
      BY StreamFacts DEF Ranks
    <3> QED
      BY <2>1, <3>1, <3>2 DEF Broadcasting, Idle
  <2> QED
    BY <2>3, <2>4, <2>5 DEF Under
<1>9. Shape'
  <2>1. busy' \subseteq Streams
    BY <1>2 DEF Shape
  <2> QED
    BY <2>1, <1>2, <1>5, <1>6, <1>7 DEF Shape, Frame, workload, hosts, conn, rqst
<1> QED
  BY <1>1, <1>2, <1>5, <1>6, <1>7, <1>8, <1>9 DEF o

\* Nothing but busy changes.
LEMMA OnlyBusy ==
    ASSUME NEW d \in 0..MaxStep, NEW at, NEW ph, IInv(d, at, ph), busy' \subseteq Streams, Under',
           UNCHANGED <<workload, queue, recorded, fired, flag, inputs, pinned, output, got,
                       hosts, conn, rqst>>
    PROVE  IInv(d, at, ph)'
<1>1. UNCHANGED <<workload, queue, recorded, fired, flag, inputs, pinned, output, got,
                  hosts, conn, rqst>>
  OBVIOUS
<1>2. Shape /\ Cursors(d, at, ph)
  BY DEF IInv
<1>5. Shape'
  BY <1>1, <1>2 DEF Shape, workload, hosts, conn, rqst
<1>6. Follows(d, at, ph, at, ph)
  <2>1. \A s1 \in Scripted : at[s1] \in Nat /\ ph[s1] \in Nat
    BY <1>2, CursorFacts
  <2>2. \A s1 : Enqueued(d, at, ph, s1)' = Enqueued(d, at, ph, s1) /\ Idle(s1)' = Idle(s1)
    BY <1>1 DEF Enqueued, Executed, Idle
  <2> QED
    BY <2>1, <2>2 DEF Follows
<1>7. /\ Mains(d, at, ph)' /\ Counts(d, at, ph)' /\ Kinded(d)' /\ Ranked(d, at, ph)'
      /\ Owned(d)' /\ Served(d)' /\ Requests(d, at, ph)' /\ Reading(d, at, ph)'
      /\ Recorded(d)' /\ Faulty'
  BY <1>1, <1>6, HostsKept
<1>8. Dummies(d)' /\ Cursors(d, at, ph)' /\ Queues(d, at, ph)'
  BY <1>1 DEF IInv, Dummies, Real, workload, Cursors, Queues, Executed, Nth
<1>9. Device0(d, at, ph)' /\ Device1(d, at, ph)'
  BY <1>1 DEF IInv, Device0, Device1, Fires, Clean, hosts, conn, workload
<1> QED
  BY <1>5, <1>7, <1>8, <1>9 DEF IInv

\* The streams of the transport move data only together.
LEMMA Alone ==
    ASSUME NEW d \in 0..MaxStep, NEW at, NEW ph, IInv(d, at, ph), NEW s \in Streams, Moving(s)
    PROVE  s # Tp(0) /\ s # Tp(1)
<1>1. ~Idle(s) /\ Head(queue[s]).op \in Moves \ {"broadcast"}
  BY DEF Moving
<1>2. Shape /\ Cursors(d, at, ph) /\ Queues(d, at, ph) /\ Device0(d, at, ph)
  BY DEF IInv
<1>3. at[Tp(0)] > d /\ at[Tp(1)] > d
  BY <1>2 DEF Device0
<1>4. ASSUME s = Tp(0) PROVE FALSE
  <2> DEFINE k == ph[Tp(0)]
             o == Head(queue[Tp(0)])
  <2>1. /\ k \in 0..3 /\ (k = 0 => o = Await("d2h_done", at[Tp(0)] - d))
        /\ (k = 1 => o = WaitValue(1)) /\ (k = 2 => o = Op("broadcast", at[Tp(0)]))
        /\ (k = 3 => o = Record("done0"))
    BY <1>1, <1>2, <1>3, <1>4, HeadTp0
  <2>2. o.op \in {"wait_event", "wait_value", "broadcast", "record"}
    BY <2>1, OpFields
  <2> QED
    BY <2>2, <1>1, <1>4 DEF Moves
<1>5. ASSUME s = Tp(1) PROVE FALSE
  <2> DEFINE k == ph[Tp(1)]
             o == Head(queue[Tp(1)])
  <2>1. /\ k \in 0..3 /\ (k = 0 => o = WaitValue(0))
        /\ (k = 1 => o = Op("broadcast", at[Tp(1)])) /\ (k = 2 => o = WriteValue(1))
        /\ (k = 3 => o = Record("done1"))
    BY <1>1, <1>2, <1>3, <1>5, HeadTp1
  <2>2. o.op \in {"wait_value", "broadcast", "write_value", "record"}
    BY <2>1, OpFields
  <2> QED
    BY <2>2, <1>1, <1>5 DEF Moves
<1> QED
  BY <1>4, <1>5

\* An operation that moves data begins: nothing but busy changes.
LEMMA StartKeeps ==
    ASSUME NEW d \in 0..MaxStep, NEW at, NEW ph, IInv(d, at, ph), NEW s \in Streams,
           StartMove(s)
    PROVE  IInv(d, at, ph)'
<1>1. /\ ~Idle(s) /\ Head(queue[s]).op \in Moves \ {"broadcast"} /\ busy' = busy \cup {s}
      /\ UNCHANGED <<workload, queue, recorded, fired, flag, inputs, pinned, output, got,
                     hosts, conn, rqst>>
  BY DEF StartMove, Moving
<1>2. Moving(s)
  BY DEF StartMove
<1>3. Shape /\ Cursors(d, at, ph) /\ Queues(d, at, ph) /\ Under /\ Device0(d, at, ph)
  BY DEF IInv
<1>4. s # Tp(0) /\ s # Tp(1)
  BY <1>2, Alone
<1>5. Under'
  <2>1. Broadcasting' <=> Broadcasting
    BY <1>1 DEF Broadcasting, Idle
  <2> QED
    BY <1>1, <1>3, <1>4, <2>1 DEF Under, Idle, Moved
<1> QED
  BY <1>1, <1>3, <1>5, OnlyBusy DEF Shape

-----------------------------------------------------------------------------
(* The main stream of rank 0.                                              *)

LEMMA Main0Order ==
    ASSUME NEW d, NEW n, NEW k, NEW nc, NEW kc, NEW n2, NEW k2, NEW N, NEW K, NEW f, NEW F,
           NEW out, NEW O, NEW in, NEW I, NEW fi, NEW FI, NEW pin,
           Main0Does(d, n, k, N, K, nc, n2, f, F, out, O, in, I, fi, FI),
           Upstream0(d, n, k, nc, kc, n2, k2, in, pin, fi)
    PROVE  Upstream0(d, N, K, nc, kc, n2, k2, I, pin, FI) /\ N >= n
<1> USE DEF Upstream0
<1>1. CASE n > d /\ k = 6
  BY <1>1 DEF Main0Does, Main0Length, Copying, Sending, Inputs0
<1>2. CASE n > d /\ k # 6
  BY <1>2 DEF Main0Does, Main0Length, Copying, Sending, Inputs0
<1>3. CASE n <= d /\ k = 5
  BY <1>3 DEF Main0Does, Main0Length, Copying, Sending, Inputs0
<1>4. CASE n <= d /\ k # 5
  BY <1>4 DEF Main0Does, Main0Length, Copying, Sending, Inputs0
<1> QED
  BY <1>1, <1>2, <1>3, <1>4

LEMMA Main0Output ==
    ASSUME NEW d, NEW n, NEW k, NEW nc, NEW kc, NEW n2, NEW k2, NEW nr, NEW kr,
           NEW N, NEW K, NEW f, NEW F, NEW out, NEW O, NEW in, NEW I, NEW fi, NEW FI, NEW pin,
           Main0Does(d, n, k, N, K, nc, n2, f, F, out, O, in, I, fi, FI),
           Upstream0(d, n, k, nc, kc, n2, k2, in, pin, fi),
           Output0(d, n, k, nc, n2, k2, nr, kr, f, out)
    PROVE  /\ Output0(d, N, K, nc, n2, k2, nr, kr, F, O)
           /\ k = 4 => out = Val(d, n)
<1> USE DEF Upstream0, Output0
<1>1. CASE n > d /\ k = 6
  <2>1. N = n + 1 /\ K = 0 /\ F = 0 /\ O = out
    BY <1>1 DEF Main0Does, Main0Length
  <2>2. nc = n + 1 /\ kc = 0 /\ n2 = n + 1 /\ k2 = 0 /\ nr = n + 1 /\ kr = 0
    BY <1>1 DEF Copying, Sending, Producing
  <2> QED
    BY <1>1, <2>1, <2>2 DEF Producing
<1>2. CASE n > d /\ k # 6
  <2>1. N = n /\ K = k + 1 /\ k <= 5 /\ F = f /\ O = out /\ (k = 3 => f = 1)
    BY <1>2 DEF Main0Does, Main0Length
  <2>2. Producing(d, N, K, nc, n2, k2, nr, kr, F, O)
    BY <1>2, <2>1 DEF Producing
  <2>3. k = 4 => out = n
    BY <1>2 DEF Producing
  <2> QED
    BY <1>2, <2>1, <2>2, <2>3 DEF Val
<1>3. CASE n <= d /\ k = 5
  <2>1. N = n + 1 /\ K = 0 /\ F = 0 /\ O = out
    BY <1>3 DEF Main0Does, Main0Length
  <2>2. nc = d + 1 /\ kc = 0 /\ n2 = d + 1 /\ k2 = 0 /\ nr = d + 1 /\ kr = 0
    BY <1>3 DEF Copying, Sending, Producing
  <2> QED
    BY <1>3, <2>1, <2>2 DEF Producing
<1>4. CASE n <= d /\ k # 5
  <2>1. N = n /\ K = k + 1 /\ k <= 4 /\ O = (IF k = 1 THEN 0 ELSE out)
        /\ F = (IF k = 2 THEN 1 ELSE f) /\ (k = 3 => f = 1)
    BY <1>4 DEF Main0Does, Main0Length
  <2>2. Producing(d, N, K, nc, n2, k2, nr, kr, F, O)
    BY <1>4, <2>1 DEF Producing
  <2>3. k = 4 => out = 0
    BY <1>4 DEF Producing
  <2> QED
    BY <1>4, <2>1, <2>2, <2>3 DEF Val
<1> QED
  BY <1>1, <1>2, <1>3, <1>4

LEMMA Consumes ==
    ASSUME NEW d, NEW n, NEW N, NEW row, NEW ROW, NEW c, NEW C,
           Row(d, row, n, c), RowMoves(d, n, N, row, ROW, c, C)
    PROVE  Consumption(d, ROW, N, C)
<1> USE DEF Row
<1>1. \A m \in Steps : m \in Nat
  BY DEF Steps
<1>2. CASE N = n /\ c = C /\ ROW = row
  BY <1>2 DEF Consumption
<1>3. CASE N = n /\ ~c /\ C /\ ROW = [row EXCEPT ![n] = Val(d, n)]
  <2>1. \A m \in Steps : ROW[m] = IF m = n THEN Val(d, n) ELSE row[m]
    BY <1>3
  <2> QED
    BY <2>1, <1>1, <1>3 DEF Consumption
<1>4. CASE N = n + 1 /\ c /\ ~C /\ ROW = row
  BY <1>1, <1>4 DEF Consumption
<1> QED
  BY <1>2, <1>3, <1>4 DEF RowMoves

LEMMA FinishedSame ==
    ASSUME NEW d, NEW n, NEW N, NEW row, NEW ROW, NEW fin,
           RowsDone(d, n, row, fin), RowGoes(n, N, row, ROW, fin)
    PROVE  RowsDone(d, N, ROW, fin)
<1>1. \A m \in 1..fin : m \in Steps /\ m \in Nat
  BY StepAssumption DEF RowGoes, Contents, Steps
<1> QED
  BY <1>1 DEF RowsDone, RowGoes

LEMMA Main0Move ==
    ASSUME NEW d \in 0..MaxStep, NEW at, NEW ph, IInv(d, at, ph),
           NEW a, a = NextAt(d, at, ph, {Main(0)}), NEW p, p = NextPh(d, at, ph, {Main(0)}),
           Execute(Main(0)) \/ FinishMove(Main(0))
    PROVE  Main0Moved(d, at, ph, a, p)
<1> DEFINE n == at[Main(0)]
           k == ph[Main(0)]
           o == Head(queue[Main(0)])
<1>1. Shape /\ Cursors(d, at, ph) /\ Queues(d, at, ph) /\ Under /\ Device0(d, at, ph)
  BY DEF IInv
<1>2. ~Idle(Main(0)) /\ Main(0) \in Streams /\ Main(0) \in Scripted /\ Main(0)[2] = 0
      /\ Main(0) \in Streams \ {Tp(0), Tp(1)} /\ 0 \in Ranks /\ 1 \in Ranks
  <2>1. ~Idle(Main(0))
    BY DEF Execute, FinishMove, Moving
  <2> QED
    BY <2>1, StreamFacts, Seconds DEF Ranks
<1>3. /\ n \in Steps /\ k \in 0..6 /\ d \in Nat /\ n \in Nat
      /\ Size(d, Main(0), n) = Main0Length(d, n) /\ k < Main0Length(d, n)
      /\ Main0Length(d, n) = IF n > d THEN 7 ELSE 6
      /\ Ops0(d, n, k, o)
  <2>1. n \in Nat
    BY <1>1, <1>2, CursorFacts
  <2> QED
    BY <2>1, <1>1, <1>2, HeadMain0 DEF Main0Length
<1>4. /\ \A s \in Streams \ {Main(0)} : a[s] = at[s] /\ p[s] = ph[s]
      /\ IF k + 1 = Main0Length(d, n) THEN a[Main(0)] = n + 1 /\ p[Main(0)] = 0
                                      ELSE a[Main(0)] = n /\ p[Main(0)] = k + 1
  BY <1>1, <1>2, <1>3, OneMoves
<1>5. at[D2H] \in Nat /\ at[Tp(0)] \in Nat
  BY <1>1, StreamFacts, CursorFacts
<1>6. fired["d2h_done"] = at[D2H] - d - 1 /\ fired["done0"] = at[Tp(0)] - d - 1
  BY <1>1 DEF Device0, Fires
<1> HIDE DEF n, k, o
<1>7. /\ k = 0 => o.op = "stage" /\ o.n = n
      /\ n > d => /\ k = 1 => o.op = "record" /\ o.ev = "input_ready"
                  /\ k = 2 => o.op = "wait_event" /\ o.n = n - d /\ o.ev = "d2h_done"
                  /\ k = 3 => o.op = "wait_value" /\ o.n = 1
                  /\ k = 4 => o.op = "consume" /\ o.n = n
                  /\ k = 5 => o.op = "wait_event" /\ o.n = n - d /\ o.ev = "done0"
                  /\ k = 6 => o.op = "write_value" /\ o.n = 0
      /\ ~(n > d) => /\ k = 1 => o.op = "zero" /\ o.n = 0
                     /\ k = 2 => o.op = "write_value" /\ o.n = 1
                     /\ k = 3 => o.op = "wait_value" /\ o.n = 1
                     /\ k = 4 => o.op = "consume" /\ o.n = n
                     /\ k = 5 => o.op = "write_value" /\ o.n = 0
  BY <1>3, OpFields DEF Ops0
<1>8. n \in Contents /\ 0 \in Contents
  BY <1>3, StepAssumption DEF Steps, Contents
<1>9. CASE Execute(Main(0))
  <2>1. o.op = "write_value" => o.n \in {0, 1}
    BY <1>3, <1>7
  <2>2. /\ queue' = Popped({Main(0)}) /\ Frame /\ Shape' /\ Under'
        /\ UNCHANGED <<inputs, pinned, output, got>>
        /\ o.op \notin Moves
        /\ o.op = "wait_event" => fired[o.ev] >= o.n
        /\ o.op = "wait_value" => flag[0] = o.n
        /\ \A e \in Events :
              fired'[e] = IF o.op = "record" /\ o.ev = e THEN fired[e] + 1 ELSE fired[e]
        /\ \A r \in Ranks :
              flag'[r] = IF o.op = "write_value" /\ r = 0 THEN o.n ELSE flag[r]
    <3>1. /\ queue' = Popped({Main(0)}) /\ Frame /\ Shape' /\ Under'
          /\ UNCHANGED <<inputs, pinned, output, got>>
          /\ o.op \notin Moves
          /\ o.op = "wait_event" => fired[o.ev] >= o.n
          /\ o.op = "wait_value" => flag[Main(0)[2]] = o.n
          /\ \A e \in Events :
                fired'[e] = IF o.op = "record" /\ o.ev = e THEN fired[e] + 1 ELSE fired[e]
          /\ \A r \in Ranks :
                flag'[r] = IF o.op = "write_value" /\ r = Main(0)[2] THEN o.n ELSE flag[r]
      BY <1>1, <1>2, <1>9, <2>1, ExecuteIs DEF o
    <3> QED
      BY <3>1, <1>2
  <2>3. k # 0 /\ k # 4 /\ (n <= d => k # 1)
    BY <1>3, <1>7, <2>2 DEF Moves
  <2>4. /\ flag'[1] = flag[1]
        /\ \A e \in Events \ {"input_ready"} : fired'[e] = fired[e]
        /\ fired'["input_ready"] = IF n > d /\ k = 1 THEN fired["input_ready"] + 1
                                   ELSE fired["input_ready"]
        /\ flag'[0] = IF n <= d /\ k = 2 THEN 1
                      ELSE IF k + 1 = Main0Length(d, n) THEN 0 ELSE flag[0]
    <3>1. n > d \/ n <= d
      BY <1>3
    <3>2. CASE n > d
      BY <1>2, <1>3, <1>7, <2>2, <2>3, <3>2 DEF Events
    <3>3. CASE n <= d
      BY <1>2, <1>3, <1>7, <2>2, <2>3, <3>3 DEF Events
    <3> QED
      BY <3>1, <3>2, <3>3
  <2>5. (k = 3 => flag[0] = 1) /\ (n > d /\ k = 2 => at[D2H] > n) /\ (n > d /\ k = 5 => at[Tp(0)] > n)
    BY <1>3, <1>5, <1>6, <1>7, <2>2
  <2>6. Main0Does(d, n, k, a[Main(0)], p[Main(0)], at[D2H],
                  at[Tp(0)], flag[0], flag'[0], output[0], output'[0], inputs, inputs',
                  fired["input_ready"], fired'["input_ready"])
    BY <1>3, <1>4, <2>2, <2>3, <2>4, <2>5 DEF Main0Does
  <2> QED
    BY <1>2, <1>3, <1>4, <2>2, <2>3, <2>4, <2>6 DEF n, k, Main0Moved
<1>10. CASE FinishMove(Main(0))
  <2>1. /\ o.op \in {"stage", "gather", "zero"} => o.n \in Contents
        /\ o.op = "consume" => o.n \in Steps
    BY <1>3, <1>7, <1>8
  <2>2. /\ queue' = Popped({Main(0)}) /\ Frame /\ Shape' /\ Under'
        /\ UNCHANGED <<fired, flag>> /\ o.op \in Moves \ {"broadcast"}
        /\ inputs' = IF o.op = "stage" THEN o.n ELSE inputs
        /\ pinned' = IF o.op = "copy" THEN inputs ELSE pinned
        /\ \A r \in Ranks :
              /\ output'[r] = IF o.op \in {"gather", "zero"} /\ r = 0 THEN o.n ELSE output[r]
              /\ got'[r] = IF o.op = "consume" /\ r = 0
                             THEN [got[r] EXCEPT ![o.n] = output[r]] ELSE got[r]
    BY <1>1, <1>2, <1>10, <2>1, FinishIs DEF o
  <2>3. k \in {0, 4} \/ (n <= d /\ k = 1)
    BY <1>3, <1>7, <2>2 DEF Moves
  <2>4. /\ output'[1] = output[1] /\ got'[1] = got[1] /\ pinned' = pinned
        /\ inputs' = IF k = 0 THEN n ELSE inputs
        /\ output'[0] = IF n <= d /\ k = 1 THEN 0 ELSE output[0]
        /\ got'[0] = IF k = 4 THEN [got[0] EXCEPT ![n] = output[0]] ELSE got[0]
    <3>1. output'[1] = output[1] /\ got'[1] = got[1] /\ pinned' = pinned
      BY <1>2, <1>3, <1>7, <2>2, <2>3
    <3>2. inputs' = IF k = 0 THEN n ELSE inputs
      BY <1>2, <1>3, <1>7, <2>2, <2>3
    <3> output'[0] = IF o.op \in {"gather", "zero"} THEN o.n ELSE output[0]
      BY <1>2, <2>2
    <3>3. output'[0] = IF n <= d /\ k = 1 THEN 0 ELSE output[0]
      <4>1. CASE n <= d /\ k = 1
        BY <4>1, <1>3, <1>7
      <4>2. CASE ~(n <= d /\ k = 1)
        <5>1. o.op \notin {"gather", "zero"}
          BY <4>2, <1>3, <1>7, <2>3
        <5> QED
          BY <4>2, <5>1
      <4> QED
        BY <4>1, <4>2
    <3>4. CASE k = 4
      BY <3>1, <3>2, <3>3, <3>4, <1>2, <1>3, <1>7, <2>2
    <3>5. CASE k # 4
      <4>1. o.op # "consume"
        BY <3>5, <1>3, <1>7, <2>2, <2>3
      <4>2. got'[0] = IF o.op = "consume" /\ 0 = 0
                        THEN [got[0] EXCEPT ![o.n] = output[0]] ELSE got[0]
        BY <1>2, <2>2
      <4> QED
        BY <4>1, <4>2, <3>5, <3>1, <3>2, <3>3
    <3> QED
      BY <3>4, <3>5
  <2>6. Main0Does(d, n, k, a[Main(0)], p[Main(0)], at[D2H],
                  at[Tp(0)], flag[0], flag'[0], output[0], output'[0], inputs, inputs',
                  fired["input_ready"], fired'["input_ready"])
    BY <1>3, <1>4, <2>2, <2>3, <2>4 DEF Main0Does
  <2> QED
    BY <1>2, <1>3, <1>4, <2>2, <2>4, <2>6 DEF n, k, Main0Moved
<1> QED
  BY <1>9, <1>10

\* What the other components of rank 1 rest on.
LEMMA Device1Same ==
    ASSUME NEW d, NEW at, NEW ph, NEW a, NEW p, Device1(d, at, ph), Frame,
           a[Main(1)] = at[Main(1)], p[Main(1)] = ph[Main(1)],
           a[Tp(1)] = at[Tp(1)], p[Tp(1)] = ph[Tp(1)],
           flag'[1] = flag[1], output'[1] = output[1], got'[1] = got[1]
    PROVE  Device1(d, a, p)'
<1>1. Clean' <=> Clean
  BY DEF Clean, Frame, hosts, conn
<1> QED
  BY <1>1 DEF Device1

LEMMA Main0Keeps ==
    ASSUME NEW d \in 0..MaxStep, NEW at, NEW ph, IInv(d, at, ph),
           Execute(Main(0)) \/ FinishMove(Main(0))
    PROVE  IInv(d, NextAt(d, at, ph, {Main(0)}), NextPh(d, at, ph, {Main(0)}))'
<1> DEFINE a == NextAt(d, at, ph, {Main(0)})
           p == NextPh(d, at, ph, {Main(0)})
           n == at[Main(0)]
           k == ph[Main(0)]
           fi == fired["input_ready"]
           FI == fired'["input_ready"]
           nc == at[D2H]
           kc == ph[D2H]
           n2 == at[Tp(0)]
           k2 == ph[Tp(0)]
           nr == at[Reader]
           kr == ph[Reader]
           N == a[Main(0)]
           K == p[Main(0)]
           f == flag[0]
           F == flag'[0]
           out == output[0]
           O == output'[0]
<1>0. a = NextAt(d, at, ph, {Main(0)}) /\ p = NextPh(d, at, ph, {Main(0)})
  OBVIOUS
<1> HIDE DEF a, p
<1>1. Shape /\ Cursors(d, at, ph) /\ Device0(d, at, ph) /\ Device1(d, at, ph)
  BY DEF IInv
<1>2. /\ ~Idle(Main(0)) /\ queue' = Popped({Main(0)}) /\ Frame /\ Shape' /\ Under'
      /\ Main0Does(d, n, k, N, K, nc, n2, f, F,
                   out, O, inputs, inputs', fi, FI)
      /\ n \in Steps
      /\ \A s \in Streams \ {Main(0)} : a[s] = at[s] /\ p[s] = ph[s]
      /\ \A e \in Events \ {"input_ready"} : fired'[e] = fired[e]
      /\ pinned' = pinned /\ flag'[1] = flag[1] /\ output'[1] = output[1]
      /\ got'[1] = got[1]
      /\ got'[0] = IF k = 4 THEN [got[0] EXCEPT ![n] = out] ELSE got[0]
  <2>1. Main0Moved(d, at, ph, a, p)
    BY <1>0, Main0Move
  <2> QED
    BY <2>1 DEF Main0Moved
<1>3. /\ d \in Nat /\ n \in Nat \ {0} /\ k \in Nat
      /\ nc \in Nat /\ kc \in Nat /\ n2 \in Nat /\ k2 \in Nat /\ nr \in Nat /\ kr \in Nat
      /\ fi \in Nat /\ f \in Nat /\ finished \in Nat
  <2>1. n \in Nat \ {0} /\ k \in Nat /\ d \in Nat
    BY <1>1, StreamFacts, CursorFacts
  <2>2. nc \in Nat /\ kc \in Nat /\ n2 \in Nat /\ k2 \in Nat /\ nr \in Nat /\ kr \in Nat
    BY <1>1, StreamFacts, CursorFacts
  <2>3. fi \in Nat /\ f \in Nat /\ finished \in Nat
    <3>1. /\ fired \in [Events -> Nat] /\ flag \in [Ranks -> {0, 1}]
          /\ finished \in Contents
      BY <1>1 DEF Shape
    <3> QED
      BY <3>1, StepAssumption DEF Events, Ranks, Contents
  <2> QED
    BY <2>1, <2>2, <2>3
<1>4. /\ \A s \in {D2H, Tp(0), Tp(1), Reader, Main(1)} : a[s] = at[s] /\ p[s] = ph[s]
  BY <1>2, StreamFacts
<1>5. /\ \A s \in {Tp(0), Tp(1), D2H, Reader} : at[s] > d
      /\ fired["d2h_done"] = nc - d - 1
      /\ fired["done0"] = n2 - d - 1
      /\ fired["done1"] = at[Tp(1)] - d - 1
      /\ fi = IF n <= d THEN 0 ELSE IF k >= 2 THEN n - d ELSE n - d - 1
      /\ Copying(d, n, k, nc, kc, inputs, pinned)
      /\ Sending(d, n, k, nc, n2, k2)
      /\ Matched(n2, k2, at[Tp(1)], ph[Tp(1)])
      /\ Clean => /\ Producing(d, n, k, nc, n2, k2,
                               nr, kr, f, out)
                  /\ Consumption(d, got[0], n, Consumed0(k))
      /\ sync_steps => \A m \in 1..finished : m < n /\ got[0][m] = Val(d, m)
  BY <1>1 DEF Device0, Fires
<1>5a. Upstream0(d, n, k, nc, kc, n2, k2, inputs, pinned, fi)
  BY <1>3, <1>5 DEF Upstream0, Inputs0
<1> HIDE DEF n, k, fi, FI, nc, kc, n2, k2, nr, kr, N, K, f, F, out, O
<1>6. Upstream0(d, N, K, nc, kc, n2, k2, inputs', pinned, FI) /\ N >= n
  BY <1>2, <1>5a, Main0Order
<1>7. Clean' <=> Clean
  BY <1>2 DEF Clean, Frame, hosts, conn
<1>8. ASSUME Clean
      PROVE  /\ Producing(d, N, K, nc, n2, k2, nr, kr, F, O)
             /\ Consumption(d, got'[0], N, Consumed0(K))
  <2>1. Output0(d, n, k, nc, n2, k2, nr, kr, f, out)
    BY <1>3, <1>5, <1>8 DEF Output0
  <2>2. /\ Output0(d, N, K, nc, n2, k2, nr, kr, F, O)
        /\ k = 4 => out = Val(d, n)
    BY <1>2, <1>5a, <2>1, Main0Output
  <2>3. RowMoves(d, n, N, got[0], got'[0], Consumed0(k), Consumed0(K))
    <3>1. /\ k \in 0..(Main0Length(d, n) - 1) /\ Main0Length(d, n) \in {6, 7}
          /\ IF k + 1 = Main0Length(d, n) THEN N = n + 1 /\ K = 0
                                          ELSE N = n /\ K = k + 1
      BY <1>2 DEF Main0Does, Main0Length
    <3>2. CASE k = 4
      <4>1. got'[0] = [got[0] EXCEPT ![n] = Val(d, n)]
        BY <3>2, <2>2, <1>2
      <4> QED
        BY <3>1, <3>2, <4>1 DEF Consumed0, RowMoves
    <3>3. CASE k # 4
      <4>1. got'[0] = got[0]
        BY <3>3, <1>2
      <4> QED
        BY <3>1, <3>3, <4>1, <1>3 DEF Consumed0, RowMoves
    <3> QED
      BY <3>2, <3>3
  <2>4. Row(d, got[0], n, Consumed0(k))
    BY <1>1, <1>3, <1>5, <1>8 DEF Shape, Ranks, Row, Consumed0
  <2>5. Consumption(d, got'[0], N, Consumed0(K))
    BY <2>3, <2>4, Consumes
  <2> QED
    BY <2>2, <2>5 DEF Output0
<1>9. sync_steps => RowsDone(d, N, got'[0], finished)
  <2>1. RowGoes(n, N, got[0], got'[0], finished)
    <3>1. \A m \in Steps : m # n => got'[0][m] = got[0][m]
      BY <1>1, <1>2 DEF Shape, Ranks
    <3> QED
      BY <3>1, <1>1, <1>3, <1>6 DEF RowGoes, Shape, Upstream0
  <2>2. sync_steps => RowsDone(d, n, got[0], finished)
    BY <1>5 DEF RowsDone
  <2> QED
    BY <2>1, <2>2, FinishedSame
<1>10. Device0(d, a, p)'
  <2>1. N = a[Main(0)] /\ K = p[Main(0)] /\ F = flag'[0] /\ O = output'[0]
    BY DEF N, K, F, O
  <2>2. a[D2H] = nc /\ p[D2H] = kc /\ a[Tp(0)] = n2 /\ p[Tp(0)] = k2 /\ a[Reader] = nr
        /\ p[Reader] = kr /\ a[Tp(1)] = at[Tp(1)] /\ p[Tp(1)] = ph[Tp(1)]
    BY <1>4 DEF nc, kc, n2, k2, nr, kr
  <2>3. Fires(d, a, p)'
    <3>1. /\ fired'["d2h_done"] = a[D2H] - d - 1
          /\ fired'["done0"] = a[Tp(0)] - d - 1
          /\ fired'["done1"] = a[Tp(1)] - d - 1
      BY <1>2, <1>5, <2>2 DEF Events
    <3> QED
      BY <3>1, <1>6, <2>1 DEF Fires, Upstream0, Inputs0, FI
  <2>4. \A s \in {Tp(0), Tp(1), D2H, Reader} : a[s] > d
    BY <1>4, <1>5
  <2>5. /\ Copying(d, N, K, nc, kc, inputs', pinned')
        /\ Sending(d, N, K, nc, n2, k2)
        /\ Matched(n2, k2, at[Tp(1)], ph[Tp(1)])
        /\ Clean' => /\ Producing(d, N, K, nc, n2, k2, nr, kr, F, O)
                     /\ Consumption(d, got'[0], N, Consumed0(K))
    BY <1>2, <1>5, <1>6, <1>7, <1>8 DEF Upstream0
  <2>6. (sync_steps => \A m \in 1..finished : m < a[Main(0)] /\ got[0][m] = Val(d, m))'
    BY <1>2, <1>9, <2>1 DEF RowsDone, Frame, workload, hosts
  <2> QED
    BY <2>1, <2>2, <2>3, <2>4, <2>5, <2>6 DEF Device0
<1>11. Device1(d, a, p)'
  BY <1>1, <1>2, <1>4, Device1Same
<1>12. {Main(0)} \in SUBSET Scripted
  BY StreamFacts
<1>13. IInv(d, a, p)'
  BY <1>2, <1>10, <1>11, <1>12, <1>0, DeviceStep
<1> QED
  BY <1>13 DEF a, p

-----------------------------------------------------------------------------
(* The other streams.                                                      *)

LEMMA Linked ==
    ASSUME NEW d \in 0..MaxStep, NEW at, NEW ph, IInv(d, at, ph)
    PROVE  /\ Links(d, at[Main(0)], ph[Main(0)], at[D2H], ph[D2H], at[Tp(0)], ph[Tp(0)],
                    at[Tp(1)], ph[Tp(1)], inputs, pinned, fired["input_ready"],
                    fired["d2h_done"], fired["done0"], fired["done1"])
           /\ at[Reader] > d
           /\ Clean => Output0(d, at[Main(0)], ph[Main(0)], at[D2H], at[Tp(0)], ph[Tp(0)],
                               at[Reader], ph[Reader], flag[0], output[0])
<1>1. Shape /\ Cursors(d, at, ph) /\ Device0(d, at, ph)
  BY DEF IInv
<1>2. /\ Main(0) \in Scripted /\ D2H \in Scripted /\ Reader \in Scripted
      /\ Tp(0) \in Scripted /\ Tp(1) \in Scripted
  BY StreamFacts
<1>3. \A s \in Scripted : at[s] \in Nat \ {0} /\ ph[s] \in Nat /\ ph[s] < Size(d, s, at[s])
  BY <1>1, CursorFacts
<1>4. /\ \A s \in {Tp(0), Tp(1), D2H, Reader} : at[s] > d
      /\ Fires(d, at, ph)
      /\ Copying(d, at[Main(0)], ph[Main(0)], at[D2H], ph[D2H], inputs, pinned)
      /\ Sending(d, at[Main(0)], ph[Main(0)], at[D2H], at[Tp(0)], ph[Tp(0)])
      /\ Matched(at[Tp(0)], ph[Tp(0)], at[Tp(1)], ph[Tp(1)])
      /\ Clean => Producing(d, at[Main(0)], ph[Main(0)], at[D2H], at[Tp(0)], ph[Tp(0)],
                            at[Reader], ph[Reader], flag[0], output[0])
  BY <1>1 DEF Device0
<1>5. ph[Tp(0)] \in 0..3 /\ ph[Tp(1)] \in 0..3 /\ ph[D2H] \in 0..2 /\ d \in Nat
  <2>1. Size(d, Tp(0), at[Tp(0)]) = 4 /\ Size(d, Tp(1), at[Tp(1)]) = 4
        /\ Size(d, D2H, at[D2H]) = 3
    BY <1>4, Sizes DEF Size, Ranks
  <2> QED
    BY <2>1, <1>2, <1>3
<1>6. flag[0] \in Nat
  BY <1>1 DEF Shape, Ranks
<1>7. /\ fired["d2h_done"] = at[D2H] - d - 1 /\ fired["done0"] = at[Tp(0)] - d - 1
      /\ fired["done1"] = at[Tp(1)] - d - 1
      /\ fired["input_ready"] = Inputs0(d, at[Main(0)], ph[Main(0)])
  BY <1>4 DEF Fires, Inputs0
<1> QED
  BY <1>2, <1>3, <1>4, <1>5, <1>6, <1>7 DEF Links, Output0

\* A step of the device that is not of the main stream of rank 0.
LEMMA Relinked ==
    ASSUME NEW d \in 0..MaxStep, NEW at, NEW ph, NEW a, NEW p, IInv(d, at, ph), Frame,
           a[Main(0)] = at[Main(0)], p[Main(0)] = ph[Main(0)], got'[0] = got[0],
           Links(d, at[Main(0)], ph[Main(0)], a[D2H], p[D2H], a[Tp(0)], p[Tp(0)],
                 a[Tp(1)], p[Tp(1)], inputs', pinned', fired'["input_ready"],
                 fired'["d2h_done"], fired'["done0"], fired'["done1"]),
           a[Reader] > d,
           Clean => Output0(d, at[Main(0)], ph[Main(0)], a[D2H], a[Tp(0)], p[Tp(0)],
                            a[Reader], p[Reader], flag'[0], output'[0])
    PROVE  Device0(d, a, p)'
<1>1. /\ Clean => Consumption(d, got[0], at[Main(0)], Consumed0(ph[Main(0)]))
      /\ sync_steps => \A m \in 1..finished : m < at[Main(0)] /\ got[0][m] = Val(d, m)
  BY DEF IInv, Device0
<1>2. Clean' <=> Clean
  BY DEF Clean, Frame, hosts, conn
<1>3. (Clean => /\ Producing(d, a[Main(0)], p[Main(0)], a[D2H], a[Tp(0)], p[Tp(0)],
                             a[Reader], p[Reader], flag[0], output[0])
                /\ Consumption(d, got[0], a[Main(0)], Consumed0(p[Main(0)])))'
  BY <1>1, <1>2 DEF Output0
<1>4. (sync_steps => \A m \in 1..finished : m < a[Main(0)] /\ got[0][m] = Val(d, m))'
  BY <1>1 DEF Frame, workload, hosts
<1>5. Fires(d, a, p)'
  BY DEF Links, Fires, Inputs0
<1>6. (/\ \A s \in {Tp(0), Tp(1), D2H, Reader} : a[s] > d
       /\ Copying(d, a[Main(0)], p[Main(0)], a[D2H], p[D2H], inputs, pinned)
       /\ Sending(d, a[Main(0)], p[Main(0)], a[D2H], a[Tp(0)], p[Tp(0)])
       /\ Matched(a[Tp(0)], p[Tp(0)], a[Tp(1)], p[Tp(1)]))'
  BY DEF Links
<1> QED
  BY <1>3, <1>4, <1>5, <1>6 DEF Device0

LEMMA D2HLinks ==
    ASSUME NEW d, NEW n, NEW k, NEW nc, NEW kc, NEW n2, NEW k2, NEW n3, NEW k3, NEW in,
           NEW pin, NEW fi, NEW fc, NEW f0, NEW f1, NEW nr, NEW kr, NEW f, NEW out,
           NEW N, NEW K, NEW PIN, NEW FC,
           Links(d, n, k, nc, kc, n2, k2, n3, k3, in, pin, fi, fc, f0, f1),
           D2HDoes(d, nc, kc, N, K, in, pin, PIN, fi, fc, FC)
    PROVE  /\ Links(d, n, k, N, K, n2, k2, n3, k3, in, PIN, fi, FC, f0, f1)
           /\ Output0(d, n, k, nc, n2, k2, nr, kr, f, out) =>
                 Output0(d, n, k, N, n2, k2, nr, kr, f, out)
<1> USE DEF Links, D2HDoes, Advances
<1>1. n > d /\ nc = n /\ k <= 2 /\ kc \in 0..2
  <2>1. CASE kc = 0
    BY <2>1 DEF Copying, Inputs0
  <2>2. CASE kc # 0
    BY <2>2 DEF Copying, Inputs0
  <2> QED
    BY <2>1, <2>2
<1>2. CASE kc = 0
  BY <1>1, <1>2 DEF Copying, Sending, Output0, Producing, Inputs0
<1>3. CASE kc = 1
  BY <1>1, <1>3 DEF Copying, Sending, Output0, Producing
<1>4. CASE kc = 2
  BY <1>1, <1>4 DEF Copying, Sending, Output0, Producing
<1> QED
  BY <1>1, <1>2, <1>3, <1>4

LEMMA D2HMove ==
    ASSUME NEW d \in 0..MaxStep, NEW at, NEW ph, IInv(d, at, ph),
           NEW a, a = NextAt(d, at, ph, {D2H}), NEW p, p = NextPh(d, at, ph, {D2H}),
           Execute(D2H) \/ FinishMove(D2H)
    PROVE  D2HMoved(d, at, ph, a, p)
<1> DEFINE n == at[D2H]
           k == ph[D2H]
           o == Head(queue[D2H])
<1>1. Shape /\ Cursors(d, at, ph) /\ Queues(d, at, ph) /\ Under /\ Device0(d, at, ph)
      /\ n > d
  BY DEF IInv, Device0
<1>2. ~Idle(D2H) /\ D2H \in Streams /\ D2H \in Scripted /\ D2H[2] \in Ranks
      /\ D2H \in Streams \ {Tp(0), Tp(1)}
  <2>1. ~Idle(D2H)
    BY DEF Execute, FinishMove, Moving
  <2> QED
    BY <2>1, StreamFacts, Seconds DEF Ranks
<1>3. /\ n \in Steps /\ k \in 0..2 /\ d \in Nat /\ Size(d, D2H, n) = 3
      /\ k = 0 => o = Await("input_ready", n - d)
      /\ k = 1 => o = Op("copy", 0)
      /\ k = 2 => o = Record("d2h_done")
  BY <1>1, <1>2, HeadD2H
<1>4. /\ \A s \in Streams \ {D2H} : a[s] = at[s] /\ p[s] = ph[s]
      /\ Advances(3, n, k, a[D2H], p[D2H])
  BY <1>1, <1>2, <1>3, OneMoves DEF Advances
<1> HIDE DEF n, k, o
<1>5. /\ k = 0 => o.op = "wait_event" /\ o.ev = "input_ready" /\ o.n = n - d
      /\ k = 1 => o.op = "copy"
      /\ k = 2 => o.op = "record" /\ o.ev = "d2h_done"
  BY <1>3, OpFields
<1>6. CASE Execute(D2H)
  <2>1. o.op # "write_value"
    BY <1>3, <1>5
  <2>2. /\ queue' = Popped({D2H}) /\ Frame /\ Shape' /\ Under'
        /\ UNCHANGED <<inputs, pinned, output, got>>
        /\ o.op \notin Moves
        /\ o.op = "wait_event" => fired[o.ev] >= o.n
        /\ \A e \in Events :
              fired'[e] = IF o.op = "record" /\ o.ev = e THEN fired[e] + 1 ELSE fired[e]
    BY <1>1, <1>2, <1>6, <2>1, ExecuteIs DEF o
  <2>3. flag' = flag
    BY <1>6, <2>1 DEF Execute, o
  <2>4. k # 1
    BY <1>5, <2>2 DEF Moves
  <2>5. /\ k = 0 => fired["input_ready"] >= n - d
        /\ fired'["d2h_done"] = IF k = 2 THEN fired["d2h_done"] + 1 ELSE fired["d2h_done"]
        /\ \A e \in Events \ {"d2h_done"} : fired'[e] = fired[e]
    BY <1>3, <1>5, <2>2, <2>4 DEF Events
  <2>6. D2HDoes(d, n, k, a[D2H], p[D2H], inputs, pinned, pinned',
                fired["input_ready"], fired["d2h_done"], fired'["d2h_done"])
    BY <1>4, <2>2, <2>4, <2>5 DEF D2HDoes
  <2> QED
    BY <1>2, <1>4, <2>2, <2>3, <2>5, <2>6 DEF n, k, D2HMoved
<1>7. CASE FinishMove(D2H)
  <2>1. o.op \notin {"stage", "gather", "zero", "consume"}
    BY <1>3, <1>5
  <2>2. /\ queue' = Popped({D2H}) /\ Frame /\ Shape' /\ Under'
        /\ UNCHANGED <<fired, flag>> /\ o.op \in Moves \ {"broadcast"}
        /\ inputs' = IF o.op = "stage" THEN o.n ELSE inputs
        /\ pinned' = IF o.op = "copy" THEN inputs ELSE pinned
        /\ \A r \in Ranks :
              /\ output'[r] = IF o.op \in {"gather", "zero"} /\ r = D2H[2] THEN o.n ELSE output[r]
              /\ got'[r] = IF o.op = "consume" /\ r = D2H[2]
                             THEN [got[r] EXCEPT ![o.n] = output[r]] ELSE got[r]
    BY <1>1, <1>2, <1>7, <2>1, FinishIs DEF o
  <2>3. k = 1
    BY <1>3, <1>5, <2>2 DEF Moves
  <2>4. D2HDoes(d, n, k, a[D2H], p[D2H], inputs, pinned, pinned',
                fired["input_ready"], fired["d2h_done"], fired'["d2h_done"])
    BY <1>4, <1>5, <2>2, <2>3 DEF D2HDoes
  <2> QED
    BY <1>2, <1>4, <2>1, <2>2, <2>4 DEF n, k, D2HMoved
<1> QED
  BY <1>6, <1>7

LEMMA D2HKeeps ==
    ASSUME NEW d \in 0..MaxStep, NEW at, NEW ph, IInv(d, at, ph),
           Execute(D2H) \/ FinishMove(D2H)
    PROVE  IInv(d, NextAt(d, at, ph, {D2H}), NextPh(d, at, ph, {D2H}))'
<1> DEFINE a == NextAt(d, at, ph, {D2H})
           p == NextPh(d, at, ph, {D2H})
<1>0. a = NextAt(d, at, ph, {D2H}) /\ p = NextPh(d, at, ph, {D2H})
  OBVIOUS
<1> HIDE DEF a, p
<1>1. D2HMoved(d, at, ph, a, p)
  BY <1>0, D2HMove
<1>2. /\ ~Idle(D2H) /\ queue' = Popped({D2H}) /\ Frame /\ Shape' /\ Under'
      /\ D2HDoes(d, at[D2H], ph[D2H], a[D2H], p[D2H], inputs, pinned, pinned',
                 fired["input_ready"], fired["d2h_done"], fired'["d2h_done"])
  BY <1>1 DEF D2HMoved
<1>3. /\ \A s \in {Main(0), Main(1), Tp(0), Tp(1), Reader} : a[s] = at[s] /\ p[s] = ph[s]
      /\ \A e \in {"input_ready", "done0", "done1"} : fired'[e] = fired[e]
      /\ UNCHANGED <<flag, inputs>>
      /\ \A r \in {0, 1} : output'[r] = output[r] /\ got'[r] = got[r]
  BY <1>1, StreamFacts DEF D2HMoved, Events, Ranks
<1>4. /\ Links(d, at[Main(0)], ph[Main(0)], at[D2H], ph[D2H], at[Tp(0)], ph[Tp(0)],
               at[Tp(1)], ph[Tp(1)], inputs, pinned, fired["input_ready"],
               fired["d2h_done"], fired["done0"], fired["done1"])
      /\ at[Reader] > d
      /\ Clean => Output0(d, at[Main(0)], ph[Main(0)], at[D2H], at[Tp(0)], ph[Tp(0)],
                          at[Reader], ph[Reader], flag[0], output[0])
  BY Linked
<1>5. Links(d, at[Main(0)], ph[Main(0)], a[D2H], p[D2H], at[Tp(0)], ph[Tp(0)],
            at[Tp(1)], ph[Tp(1)], inputs, pinned', fired["input_ready"],
            fired'["d2h_done"], fired["done0"], fired["done1"])
  BY <1>2, <1>4, D2HLinks
<1>6. Clean => Output0(d, at[Main(0)], ph[Main(0)], a[D2H], at[Tp(0)], ph[Tp(0)],
                       at[Reader], ph[Reader], flag[0], output[0])
  BY <1>2, <1>4, D2HLinks
<1>7. Device0(d, a, p)'
  <2>1. Links(d, at[Main(0)], ph[Main(0)], a[D2H], p[D2H], a[Tp(0)], p[Tp(0)],
              a[Tp(1)], p[Tp(1)], inputs', pinned', fired'["input_ready"],
              fired'["d2h_done"], fired'["done0"], fired'["done1"])
    BY <1>3, <1>5
  <2>2. Clean => Output0(d, at[Main(0)], ph[Main(0)], a[D2H], a[Tp(0)], p[Tp(0)],
                         a[Reader], p[Reader], flag'[0], output'[0])
    BY <1>3, <1>6
  <2> QED
    BY <1>2, <1>3, <1>4, <2>1, <2>2, Relinked
<1>8. Device1(d, a, p)'
  BY <1>2, <1>3, Device1Same DEF IInv
<1>9. {D2H} \in SUBSET Scripted
  BY StreamFacts
<1>10. IInv(d, a, p)'
  BY <1>0, <1>2, <1>7, <1>8, <1>9, DeviceStep
<1> QED
  BY <1>10 DEF a, p

LEMMA Tp0Links ==
    ASSUME NEW d, NEW n, NEW k, NEW nc, NEW kc, NEW n2, NEW k2, NEW n3, NEW k3, NEW in,
           NEW pin, NEW fi, NEW fc, NEW f0, NEW f1, NEW nr, NEW kr, NEW f, NEW out,
           NEW N, NEW K, NEW F0,
           Links(d, n, k, nc, kc, n2, k2, n3, k3, in, pin, fi, fc, f0, f1),
           Tp0Does(d, n2, k2, N, K, f, fc, f0, F0)
    PROVE  /\ Links(d, n, k, nc, kc, N, K, n3, k3, in, pin, fi, fc, F0, f1)
           /\ Output0(d, n, k, nc, n2, k2, nr, kr, f, out) =>
                 Output0(d, n, k, nc, N, K, nr, kr, f, out)
<1> USE DEF Links, Tp0Does, Advances
<1>1. n > d /\ n2 = n /\ nc = n + 1 /\ k <= 5
  <2>1. CASE k2 = 0
    BY <2>1 DEF Copying, Sending
  <2>2. CASE k2 # 0
    BY <2>2 DEF Copying, Sending
  <2> QED
    BY <2>1, <2>2
<1>2. CASE k2 = 0
  BY <1>1, <1>2 DEF Sending, Matched, Output0, Producing
<1>3. CASE k2 = 1
  BY <1>1, <1>3 DEF Sending, Matched, Output0, Producing
<1>4. CASE k2 = 3
  BY <1>1, <1>4 DEF Sending, Matched, Output0, Producing
<1> QED
  BY <1>2, <1>3, <1>4

LEMMA Tp1Links ==
    ASSUME NEW d, NEW n, NEW k, NEW nc, NEW kc, NEW n2, NEW k2, NEW n3, NEW k3, NEW in,
           NEW pin, NEW fi, NEW fc, NEW f0, NEW f1, NEW f, NEW F, NEW N, NEW K, NEW F1,
           Links(d, n, k, nc, kc, n2, k2, n3, k3, in, pin, fi, fc, f0, f1),
           Tp1Does(n3, k3, N, K, f, F, f1, F1)
    PROVE  Links(d, n, k, nc, kc, n2, k2, N, K, in, pin, fi, fc, f0, F1)
<1> USE DEF Links, Tp1Does, Advances
<1>1. CASE k3 = 0
  BY <1>1 DEF Matched
<1>2. CASE k3 = 2
  BY <1>2 DEF Matched
<1>3. CASE k3 = 3
  BY <1>3 DEF Matched
<1> QED
  BY <1>1, <1>2, <1>3

LEMMA ReaderOutput ==
    ASSUME NEW d, NEW n, NEW k, NEW nc, NEW kc, NEW n2, NEW k2, NEW n3, NEW k3, NEW in,
           NEW pin, NEW fi, NEW fc, NEW f0, NEW f1, NEW nr, NEW kr, NEW f, NEW out,
           NEW N, NEW K, NEW F, NEW O,
           Links(d, n, k, nc, kc, n2, k2, n3, k3, in, pin, fi, fc, f0, f1),
           Output0(d, n, k, nc, n2, k2, nr, kr, f, out),
           ReaderDoes(nc, nr, kr, N, K, f, F, out, O)
    PROVE  Output0(d, n, k, nc, n2, k2, N, K, F, O)
<1> USE DEF Links, ReaderDoes, Advances
<1>1. n > d /\ nr = n /\ nc = n + 1 /\ k <= 3 /\ f = 0
  BY DEF Copying, Output0, Producing
<1>2. CASE kr = 0
  BY <1>1, <1>2 DEF Output0, Producing
<1>3. CASE kr = 1
  BY <1>1, <1>3 DEF Output0, Producing
<1>4. CASE kr = 2
  BY <1>1, <1>4 DEF Output0, Producing
<1> QED
  BY <1>2, <1>3, <1>4

\* What is on the reader's stream belongs to a request whose copies were made.
LEMMA ReaderFed ==
    ASSUME NEW d \in 0..MaxStep, NEW at, NEW ph, IInv(d, at, ph), ~Idle(Reader)
    PROVE  at[D2H] > at[Reader]
<1> DEFINE nr == at[Reader]
           kr == ph[Reader]
           e == Enqueued(d, at, ph, Reader)
<1>1. Shape /\ Cursors(d, at, ph) /\ Requests(d, at, ph) /\ Reading(d, at, ph) /\ nr > d
      /\ (reqSeq # 0 => reqSeq > d)
  BY DEF IInv, Device0, Served
<1>2. /\ Reader \in Scripted /\ Reader \in Streams /\ D2H \in Scripted
      /\ DummySize(Reader) = 0 /\ RealSize(Reader) = 3
  BY StreamFacts, Sizes
<1>3. nr \in Nat /\ kr \in Nat /\ d \in Nat /\ at[D2H] \in Nat /\ reqSeq \in Nat
  <2>1. nr \in Nat /\ kr \in Nat /\ d \in Nat /\ at[D2H] \in Nat
    BY <1>1, <1>2, CursorFacts
  <2>2. reqSeq \in Nat
    BY <1>1, StepAssumption DEF Shape, Contents
  <2> QED
    BY <2>1, <2>2
<1>4. e > 3 * (nr - d - 1) /\ e \in Int
  <2>1. Base(d, Reader, nr) = 3 * (nr - d - 1)
    BY <1>1, <1>2, <1>3 DEF Base
  <2>2. Len(queue[Reader]) \in Nat \ {0}
    BY <1>1, <1>2, QueueFacts
  <2>3. e = 3 * (nr - d - 1) + kr + Len(queue[Reader])
    BY <2>1 DEF Enqueued, Executed
  <2> DEFINE l == Len(queue[Reader])
  <2>4. l \in Nat \ {0} /\ e = 3 * (nr - d - 1) + kr + l
    BY <2>2, <2>3
  <2> HIDE DEF e, nr, kr, l
  <2> QED
    BY <2>4, <1>3
<1>5. ~(e = 3 * (nr - d - 1))
  BY <1>4, <1>3
<1> HIDE DEF e, nr, kr
<1>6. reqSeq # 0
  <2>1. reqSeq = 0 => e = 0
    BY <1>1 DEF Reading, e
  <2> QED
    BY <2>1, <1>1, <1>3, <1>4
<1>7. /\ req \in {"stage", "notify", "sync", "plan", "produce"} =>
            e = 3 * (reqSeq - d - 1) /\ nr = reqSeq
      /\ req = "complete" => e = 3 * (reqSeq - d)
      /\ req \in {"fail", "wake"} => e \in {3 * (reqSeq - d) - 1, 3 * (reqSeq - d) - 2}
      /\ req \in {"get", "stopped"} =>
            \/ e = 3 * (reqSeq - d) /\ nr = reqSeq + 1
            \/ e \in {3 * (reqSeq - d) - 1, 3 * (reqSeq - d) - 2}
  BY <1>1, <1>6 DEF Reading, Broken, e, nr
<1>8. req \notin {"stage", "notify", "sync", "plan", "produce"} /\ e <= 3 * (reqSeq - d)
  <2>1. req \in Requesting
    BY <1>1 DEF Shape
  <2>2. req \notin {"stage", "notify", "sync", "plan", "produce"}
    BY <1>7, <1>5
  <2> QED
    BY <2>1, <2>2, <1>3, <1>7 DEF Requesting
<1>9. at[D2H] = reqSeq + 1
  BY <1>1, <1>6, <1>8 DEF Requests
<1> QED
  BY <1>1, <1>3, <1>4, <1>8, <1>9 DEF nr

LEMMA ReaderMove ==
    ASSUME NEW d \in 0..MaxStep, NEW at, NEW ph, IInv(d, at, ph),
           NEW a, a = NextAt(d, at, ph, {Reader}), NEW p, p = NextPh(d, at, ph, {Reader}),
           Execute(Reader) \/ FinishMove(Reader)
    PROVE  ReaderMoved(d, at, ph, a, p)
<1> DEFINE n == at[Reader]
           k == ph[Reader]
           o == Head(queue[Reader])
<1>1. Shape /\ Cursors(d, at, ph) /\ Queues(d, at, ph) /\ Under /\ Device0(d, at, ph)
      /\ n > d
  BY DEF IInv, Device0
<1>2. ~Idle(Reader) /\ Reader \in Streams /\ Reader \in Scripted /\ Reader[2] = 0
      /\ Reader \in Streams \ {Tp(0), Tp(1)} /\ 0 \in Ranks /\ 1 \in Ranks
  <2>1. ~Idle(Reader)
    BY DEF Execute, FinishMove, Moving
  <2> QED
    BY <2>1, StreamFacts, Seconds DEF Ranks
<1>3. /\ n \in Steps /\ k \in 0..2 /\ d \in Nat /\ Size(d, Reader, n) = 3
      /\ k = 0 => o = WaitValue(0)
      /\ k = 1 => o = Op("gather", n)
      /\ k = 2 => o = WriteValue(1)
  BY <1>1, <1>2, HeadReader
<1>4. /\ \A s \in Streams \ {Reader} : a[s] = at[s] /\ p[s] = ph[s]
      /\ Advances(3, n, k, a[Reader], p[Reader])
  BY <1>1, <1>2, <1>3, OneMoves DEF Advances
<1>5. at[D2H] > n
  BY <1>2, ReaderFed
<1> HIDE DEF n, k, o
<1>6. /\ k = 0 => o.op = "wait_value"
      /\ k = 1 => o.op = "gather" /\ o.n = n
      /\ k = 2 => o.op = "write_value" /\ o.n = 1
  BY <1>3, OpFields
<1>7. n \in Contents
  BY <1>3, StepAssumption DEF Steps, Contents
<1>8. CASE Execute(Reader)
  <2>1. (o.op = "write_value" => o.n \in {0, 1}) /\ o.op # "record"
    BY <1>3, <1>6
  <2>2. /\ queue' = Popped({Reader}) /\ Frame /\ Shape' /\ Under'
        /\ UNCHANGED <<inputs, pinned, output, got>>
        /\ o.op \notin Moves
        /\ \A r \in Ranks :
              flag'[r] = IF o.op = "write_value" /\ r = Reader[2] THEN o.n ELSE flag[r]
    BY <1>1, <1>2, <1>8, <2>1, ExecuteIs DEF o
  <2>3. fired' = fired
    BY <1>8, <2>1 DEF Execute, o
  <2>4. k # 1
    BY <1>6, <2>2 DEF Moves
  <2>5. flag'[1] = flag[1] /\ flag'[0] = IF k = 2 THEN 1 ELSE flag[0]
    BY <1>2, <1>3, <1>6, <2>2, <2>4
  <2>6. ReaderDoes(at[D2H], n, k, a[Reader], p[Reader], flag[0], flag'[0],
                   output[0], output'[0])
    BY <1>3, <1>4, <1>5, <2>2, <2>4, <2>5 DEF ReaderDoes
  <2> QED
    BY <1>2, <1>4, <2>2, <2>3, <2>5, <2>6 DEF n, k, ReaderMoved
<1>9. CASE FinishMove(Reader)
  <2>1. /\ o.op \in {"stage", "gather", "zero"} => o.n \in Contents
        /\ o.op # "consume" /\ o.op # "stage" /\ o.op # "copy"
    BY <1>3, <1>6, <1>7
  <2>2. /\ queue' = Popped({Reader}) /\ Frame /\ Shape' /\ Under'
        /\ UNCHANGED <<fired, flag>> /\ o.op \in Moves \ {"broadcast"}
        /\ inputs' = IF o.op = "stage" THEN o.n ELSE inputs
        /\ pinned' = IF o.op = "copy" THEN inputs ELSE pinned
        /\ \A r \in Ranks :
              /\ output'[r] = IF o.op \in {"gather", "zero"} /\ r = Reader[2]
                                THEN o.n ELSE output[r]
              /\ got'[r] = IF o.op = "consume" /\ r = Reader[2]
                             THEN [got[r] EXCEPT ![o.n] = output[r]] ELSE got[r]
    BY <1>1, <1>2, <1>9, <2>1, FinishIs DEF o
  <2>3. k = 1
    BY <1>3, <1>6, <2>2 DEF Moves
  <2>4. output'[0] = n /\ output'[1] = output[1]
    BY <1>2, <1>6, <2>2, <2>3
  <2>5. \A r \in Ranks : got'[r] = got[r]
    BY <2>1, <2>2
  <2>6. ReaderDoes(at[D2H], n, k, a[Reader], p[Reader], flag[0], flag'[0],
                   output[0], output'[0])
    BY <1>4, <1>5, <2>2, <2>3, <2>4 DEF ReaderDoes
  <2> QED
    BY <1>2, <1>4, <2>1, <2>2, <2>4, <2>5, <2>6 DEF n, k, ReaderMoved
<1> QED
  BY <1>8, <1>9

LEMMA ReaderKeeps ==
    ASSUME NEW d \in 0..MaxStep, NEW at, NEW ph, IInv(d, at, ph),
           Execute(Reader) \/ FinishMove(Reader)
    PROVE  IInv(d, NextAt(d, at, ph, {Reader}), NextPh(d, at, ph, {Reader}))'
<1> DEFINE a == NextAt(d, at, ph, {Reader})
           p == NextPh(d, at, ph, {Reader})
<1>0. a = NextAt(d, at, ph, {Reader}) /\ p = NextPh(d, at, ph, {Reader})
  OBVIOUS
<1> HIDE DEF a, p
<1>1. ReaderMoved(d, at, ph, a, p)
  BY <1>0, ReaderMove
<1>2. /\ ~Idle(Reader) /\ queue' = Popped({Reader}) /\ Frame /\ Shape' /\ Under'
      /\ ReaderDoes(at[D2H], at[Reader], ph[Reader], a[Reader], p[Reader], flag[0], flag'[0],
                    output[0], output'[0])
      /\ UNCHANGED <<fired, inputs, pinned>>
      /\ flag'[1] = flag[1] /\ output'[1] = output[1]
  BY <1>1 DEF ReaderMoved
<1>3. /\ \A s \in {Main(0), Main(1), Tp(0), Tp(1), D2H} : a[s] = at[s] /\ p[s] = ph[s]
      /\ \A r \in {0, 1} : got'[r] = got[r]
  BY <1>1, StreamFacts DEF ReaderMoved, Ranks
<1>4. /\ Links(d, at[Main(0)], ph[Main(0)], at[D2H], ph[D2H], at[Tp(0)], ph[Tp(0)],
               at[Tp(1)], ph[Tp(1)], inputs, pinned, fired["input_ready"],
               fired["d2h_done"], fired["done0"], fired["done1"])
      /\ at[Reader] > d
      /\ Clean => Output0(d, at[Main(0)], ph[Main(0)], at[D2H], at[Tp(0)], ph[Tp(0)],
                          at[Reader], ph[Reader], flag[0], output[0])
  BY Linked
<1>5. Clean => Output0(d, at[Main(0)], ph[Main(0)], at[D2H], at[Tp(0)], ph[Tp(0)],
                       a[Reader], p[Reader], flag'[0], output'[0])
  BY <1>2, <1>4, ReaderOutput
<1>6. a[Reader] > d
  <2>1. at[Reader] \in Nat /\ d \in Nat
    BY StreamFacts, CursorFacts DEF IInv
  <2>2. a[Reader] = at[Reader] + 1 \/ a[Reader] = at[Reader]
    BY <1>2 DEF ReaderDoes, Advances
  <2> QED
    BY <1>4, <2>1, <2>2
<1>7. Device0(d, a, p)'
  <2>1. Links(d, at[Main(0)], ph[Main(0)], a[D2H], p[D2H], a[Tp(0)], p[Tp(0)],
              a[Tp(1)], p[Tp(1)], inputs', pinned', fired'["input_ready"],
              fired'["d2h_done"], fired'["done0"], fired'["done1"])
    BY <1>2, <1>3, <1>4
  <2>2. Clean => Output0(d, at[Main(0)], ph[Main(0)], a[D2H], a[Tp(0)], p[Tp(0)],
                         a[Reader], p[Reader], flag'[0], output'[0])
    BY <1>3, <1>5
  <2> QED
    BY <1>2, <1>3, <1>6, <2>1, <2>2, Relinked
<1>8. Device1(d, a, p)'
  BY <1>2, <1>3, Device1Same DEF IInv
<1>9. {Reader} \in SUBSET Scripted
  BY StreamFacts
<1>10. IInv(d, a, p)'
  BY <1>0, <1>2, <1>7, <1>8, <1>9, DeviceStep
<1> QED
  BY <1>10 DEF a, p

LEMMA Tp0Move ==
    ASSUME NEW d \in 0..MaxStep, NEW at, NEW ph, IInv(d, at, ph),
           NEW a, a = NextAt(d, at, ph, {Tp(0)}), NEW p, p = NextPh(d, at, ph, {Tp(0)}),
           Execute(Tp(0))
    PROVE  Tp0Moved(d, at, ph, a, p)
<1> DEFINE n == at[Tp(0)]
           k == ph[Tp(0)]
           o == Head(queue[Tp(0)])
<1>1. Shape /\ Cursors(d, at, ph) /\ Queues(d, at, ph) /\ Under /\ Device0(d, at, ph)
      /\ n > d
  BY DEF IInv, Device0
<1>2. ~Idle(Tp(0)) /\ Tp(0) \in Streams /\ Tp(0) \in Scripted /\ Tp(0)[2] = 0
  <2>1. ~Idle(Tp(0))
    BY DEF Execute
  <2> QED
    BY <2>1, StreamFacts, Seconds
<1>3. /\ n \in Steps /\ k \in 0..3 /\ d \in Nat /\ Size(d, Tp(0), n) = 4
      /\ k = 0 => o = Await("d2h_done", n - d)
      /\ k = 1 => o = WaitValue(1)
      /\ k = 2 => o = Op("broadcast", n)
      /\ k = 3 => o = Record("done0")
  BY <1>1, <1>2, HeadTp0
<1>4. /\ \A s \in Streams \ {Tp(0)} : a[s] = at[s] /\ p[s] = ph[s]
      /\ Advances(4, n, k, a[Tp(0)], p[Tp(0)])
  BY <1>1, <1>2, <1>3, OneMoves DEF Advances
<1> HIDE DEF n, k, o
<1>5. /\ k = 0 => o.op = "wait_event" /\ o.ev = "d2h_done" /\ o.n = n - d
      /\ k = 1 => o.op = "wait_value" /\ o.n = 1
      /\ k = 2 => o.op = "broadcast"
      /\ k = 3 => o.op = "record" /\ o.ev = "done0"
  BY <1>3, OpFields
<1>6. o.op # "write_value"
  BY <1>3, <1>5
<1>7. /\ queue' = Popped({Tp(0)}) /\ Frame /\ Shape' /\ Under'
      /\ UNCHANGED <<inputs, pinned, output, got>>
      /\ o.op \notin Moves
      /\ o.op = "wait_event" => fired[o.ev] >= o.n
      /\ o.op = "wait_value" => flag[Tp(0)[2]] = o.n
      /\ \A e \in Events :
            fired'[e] = IF o.op = "record" /\ o.ev = e THEN fired[e] + 1 ELSE fired[e]
  BY <1>1, <1>2, <1>6, ExecuteIs DEF o
<1>8. flag' = flag
  BY <1>6 DEF Execute, o
<1>9. k # 2
  BY <1>5, <1>7 DEF Moves
<1>10. /\ k = 0 => fired["d2h_done"] >= n - d
       /\ k = 1 => flag[0] = 1
       /\ fired'["done0"] = IF k = 3 THEN fired["done0"] + 1 ELSE fired["done0"]
       /\ \A e \in Events \ {"done0"} : fired'[e] = fired[e]
  BY <1>2, <1>3, <1>5, <1>7, <1>9 DEF Events
<1>11. Tp0Does(d, n, k, a[Tp(0)], p[Tp(0)], flag[0], fired["d2h_done"],
               fired["done0"], fired'["done0"])
  BY <1>4, <1>9, <1>10 DEF Tp0Does
<1> QED
  BY <1>2, <1>4, <1>7, <1>8, <1>10, <1>11 DEF n, k, Tp0Moved

LEMMA Tp0Keeps ==
    ASSUME NEW d \in 0..MaxStep, NEW at, NEW ph, IInv(d, at, ph), Execute(Tp(0))
    PROVE  IInv(d, NextAt(d, at, ph, {Tp(0)}), NextPh(d, at, ph, {Tp(0)}))'
<1> DEFINE a == NextAt(d, at, ph, {Tp(0)})
           p == NextPh(d, at, ph, {Tp(0)})
<1>0. a = NextAt(d, at, ph, {Tp(0)}) /\ p = NextPh(d, at, ph, {Tp(0)})
  OBVIOUS
<1> HIDE DEF a, p
<1>1. Tp0Moved(d, at, ph, a, p)
  BY <1>0, Tp0Move
<1>2. /\ ~Idle(Tp(0)) /\ queue' = Popped({Tp(0)}) /\ Frame /\ Shape' /\ Under'
      /\ Tp0Does(d, at[Tp(0)], ph[Tp(0)], a[Tp(0)], p[Tp(0)], flag[0], fired["d2h_done"],
                 fired["done0"], fired'["done0"])
      /\ UNCHANGED <<flag, inputs, pinned, output, got>>
  BY <1>1 DEF Tp0Moved
<1>3. /\ \A s \in {Main(0), Main(1), D2H, Tp(1), Reader} : a[s] = at[s] /\ p[s] = ph[s]
      /\ \A e \in {"input_ready", "d2h_done", "done1"} : fired'[e] = fired[e]
  BY <1>1, StreamFacts DEF Tp0Moved, Events
<1>4. /\ Links(d, at[Main(0)], ph[Main(0)], at[D2H], ph[D2H], at[Tp(0)], ph[Tp(0)],
               at[Tp(1)], ph[Tp(1)], inputs, pinned, fired["input_ready"],
               fired["d2h_done"], fired["done0"], fired["done1"])
      /\ at[Reader] > d
      /\ Clean => Output0(d, at[Main(0)], ph[Main(0)], at[D2H], at[Tp(0)], ph[Tp(0)],
                          at[Reader], ph[Reader], flag[0], output[0])
  BY Linked
<1>5. Links(d, at[Main(0)], ph[Main(0)], at[D2H], ph[D2H], a[Tp(0)], p[Tp(0)],
            at[Tp(1)], ph[Tp(1)], inputs, pinned, fired["input_ready"],
            fired["d2h_done"], fired'["done0"], fired["done1"])
  BY <1>2, <1>4, Tp0Links
<1>6. Clean => Output0(d, at[Main(0)], ph[Main(0)], at[D2H], a[Tp(0)], p[Tp(0)],
                       at[Reader], ph[Reader], flag[0], output[0])
  BY <1>2, <1>4, Tp0Links
<1>7. Device0(d, a, p)'
  <2>1. Links(d, at[Main(0)], ph[Main(0)], a[D2H], p[D2H], a[Tp(0)], p[Tp(0)],
              a[Tp(1)], p[Tp(1)], inputs', pinned', fired'["input_ready"],
              fired'["d2h_done"], fired'["done0"], fired'["done1"])
    BY <1>2, <1>3, <1>5
  <2>2. Clean => Output0(d, at[Main(0)], ph[Main(0)], a[D2H], a[Tp(0)], p[Tp(0)],
                         a[Reader], p[Reader], flag'[0], output'[0])
    BY <1>2, <1>3, <1>6
  <2> QED
    BY <1>2, <1>3, <1>4, <2>1, <2>2, Relinked
<1>8. Device1(d, a, p)'
  BY <1>2, <1>3, Device1Same DEF IInv
<1>9. {Tp(0)} \in SUBSET Scripted
  BY StreamFacts
<1>10. IInv(d, a, p)'
  BY <1>0, <1>2, <1>7, <1>8, <1>9, DeviceStep
<1> QED
  BY <1>10 DEF a, p

-----------------------------------------------------------------------------
(* Rank 1.                                                                 *)

LEMMA Linked1 ==
    ASSUME NEW d \in 0..MaxStep, NEW at, NEW ph, IInv(d, at, ph), Serialize
    PROVE  /\ Links1(d, at[Main(1)], ph[Main(1)], at[Tp(1)], ph[Tp(1)], flag[1])
           /\ Clean => Output1(d, at[Main(1)], ph[Main(1)], at[Tp(1)], ph[Tp(1)], output[1])
<1>1. /\ Cursors(d, at, ph) /\ Device1(d, at, ph)
      /\ Links(d, at[Main(0)], ph[Main(0)], at[D2H], ph[D2H], at[Tp(0)], ph[Tp(0)],
               at[Tp(1)], ph[Tp(1)], inputs, pinned, fired["input_ready"],
               fired["d2h_done"], fired["done0"], fired["done1"])
  BY Linked DEF IInv
<1>2. at[Main(1)] \in Nat \ {0} /\ ph[Main(1)] \in Nat
  BY <1>1, StreamFacts, CursorFacts
<1>3. d \in Nat /\ at[Tp(1)] \in Nat /\ ph[Tp(1)] \in 0..3 /\ at[Tp(1)] > d
  BY <1>1 DEF Links
<1> QED
  BY <1>1, <1>2, <1>3 DEF Device1, Links1, Output1

\* A step of the device that is not of the main stream of rank 1.
LEMMA Relinked1 ==
    ASSUME NEW d \in 0..MaxStep, NEW at, NEW ph, NEW a, NEW p, IInv(d, at, ph), Frame,
           a[Main(1)] = at[Main(1)], p[Main(1)] = ph[Main(1)], got'[1] = got[1],
           Serialize => Links1(d, at[Main(1)], ph[Main(1)], a[Tp(1)], p[Tp(1)], flag'[1]),
           Serialize /\ Clean => Output1(d, at[Main(1)], ph[Main(1)], a[Tp(1)], p[Tp(1)],
                                         output'[1])
    PROVE  Device1(d, a, p)'
<1>1. Serialize /\ Clean => Consumption(d, got[1], at[Main(1)],
                                        Consumed1(d, at[Main(1)], ph[Main(1)]))
  BY DEF IInv, Device1
<1>2. Clean' <=> Clean
  BY DEF Clean, Frame, hosts, conn
<1> QED
  BY <1>1, <1>2 DEF Device1, Links1, Output1

LEMMA Tp1Receives ==
    ASSUME NEW d, NEW n, NEW k, NEW n3, NEW k3, NEW N, NEW K, NEW f, NEW F, NEW f1, NEW F1,
           NEW out, Links1(d, n, k, n3, k3, f), n > d, Tp1Does(n3, k3, N, K, f, F, f1, F1)
    PROVE  /\ Links1(d, n, k, N, K, F)
           /\ Output1(d, n, k, n3, k3, out) => Output1(d, n, k, N, K, out)
<1> USE DEF Links1, Tp1Does, Advances
<1>1. CASE k3 = 0
  BY <1>1 DEF Receiving, Output1, Received
<1>2. CASE k3 = 2
  BY <1>2 DEF Receiving, Output1, Received
<1>3. CASE k3 = 3
  BY <1>3 DEF Receiving, Output1, Received
<1> QED
  BY <1>1, <1>2, <1>3

\* The transport of rank 1 has something to do only behind the dummy steps.
LEMMA Tp1Behind ==
    ASSUME NEW d \in 0..MaxStep, NEW at, NEW ph, IInv(d, at, ph), ~Idle(Tp(1)), Serialize
    PROVE  at[Main(1)] > d
<1> DEFINE n3 == at[Tp(1)]
           k3 == ph[Tp(1)]
           l == Len(queue[Tp(1)])
           c == recorded["done1"]
<1>1. /\ Shape /\ Cursors(d, at, ph) /\ Counts(d, at, ph) /\ Ranked(d, at, ph) /\ n3 > d
  BY DEF IInv, Device0
<1>2. /\ Tp(1) \in Scripted /\ Tp(1) \in Streams /\ 1 \in Ranks /\ Done(1) = "done1"
      /\ DummySize(Tp(1)) = 0 /\ RealSize(Tp(1)) = 4
  <2>1. 1 \in Ranks
    BY DEF Ranks
  <2> QED
    BY <2>1, StreamFacts, Sizes DEF Done
<1>3. n3 \in Nat /\ k3 \in Nat /\ d \in Nat
  BY <1>1, <1>2, CursorFacts
<1>4. l \in Nat \ {0}
  BY <1>1, <1>2, QueueFacts
<1>5. 4 * (n3 - d - 1) + k3 + l = 4 * c /\ c \in Nat
  <2>1. Base(d, Tp(1), n3) = 4 * (n3 - d - 1)
    BY <1>1, <1>2, <1>3 DEF Base
  <2>2. Enqueued(d, at, ph, Tp(1)) = 4 * c
    BY <1>1, <1>2 DEF Counts, Transfers
  <2>3. c \in Nat
    BY <1>1 DEF Shape, Events
  <2> QED
    BY <2>1, <2>2, <2>3 DEF Enqueued, Executed
<1>6. Counted(d, step[1], pc[1], {"sync", "prepare", "handoff", "ready", "status",
                                  "status_failed", "transport"}, {"failed"}, c)
  BY <1>1, <1>2 DEF Counts, Transfers
<1>7. step[1] \in Nat
  BY <1>1, <1>2, StepAssumption DEF Shape, Contents
<1>8. n3 > d
  BY <1>1
<1> HIDE DEF n3, k3, l, c
<1>9. c >= 1
  BY <1>3, <1>4, <1>5, <1>8
<1>10. step[1] > d /\ (pc[1] # "sync" \/ step[1] > d + 1)
  BY <1>3, <1>6, <1>7, <1>9 DEF Counted
<1> QED
  BY <1>1, <1>10 DEF Ranked

LEMMA Tp1Move ==
    ASSUME NEW d \in 0..MaxStep, NEW at, NEW ph, IInv(d, at, ph),
           NEW a, a = NextAt(d, at, ph, {Tp(1)}), NEW p, p = NextPh(d, at, ph, {Tp(1)}),
           Execute(Tp(1))
    PROVE  Tp1Moved(d, at, ph, a, p)
<1> DEFINE n == at[Tp(1)]
           k == ph[Tp(1)]
           o == Head(queue[Tp(1)])
<1>1. Shape /\ Cursors(d, at, ph) /\ Queues(d, at, ph) /\ Under /\ Device0(d, at, ph)
      /\ n > d
  BY DEF IInv, Device0
<1>2. ~Idle(Tp(1)) /\ Tp(1) \in Streams /\ Tp(1) \in Scripted /\ Tp(1)[2] = 1
      /\ 0 \in Ranks /\ 1 \in Ranks
  <2>1. ~Idle(Tp(1))
    BY DEF Execute
  <2> QED
    BY <2>1, StreamFacts, Seconds DEF Ranks
<1>3. /\ n \in Steps /\ k \in 0..3 /\ d \in Nat /\ Size(d, Tp(1), n) = 4
      /\ k = 0 => o = WaitValue(0)
      /\ k = 1 => o = Op("broadcast", n)
      /\ k = 2 => o = WriteValue(1)
      /\ k = 3 => o = Record("done1")
  BY <1>1, <1>2, HeadTp1
<1>4. /\ \A s \in Streams \ {Tp(1)} : a[s] = at[s] /\ p[s] = ph[s]
      /\ Advances(4, n, k, a[Tp(1)], p[Tp(1)])
  BY <1>1, <1>2, <1>3, OneMoves DEF Advances
<1> HIDE DEF n, k, o
<1>5. /\ k = 0 => o.op = "wait_value" /\ o.n = 0
      /\ k = 1 => o.op = "broadcast"
      /\ k = 2 => o.op = "write_value" /\ o.n = 1
      /\ k = 3 => o.op = "record" /\ o.ev = "done1"
  BY <1>3, OpFields
<1>6. o.op = "write_value" => o.n \in {0, 1}
  BY <1>3, <1>5
<1>7. /\ queue' = Popped({Tp(1)}) /\ Frame /\ Shape' /\ Under'
      /\ UNCHANGED <<inputs, pinned, output, got>>
      /\ o.op \notin Moves
      /\ o.op = "wait_value" => flag[Tp(1)[2]] = o.n
      /\ \A e \in Events :
            fired'[e] = IF o.op = "record" /\ o.ev = e THEN fired[e] + 1 ELSE fired[e]
      /\ \A r \in Ranks :
            flag'[r] = IF o.op = "write_value" /\ r = Tp(1)[2] THEN o.n ELSE flag[r]
  BY <1>1, <1>2, <1>6, ExecuteIs DEF o
<1>8. k # 1
  BY <1>5, <1>7 DEF Moves
<1>9. /\ k = 0 => flag[1] = 0
      /\ flag'[1] = IF k = 2 THEN 1 ELSE flag[1]
      /\ flag'[0] = flag[0]
  BY <1>2, <1>3, <1>5, <1>7, <1>8
<1>10. /\ fired'["done1"] = IF k = 3 THEN fired["done1"] + 1 ELSE fired["done1"]
       /\ \A e \in Events \ {"done1"} : fired'[e] = fired[e]
  BY <1>3, <1>5, <1>7, <1>8 DEF Events
<1>11. Tp1Does(n, k, a[Tp(1)], p[Tp(1)], flag[1], flag'[1], fired["done1"], fired'["done1"])
  BY <1>4, <1>8, <1>9, <1>10 DEF Tp1Does
<1> QED
  BY <1>2, <1>4, <1>7, <1>9, <1>10, <1>11 DEF n, k, Tp1Moved

LEMMA Tp1Keeps ==
    ASSUME NEW d \in 0..MaxStep, NEW at, NEW ph, IInv(d, at, ph), Execute(Tp(1))
    PROVE  IInv(d, NextAt(d, at, ph, {Tp(1)}), NextPh(d, at, ph, {Tp(1)}))'
<1> DEFINE a == NextAt(d, at, ph, {Tp(1)})
           p == NextPh(d, at, ph, {Tp(1)})
<1>0. a = NextAt(d, at, ph, {Tp(1)}) /\ p = NextPh(d, at, ph, {Tp(1)})
  OBVIOUS
<1> HIDE DEF a, p
<1>1. Tp1Moved(d, at, ph, a, p)
  BY <1>0, Tp1Move
<1>2. /\ ~Idle(Tp(1)) /\ queue' = Popped({Tp(1)}) /\ Frame /\ Shape' /\ Under'
      /\ Tp1Does(at[Tp(1)], ph[Tp(1)], a[Tp(1)], p[Tp(1)], flag[1], flag'[1], fired["done1"],
                 fired'["done1"])
      /\ UNCHANGED <<inputs, pinned, output, got>> /\ flag'[0] = flag[0]
  BY <1>1 DEF Tp1Moved
<1>3. /\ \A s \in {Main(0), Main(1), D2H, Tp(0), Reader} : a[s] = at[s] /\ p[s] = ph[s]
      /\ \A e \in {"input_ready", "d2h_done", "done0"} : fired'[e] = fired[e]
  BY <1>1, StreamFacts DEF Tp1Moved, Events
<1>4. /\ Links(d, at[Main(0)], ph[Main(0)], at[D2H], ph[D2H], at[Tp(0)], ph[Tp(0)],
               at[Tp(1)], ph[Tp(1)], inputs, pinned, fired["input_ready"],
               fired["d2h_done"], fired["done0"], fired["done1"])
      /\ at[Reader] > d
      /\ Clean => Output0(d, at[Main(0)], ph[Main(0)], at[D2H], at[Tp(0)], ph[Tp(0)],
                          at[Reader], ph[Reader], flag[0], output[0])
  BY Linked
<1>5. Links(d, at[Main(0)], ph[Main(0)], at[D2H], ph[D2H], at[Tp(0)], ph[Tp(0)],
            a[Tp(1)], p[Tp(1)], inputs, pinned, fired["input_ready"],
            fired["d2h_done"], fired["done0"], fired'["done1"])
  BY <1>2, <1>4, Tp1Links
<1>6. Device0(d, a, p)'
  <2>1. Links(d, at[Main(0)], ph[Main(0)], a[D2H], p[D2H], a[Tp(0)], p[Tp(0)],
              a[Tp(1)], p[Tp(1)], inputs', pinned', fired'["input_ready"],
              fired'["d2h_done"], fired'["done0"], fired'["done1"])
    BY <1>2, <1>3, <1>5
  <2>2. Clean => Output0(d, at[Main(0)], ph[Main(0)], a[D2H], a[Tp(0)], p[Tp(0)],
                         a[Reader], p[Reader], flag'[0], output'[0])
    BY <1>2, <1>3, <1>4
  <2> QED
    BY <1>2, <1>3, <1>4, <2>1, <2>2, Relinked
<1>7. ASSUME Serialize
      PROVE  /\ Links1(d, at[Main(1)], ph[Main(1)], a[Tp(1)], p[Tp(1)], flag'[1])
             /\ Clean => Output1(d, at[Main(1)], ph[Main(1)], a[Tp(1)], p[Tp(1)], output[1])
  <2>1. /\ Links1(d, at[Main(1)], ph[Main(1)], at[Tp(1)], ph[Tp(1)], flag[1])
        /\ Clean => Output1(d, at[Main(1)], ph[Main(1)], at[Tp(1)], ph[Tp(1)], output[1])
    BY <1>7, Linked1
  <2>2. at[Main(1)] > d
    BY <1>2, <1>7, Tp1Behind
  <2> QED
    BY <1>2, <2>1, <2>2, Tp1Receives
<1>8. Device1(d, a, p)'
  BY <1>2, <1>3, <1>7, Relinked1
<1>9. {Tp(1)} \in SUBSET Scripted
  BY StreamFacts
<1>10. IInv(d, a, p)'
  BY <1>0, <1>2, <1>6, <1>8, <1>9, DeviceStep
<1> QED
  BY <1>10 DEF a, p

LEMMA Main1Order ==
    ASSUME NEW d, NEW n, NEW k, NEW n3, NEW k3, NEW N, NEW K, NEW f, NEW F, NEW out, NEW O,
           Links1(d, n, k, n3, k3, f), Main1Does(d, n, k, N, K, n3, f, F, out, O)
    PROVE  /\ Links1(d, N, K, n3, k3, F)
           /\ Output1(d, n, k, n3, k3, out) =>
                 /\ Output1(d, N, K, n3, k3, O)
                 /\ k = (IF n > d THEN 1 ELSE 3) => out = Val(d, n)
<1> USE DEF Links1, Main1Does, Main1Length, Advances, Output1
<1>1. CASE n > d /\ k = 3
  BY <1>1 DEF Receiving, Received
<1>2. CASE n > d /\ k # 3
  <2>1. N = n /\ K = k + 1 /\ F = f /\ O = out
    BY <1>2
  <2>2. Receiving(d, n, k + 1, n3, k3, f)
    <3>1. CASE k = 0
      BY <3>1, <1>2 DEF Receiving
    <3>2. CASE k = 1
      BY <3>2, <1>2 DEF Receiving
    <3>3. CASE k = 2
      BY <3>3, <1>2 DEF Receiving
    <3> QED
      BY <3>1, <3>2, <3>3, <1>2
  <2>3. Received(d, n, k, n3, k3, out) => /\ Received(d, n, k + 1, n3, k3, out)
                                          /\ k = 1 => out = n
    BY <1>2 DEF Receiving, Received
  <2> QED
    BY <1>2, <2>1, <2>2, <2>3 DEF Val
<1>3. CASE n <= d /\ k = 4
  BY <1>3 DEF Receiving, Received
<1>4. CASE n <= d /\ k # 4
  <2>1. N = n /\ K = k + 1 /\ O = (IF k = 0 THEN 0 ELSE out) /\ F = (IF k = 1 THEN 1 ELSE f)
    <3>1. Main1Length(d, n) = 5 /\ k + 1 # 5 /\ k \in 0..3
      BY <1>4
    <3>2. F = IF k = 1 THEN 1 ELSE f
      BY <3>1, <1>4
    <3> QED
      BY <3>1, <3>2, <1>4
  <2>2. Receiving(d, n, K, n3, k3, F)
    <3>1. Receiving(d, n, k, n3, k3, f) /\ k \in 0..3 /\ (k = 2 => f = 1)
      BY <1>4
    <3>2. n3 = d + 1 /\ k3 = 0 /\ f = IF k >= 2 THEN 1 ELSE 0
      BY <1>4, <3>1 DEF Receiving
    <3>3. F = IF K >= 2 THEN 1 ELSE 0
      BY <2>1, <3>1, <3>2
    <3> QED
      BY <1>4, <3>2, <3>3 DEF Receiving
  <2>3. Received(d, n, k, n3, k3, out) => /\ Received(d, n, K, n3, k3, O)
                                          /\ k = 3 => out = 0
    BY <1>4, <2>1 DEF Received
  <2> QED
    BY <1>4, <2>1, <2>2, <2>3 DEF Val
<1> QED
  BY <1>1, <1>2, <1>3, <1>4

LEMMA Main1Move ==
    ASSUME NEW d \in 0..MaxStep, NEW at, NEW ph, IInv(d, at, ph),
           NEW a, a = NextAt(d, at, ph, {Main(1)}), NEW p, p = NextPh(d, at, ph, {Main(1)}),
           Execute(Main(1)) \/ FinishMove(Main(1))
    PROVE  Main1Moved(d, at, ph, a, p)
<1> DEFINE n == at[Main(1)]
           k == ph[Main(1)]
           o == Head(queue[Main(1)])
<1>1. Shape /\ Cursors(d, at, ph) /\ Queues(d, at, ph) /\ Under /\ Device0(d, at, ph)
  BY DEF IInv
<1>2. ~Idle(Main(1)) /\ Main(1) \in Streams /\ Main(1) \in Scripted /\ Main(1)[2] = 1
      /\ Main(1) \in Streams \ {Tp(0), Tp(1)} /\ 0 \in Ranks /\ 1 \in Ranks
  <2>1. ~Idle(Main(1))
    BY DEF Execute, FinishMove, Moving
  <2> QED
    BY <2>1, StreamFacts, Seconds DEF Ranks
<1>3. /\ n \in Steps /\ k \in 0..4 /\ d \in Nat /\ n \in Nat
      /\ Size(d, Main(1), n) = Main1Length(d, n) /\ k < Main1Length(d, n)
      /\ Main1Length(d, n) = IF n > d THEN 4 ELSE 5
      /\ Ops1(d, n, k, o)
  <2>1. n \in Nat
    BY <1>1, <1>2, CursorFacts
  <2> QED
    BY <2>1, <1>1, <1>2, HeadMain1 DEF Main1Length
<1>4. /\ \A s \in Streams \ {Main(1)} : a[s] = at[s] /\ p[s] = ph[s]
      /\ Advances(Main1Length(d, n), n, k, a[Main(1)], p[Main(1)])
  BY <1>1, <1>2, <1>3, OneMoves DEF Advances
<1>5. at[Tp(1)] \in Nat
  BY <1>1, StreamFacts, CursorFacts
<1>6. fired["done1"] = at[Tp(1)] - d - 1
  BY <1>1 DEF Device0, Fires
<1> HIDE DEF n, k, o
<1>7. /\ n > d => /\ k = 0 => o.op = "wait_value" /\ o.n = 1
                  /\ k = 1 => o.op = "consume" /\ o.n = n
                  /\ k = 2 => o.op = "wait_event" /\ o.n = n - d /\ o.ev = "done1"
                  /\ k = 3 => o.op = "write_value" /\ o.n = 0
      /\ ~(n > d) => /\ k = 0 => o.op = "zero" /\ o.n = 0
                     /\ k = 1 => o.op = "write_value" /\ o.n = 1
                     /\ k = 2 => o.op = "wait_value" /\ o.n = 1
                     /\ k = 3 => o.op = "consume" /\ o.n = n
                     /\ k = 4 => o.op = "write_value" /\ o.n = 0
  BY <1>3, OpFields DEF Ops1
<1>8. 0 \in Contents
  BY StepAssumption DEF Contents
<1>9. CASE Execute(Main(1))
  <2>1. (o.op = "write_value" => o.n \in {0, 1}) /\ o.op # "record"
    BY <1>3, <1>7
  <2>2. /\ queue' = Popped({Main(1)}) /\ Frame /\ Shape' /\ Under'
        /\ UNCHANGED <<inputs, pinned, output, got>>
        /\ o.op \notin Moves
        /\ o.op = "wait_event" => fired[o.ev] >= o.n
        /\ o.op = "wait_value" => flag[Main(1)[2]] = o.n
        /\ \A r \in Ranks :
              flag'[r] = IF o.op = "write_value" /\ r = Main(1)[2] THEN o.n ELSE flag[r]
    BY <1>1, <1>2, <1>9, <2>1, ExecuteIs DEF o
  <2>3. fired' = fired
    BY <1>9, <2>1 DEF Execute, o
  <2>4. k # (IF n > d THEN 1 ELSE 3) /\ (n <= d => k # 0)
    BY <1>3, <1>7, <2>2 DEF Moves
  <2>5. flag'[0] = flag[0] /\ flag'[1] = IF o.op = "write_value" THEN o.n ELSE flag[1]
    BY <1>2, <2>2
  <2>6. flag'[1] = IF n <= d /\ k = 1 THEN 1
                   ELSE IF k + 1 = Main1Length(d, n) THEN 0 ELSE flag[1]
    <3>1. CASE n > d
      BY <1>3, <1>7, <2>4, <2>5, <3>1
    <3>2. CASE n <= d
      BY <1>3, <1>7, <2>4, <2>5, <3>2
    <3> QED
      BY <1>3, <3>1, <3>2
  <2>7. (k = (IF n > d THEN 0 ELSE 2) => flag[1] = 1) /\ (n > d /\ k = 2 => at[Tp(1)] > n)
    BY <1>2, <1>3, <1>5, <1>6, <1>7, <2>2
  <2>8. Main1Does(d, n, k, a[Main(1)], p[Main(1)], at[Tp(1)],
                  flag[1], flag'[1], output[1], output'[1])
    BY <1>3, <1>4, <2>2, <2>4, <2>6, <2>7 DEF Main1Does
  <2> QED
    BY <1>2, <1>4, <2>2, <2>3, <2>4, <2>5, <2>8 DEF n, k, Main1Moved
<1>10. CASE FinishMove(Main(1))
  <2>1. /\ o.op \in {"stage", "gather", "zero"} => o.n \in Contents
        /\ o.op = "consume" => o.n \in Steps
        /\ o.op # "stage" /\ o.op # "copy"
    BY <1>3, <1>7, <1>8
  <2>2. /\ queue' = Popped({Main(1)}) /\ Frame /\ Shape' /\ Under'
        /\ UNCHANGED <<fired, flag>> /\ o.op \in Moves \ {"broadcast"}
        /\ inputs' = IF o.op = "stage" THEN o.n ELSE inputs
        /\ pinned' = IF o.op = "copy" THEN inputs ELSE pinned
        /\ \A r \in Ranks :
              /\ output'[r] = IF o.op \in {"gather", "zero"} /\ r = Main(1)[2]
                                THEN o.n ELSE output[r]
              /\ got'[r] = IF o.op = "consume" /\ r = Main(1)[2]
                             THEN [got[r] EXCEPT ![o.n] = output[r]] ELSE got[r]
    BY <1>1, <1>2, <1>10, <2>1, FinishIs DEF o
  <2>3. k = (IF n > d THEN 1 ELSE 3) \/ (n <= d /\ k = 0)
    BY <1>3, <1>7, <2>2 DEF Moves
  <2>4. /\ output'[0] = output[0] /\ got'[0] = got[0]
        /\ output'[1] = IF o.op \in {"gather", "zero"} THEN o.n ELSE output[1]
        /\ got'[1] = IF o.op = "consume" /\ 1 = 1
                       THEN [got[1] EXCEPT ![o.n] = output[1]] ELSE got[1]
    <3>1. output'[0] = output[0] /\ got'[0] = got[0]
      <4>1. output'[0] = IF o.op \in {"gather", "zero"} /\ 0 = Main(1)[2]
                           THEN o.n ELSE output[0]
        BY <1>2, <2>2
      <4>2. got'[0] = IF o.op = "consume" /\ 0 = Main(1)[2]
                        THEN [got[0] EXCEPT ![o.n] = output[0]] ELSE got[0]
        BY <1>2, <2>2
      <4>3. ~(0 = Main(1)[2])
        BY <1>2
      <4> QED
        BY <4>1, <4>2, <4>3
    <3>2. output'[1] = IF o.op \in {"gather", "zero"} THEN o.n ELSE output[1]
      BY <1>2, <2>2
    <3>3. got'[1] = IF o.op = "consume" /\ 1 = 1
                      THEN [got[1] EXCEPT ![o.n] = output[1]] ELSE got[1]
      BY <1>2, <2>2
    <3> QED
      BY <3>1, <3>2, <3>3
  <2>5. output'[1] = IF n <= d /\ k = 0 THEN 0 ELSE output[1]
    <3>1. CASE n <= d /\ k = 0
      BY <3>1, <1>3, <1>7, <2>4
    <3>2. CASE ~(n <= d /\ k = 0)
      <4>1. o.op \notin {"gather", "zero"}
        BY <3>2, <1>3, <1>7, <2>3
      <4> QED
        BY <3>2, <4>1, <2>4
    <3> QED
      BY <3>1, <3>2
  <2>6. got'[1] = IF k = (IF n > d THEN 1 ELSE 3)
                    THEN [got[1] EXCEPT ![n] = output[1]] ELSE got[1]
    <3>1. CASE k = (IF n > d THEN 1 ELSE 3)
      <4>1. o.op = "consume" /\ o.n = n
        BY <3>1, <1>3, <1>7
      <4> QED
        BY <3>1, <4>1, <2>4
    <3>2. CASE ~(k = (IF n > d THEN 1 ELSE 3))
      <4>1. o.op # "consume"
        BY <3>2, <1>3, <1>7, <2>3
      <4> QED
        BY <3>2, <4>1, <2>4
    <3> QED
      BY <3>1, <3>2
  <2>7. flag[1] = (IF n <= d /\ k = 1 THEN 1
                   ELSE IF k + 1 = Main1Length(d, n) THEN 0 ELSE flag[1])
    BY <1>3, <2>3
  <2>8. Main1Does(d, n, k, a[Main(1)], p[Main(1)], at[Tp(1)],
                  flag[1], flag'[1], output[1], output'[1])
    BY <1>3, <1>4, <2>2, <2>3, <2>5, <2>7 DEF Main1Does
  <2> QED
    BY <1>2, <1>4, <2>1, <2>2, <2>4, <2>6, <2>8 DEF n, k, Main1Moved
<1> QED
  BY <1>9, <1>10

LEMMA Main1Keeps ==
    ASSUME NEW d \in 0..MaxStep, NEW at, NEW ph, IInv(d, at, ph),
           Execute(Main(1)) \/ FinishMove(Main(1))
    PROVE  IInv(d, NextAt(d, at, ph, {Main(1)}), NextPh(d, at, ph, {Main(1)}))'
<1> DEFINE a == NextAt(d, at, ph, {Main(1)})
           p == NextPh(d, at, ph, {Main(1)})
           n == at[Main(1)]
           k == ph[Main(1)]
           N == a[Main(1)]
           K == p[Main(1)]
<1>0. a = NextAt(d, at, ph, {Main(1)}) /\ p = NextPh(d, at, ph, {Main(1)})
  OBVIOUS
<1> HIDE DEF a, p
<1>1. Main1Moved(d, at, ph, a, p)
  BY <1>0, Main1Move
<1>2. /\ ~Idle(Main(1)) /\ queue' = Popped({Main(1)}) /\ Frame /\ Shape' /\ Under'
      /\ Main1Does(d, n, k, N, K, at[Tp(1)], flag[1], flag'[1], output[1], output'[1])
      /\ UNCHANGED <<fired, inputs, pinned>>
      /\ flag'[0] = flag[0] /\ output'[0] = output[0] /\ got'[0] = got[0]
      /\ got'[1] = IF k = (IF n > d THEN 1 ELSE 3)
                     THEN [got[1] EXCEPT ![n] = output[1]] ELSE got[1]
  BY <1>1 DEF Main1Moved
<1>3. \A s \in {Main(0), Tp(0), D2H, Tp(1), Reader} : a[s] = at[s] /\ p[s] = ph[s]
  BY <1>1, StreamFacts DEF Main1Moved
<1>4. /\ Links(d, at[Main(0)], ph[Main(0)], at[D2H], ph[D2H], at[Tp(0)], ph[Tp(0)],
               at[Tp(1)], ph[Tp(1)], inputs, pinned, fired["input_ready"],
               fired["d2h_done"], fired["done0"], fired["done1"])
      /\ at[Reader] > d
      /\ Clean => Output0(d, at[Main(0)], ph[Main(0)], at[D2H], at[Tp(0)], ph[Tp(0)],
                          at[Reader], ph[Reader], flag[0], output[0])
  BY Linked
<1>5. Device0(d, a, p)'
  <2>1. Links(d, at[Main(0)], ph[Main(0)], a[D2H], p[D2H], a[Tp(0)], p[Tp(0)],
              a[Tp(1)], p[Tp(1)], inputs', pinned', fired'["input_ready"],
              fired'["d2h_done"], fired'["done0"], fired'["done1"])
    BY <1>2, <1>3, <1>4
  <2>2. Clean => Output0(d, at[Main(0)], ph[Main(0)], a[D2H], a[Tp(0)], p[Tp(0)],
                         a[Reader], p[Reader], flag'[0], output'[0])
    BY <1>2, <1>3, <1>4
  <2> QED
    BY <1>2, <1>3, <1>4, <2>1, <2>2, Relinked
<1>6. n \in Nat \ {0} /\ k \in Nat /\ d \in Nat
  BY StreamFacts, CursorFacts DEF IInv
<1>7. got[1] \in [Steps -> Contents \cup {-1}]
  BY DEF IInv, Shape, Ranks
<1> HIDE DEF n, k, N, K
<1>8. ASSUME Serialize
      PROVE  /\ Links1(d, N, K, at[Tp(1)], ph[Tp(1)], flag'[1])
             /\ Clean => /\ Output1(d, N, K, at[Tp(1)], ph[Tp(1)], output'[1])
                         /\ Consumption(d, got'[1], N, Consumed1(d, N, K))
  <2>1. /\ Links1(d, n, k, at[Tp(1)], ph[Tp(1)], flag[1])
        /\ Clean => Output1(d, n, k, at[Tp(1)], ph[Tp(1)], output[1])
    BY <1>8, Linked1 DEF n, k
  <2>2. Links1(d, N, K, at[Tp(1)], ph[Tp(1)], flag'[1])
    BY <1>2, <2>1, Main1Order
  <2>3. ASSUME Clean
        PROVE  /\ Output1(d, N, K, at[Tp(1)], ph[Tp(1)], output'[1])
               /\ Consumption(d, got'[1], N, Consumed1(d, N, K))
    <3>1. /\ Output1(d, N, K, at[Tp(1)], ph[Tp(1)], output'[1])
          /\ k = (IF n > d THEN 1 ELSE 3) => output[1] = Val(d, n)
      BY <1>2, <2>1, <2>3, Main1Order
    <3>2. RowMoves(d, n, N, got[1], got'[1], Consumed1(d, n, k), Consumed1(d, N, K))
      <4>1. /\ k \in 0..(Main1Length(d, n) - 1)
            /\ Main1Length(d, n) = IF n > d THEN 4 ELSE 5
            /\ IF k + 1 = Main1Length(d, n) THEN N = n + 1 /\ K = 0 ELSE N = n /\ K = k + 1
        BY <1>2 DEF Main1Does, Main1Length, Advances
      <4>2. CASE k = (IF n > d THEN 1 ELSE 3)
        <5>1. got'[1] = [got[1] EXCEPT ![n] = Val(d, n)]
          BY <4>2, <3>1, <1>2
        <5> QED
          BY <4>1, <4>2, <5>1, <1>6 DEF Consumed1, RowMoves
      <4>3. CASE ~(k = (IF n > d THEN 1 ELSE 3))
        <5>1. got'[1] = got[1]
          BY <4>3, <1>2
        <5>2. \/ N = n /\ Consumed1(d, n, k) = Consumed1(d, N, K)
              \/ N = n + 1 /\ Consumed1(d, n, k) /\ ~Consumed1(d, N, K)
          BY <4>1, <4>3, <1>6 DEF Consumed1
        <5> QED
          BY <5>1, <5>2 DEF RowMoves
      <4> QED
        BY <4>2, <4>3
    <3>3. Consumption(d, got[1], n, Consumed1(d, n, k))
      BY <1>8, <2>3 DEF IInv, Device1, n, k
    <3>4. Row(d, got[1], n, Consumed1(d, n, k))
      BY <3>3, <1>6, <1>7 DEF Row, Consumed1
    <3>5. Consumption(d, got'[1], N, Consumed1(d, N, K))
      BY <3>2, <3>4, Consumes
    <3> QED
      BY <3>1, <3>5
  <2> QED
    BY <2>2, <2>3
<1>9. Device1(d, a, p)'
  <2>1. N = a[Main(1)] /\ K = p[Main(1)] /\ a[Tp(1)] = at[Tp(1)] /\ p[Tp(1)] = ph[Tp(1)]
    BY <1>3 DEF N, K
  <2>2. Clean' <=> Clean
    BY <1>2 DEF Clean, Frame, hosts, conn
  <2> QED
    BY <1>8, <2>1, <2>2 DEF Device1, Links1, Output1
<1>10. {Main(1)} \in SUBSET Scripted
  BY StreamFacts
<1>11. IInv(d, a, p)'
  BY <1>0, <1>2, <1>5, <1>9, <1>10, DeviceStep
<1> QED
  BY <1>11 DEF a, p

-----------------------------------------------------------------------------
(* The broadcast and the error stream.                                     *)

LEMMA StartBroadcastKeeps ==
    ASSUME NEW d \in 0..MaxStep, NEW at, NEW ph, IInv(d, at, ph), StartBroadcast
    PROVE  IInv(d, at, ph)'
<1>1. /\ Broadcasting /\ busy' = busy \cup {Tp(0), Tp(1)}
      /\ UNCHANGED <<workload, queue, recorded, fired, flag, inputs, pinned, output, got,
                     hosts, conn, rqst>>
  BY DEF StartBroadcast
<1>2. Under /\ busy \subseteq Streams
  BY DEF IInv, Shape
<1>3. \A r \in {0, 1} : ~Idle(Tp(r)) /\ Moved(Tp(r))
  BY <1>1 DEF Broadcasting, Ranks, Moved, Moves
<1>4. Broadcasting' <=> Broadcasting
  BY <1>1 DEF Broadcasting, Idle
<1>5. \A s \in busy' : ~Idle(s)' /\ Moved(s)'
  <2>1. \A s \in busy' : ~Idle(s) /\ Moved(s)
    BY <1>1, <1>2, <1>3 DEF Under
  <2> QED
    BY <1>1, <2>1 DEF Idle, Moved
<1>6. Under'
  BY <1>1, <1>4, <1>5 DEF Under
<1>7. busy' \subseteq Streams
  BY <1>1, <1>2, StreamFacts
<1> QED
  BY <1>1, <1>6, <1>7, OnlyBusy

\* The broadcast is the same one on both ranks, and the output of rank 0 is ready.
LEMMA Broadcasts ==
    ASSUME NEW d, NEW n, NEW k, NEW nc, NEW kc, NEW n2, NEW n3, NEW in,
           NEW pin, NEW fi, NEW fc, NEW f0, NEW f1, NEW nr, NEW kr, NEW f, NEW out,
           Links(d, n, k, nc, kc, n2, 2, n3, 1, in, pin, fi, fc, f0, f1)
    PROVE  /\ Links(d, n, k, nc, kc, n2, 3, n3, 2, in, pin, fi, fc, f0, f1)
           /\ n2 = n3
           /\ Output0(d, n, k, nc, n2, 2, nr, kr, f, out) =>
                 Output0(d, n, k, nc, n2, 3, nr, kr, f, out) /\ out = n2
<1> USE DEF Links
<1>1. n2 = n3 /\ n > d /\ n2 = n /\ nc = n + 1
  BY DEF Copying, Sending, Matched
<1>2. Links(d, n, k, nc, kc, n2, 3, n3, 2, in, pin, fi, fc, f0, f1)
  BY <1>1 DEF Sending, Matched
<1>3. Output0(d, n, k, nc, n2, 2, nr, kr, f, out) =>
         Output0(d, n, k, nc, n2, 3, nr, kr, f, out) /\ out = n2
  BY <1>1 DEF Output0, Producing
<1> QED
  BY <1>1, <1>2, <1>3

LEMMA BroadcastReceives ==
    ASSUME NEW d, NEW n, NEW k, NEW n3, NEW f, Links1(d, n, k, n3, 1, f), n > d
    PROVE  Links1(d, n, k, n3, 2, f) /\ Output1(d, n, k, n3, 2, n3)
BY DEF Links1, Output1, Receiving, Received

LEMMA FinishBroadcastKeeps ==
    ASSUME NEW d \in 0..MaxStep, NEW at, NEW ph, IInv(d, at, ph), FinishBroadcast
    PROVE  IInv(d, NextAt(d, at, ph, {Tp(0), Tp(1)}), NextPh(d, at, ph, {Tp(0), Tp(1)}))'
<1> DEFINE P == {Tp(0), Tp(1)}
           a == NextAt(d, at, ph, P)
           p == NextPh(d, at, ph, P)
<1>1. /\ Broadcasting /\ busy' = busy \ P
      /\ output' = [output EXCEPT ![1] = output[0]]
      /\ queue' = [queue EXCEPT ![Tp(0)] = Tail(@), ![Tp(1)] = Tail(@)]
      /\ Frame /\ UNCHANGED <<fired, flag, inputs, pinned, got>>
  BY DEF FinishBroadcast, Frame
<1>2. /\ Shape /\ Cursors(d, at, ph) /\ Queues(d, at, ph) /\ Under
      /\ at[Tp(0)] > d /\ at[Tp(1)] > d
  BY DEF IInv, Device0
<1>3. /\ \A r \in {0, 1} : ~Idle(Tp(r)) /\ Head(queue[Tp(r)]).op = "broadcast"
      /\ Tp(0) \in Streams /\ Tp(1) \in Streams /\ Tp(0) \in Scripted /\ Tp(1) \in Scripted
      /\ Tp(0) # Tp(1) /\ P \in SUBSET Scripted
  BY <1>1, StreamFacts DEF Broadcasting, Ranks
<1>4. at[Tp(0)] \in Steps /\ ph[Tp(0)] = 2 /\ Size(d, Tp(0), at[Tp(0)]) = 4
  <2> DEFINE k == ph[Tp(0)]
             o == Head(queue[Tp(0)])
  <2>1. /\ at[Tp(0)] \in Steps /\ k \in 0..3 /\ (k = 0 => o = Await("d2h_done", at[Tp(0)] - d))
        /\ (k = 1 => o = WaitValue(1)) /\ (k = 3 => o = Record("done0"))
        /\ Size(d, Tp(0), at[Tp(0)]) = 4
    BY <1>2, <1>3, HeadTp0
  <2>2. k = 0 \/ k = 1 \/ k = 3 => o.op \in {"wait_event", "wait_value", "record"}
    BY <2>1, OpFields
  <2> QED
    BY <1>3, <2>1, <2>2
<1>5. at[Tp(1)] \in Steps /\ ph[Tp(1)] = 1 /\ Size(d, Tp(1), at[Tp(1)]) = 4
  <2> DEFINE k == ph[Tp(1)]
             o == Head(queue[Tp(1)])
  <2>1. /\ at[Tp(1)] \in Steps /\ k \in 0..3 /\ (k = 0 => o = WaitValue(0))
        /\ (k = 2 => o = WriteValue(1)) /\ (k = 3 => o = Record("done1"))
        /\ Size(d, Tp(1), at[Tp(1)]) = 4
    BY <1>2, <1>3, HeadTp1
  <2>2. k = 0 \/ k = 2 \/ k = 3 => o.op \in {"write_value", "wait_value", "record"}
    BY <2>1, OpFields
  <2> QED
    BY <1>3, <2>1, <2>2
<1>6. /\ a[Tp(0)] = at[Tp(0)] /\ p[Tp(0)] = 3 /\ a[Tp(1)] = at[Tp(1)] /\ p[Tp(1)] = 2
      /\ \A s \in Streams \ P : a[s] = at[s] /\ p[s] = ph[s]
  BY <1>3, <1>4, <1>5 DEF NextAt, NextPh
<1>7. /\ queue' = Popped(P) /\ queue' \in [Streams -> Seq(Ops)]
  <2>1. queue \in [Streams -> Seq(Ops)]
    BY <1>2 DEF Shape
  <2>2. queue' = Popped(P)
    BY <1>1, <1>3, <2>1 DEF Popped
  <2>3. \A t \in Streams : Popped(P)[t] \in Seq(Ops)
    <3> SUFFICES ASSUME NEW t \in Streams PROVE Popped(P)[t] \in Seq(Ops)
      OBVIOUS
    <3>1. CASE t \in P
      <4>1. ~Idle(t)
        BY <3>1, <1>3
      <4> QED
        BY <3>1, <4>1, <1>2, QueueFacts DEF Popped
    <3>2. CASE t \notin P
      BY <3>2, <2>1 DEF Popped
    <3> QED
      BY <3>1, <3>2
  <2> QED
    BY <2>2, <2>3 DEF Popped
<1>8. \A s \in {Main(0), Main(1), D2H, Reader} : a[s] = at[s] /\ p[s] = ph[s]
  BY <1>6, StreamFacts
<1> HIDE DEF a, p
<1>9. output \in [Ranks -> Contents] /\ output'[0] = output[0] /\ output'[1] = output[0]
      /\ output' \in [Ranks -> Contents]
  BY <1>1, <1>2 DEF Shape, Ranks
<1>10. Shape'
  <2>1. busy' \subseteq Streams
    BY <1>1, <1>2 DEF Shape
  <2> QED
    BY <2>1, <1>1, <1>2, <1>7, <1>9 DEF Shape, Frame, workload, hosts, conn, rqst
<1>11. Under'
  <2>1. \A t \in Streams \ P : queue'[t] = queue[t]
    BY <1>7 DEF Popped
  <2>2. busy' \subseteq Streams \ P
    BY <1>1, <1>2 DEF Shape
  <2>3. \A t \in busy' : ~Idle(t)' /\ Moved(t)'
    BY <1>1, <1>2, <2>1, <2>2 DEF Under, Idle, Moved
  <2> QED
    BY <1>1, <2>3 DEF Under
<1>12. /\ Links(d, at[Main(0)], ph[Main(0)], at[D2H], ph[D2H], at[Tp(0)], 2,
                at[Tp(1)], 1, inputs, pinned, fired["input_ready"],
                fired["d2h_done"], fired["done0"], fired["done1"])
       /\ at[Reader] > d
       /\ Clean => Output0(d, at[Main(0)], ph[Main(0)], at[D2H], at[Tp(0)], 2,
                           at[Reader], ph[Reader], flag[0], output[0])
  BY <1>4, <1>5, Linked
<1>13. /\ Links(d, at[Main(0)], ph[Main(0)], at[D2H], ph[D2H], at[Tp(0)], 3,
                at[Tp(1)], 2, inputs, pinned, fired["input_ready"],
                fired["d2h_done"], fired["done0"], fired["done1"])
       /\ at[Tp(0)] = at[Tp(1)]
  BY <1>12, Broadcasts
<1>14. Clean => /\ Output0(d, at[Main(0)], ph[Main(0)], at[D2H], at[Tp(0)], 3,
                           at[Reader], ph[Reader], flag[0], output[0])
                /\ output[0] = at[Tp(0)]
  BY <1>12, Broadcasts
<1>15. Device0(d, a, p)'
  <2>1. Links(d, at[Main(0)], ph[Main(0)], a[D2H], p[D2H], a[Tp(0)], p[Tp(0)],
              a[Tp(1)], p[Tp(1)], inputs', pinned', fired'["input_ready"],
              fired'["d2h_done"], fired'["done0"], fired'["done1"])
    BY <1>1, <1>6, <1>8, <1>13
  <2>2. Clean => Output0(d, at[Main(0)], ph[Main(0)], a[D2H], a[Tp(0)], p[Tp(0)],
                         a[Reader], p[Reader], flag'[0], output'[0])
    BY <1>1, <1>6, <1>8, <1>9, <1>14
  <2> QED
    BY <1>1, <1>8, <1>12, <2>1, <2>2, Relinked
<1>16. ASSUME Serialize
       PROVE  /\ Links1(d, at[Main(1)], ph[Main(1)], a[Tp(1)], p[Tp(1)], flag'[1])
              /\ Clean => Output1(d, at[Main(1)], ph[Main(1)], a[Tp(1)], p[Tp(1)], output'[1])
  <2>1. Links1(d, at[Main(1)], ph[Main(1)], at[Tp(1)], 1, flag[1])
    BY <1>5, <1>16, Linked1
  <2>2. at[Main(1)] > d
    BY <1>3, <1>16, Tp1Behind
  <2>3. /\ Links1(d, at[Main(1)], ph[Main(1)], at[Tp(1)], 2, flag[1])
        /\ Output1(d, at[Main(1)], ph[Main(1)], at[Tp(1)], 2, at[Tp(1)])
    BY <2>1, <2>2, BroadcastReceives
  <2> QED
    BY <1>1, <1>6, <1>9, <1>13, <1>14, <2>3
<1>17. Device1(d, a, p)'
  BY <1>1, <1>8, <1>16, Relinked1
<1>18. \A s \in P : ~Idle(s)
  BY <1>3
<1>19. a = NextAt(d, at, ph, P) /\ p = NextPh(d, at, ph, P)
  BY DEF a, p
<1> HIDE DEF P
<1>20. IInv(d, a, p)'
  BY <1>1, <1>3, <1>7, <1>10, <1>11, <1>15, <1>17, <1>18, <1>19, DeviceStep
<1> QED
  BY <1>20 DEF a, p, P

LEMMA ErrorKeeps ==
    ASSUME NEW d \in 0..MaxStep, NEW at, NEW ph, IInv(d, at, ph),
           Execute(Error) \/ FinishMove(Error)
    PROVE  IInv(d, at, ph)'
<1> DEFINE o == Head(queue[Error])
<1>1. /\ Shape /\ Cursors(d, at, ph) /\ Queues(d, at, ph) /\ Under /\ Faulty /\ Dummies(d)
  BY DEF IInv
<1>2. ~Idle(Error) /\ Error \in Streams /\ Error[2] = 0 /\ Error \in Streams \ {Tp(0), Tp(1)}
      /\ 0 \in Ranks /\ 1 \in Ranks
  <2>1. ~Idle(Error)
    BY DEF Execute, FinishMove, Moving
  <2> QED
    BY <2>1, StreamFacts, Seconds DEF Ranks
<1>3. ~Clean
  BY <1>1, <1>2 DEF Faulty, Clean
<1>4. o \in {Op("zero", 0), WriteValue(1)}
  BY <1>1, <1>2, HeadError
<1> HIDE DEF o
<1>5. o.op \in {"zero", "write_value"} /\ o.n \in {0, 1} /\ (o.op = "zero" => o.n = 0)
  BY <1>4, OpFields
<1>6. 0 \in Contents
  BY StepAssumption DEF Contents
<1>7. /\ queue' = Popped({Error}) /\ Frame /\ Shape' /\ Under'
      /\ UNCHANGED <<fired, inputs, pinned>>
      /\ flag'[1] = flag[1] /\ output'[1] = output[1] /\ got'[0] = got[0] /\ got'[1] = got[1]
  <2>1. CASE Execute(Error)
    <3>1. /\ queue' = Popped({Error}) /\ Frame /\ Shape' /\ Under'
          /\ UNCHANGED <<inputs, pinned, output, got>>
          /\ \A r \in Ranks :
                flag'[r] = IF o.op = "write_value" /\ r = Error[2] THEN o.n ELSE flag[r]
      BY <1>1, <1>2, <1>5, <2>1, ExecuteIs DEF o
    <3>2. fired' = fired
      BY <1>5, <2>1 DEF Execute, o
    <3>3. flag'[1] = flag[1]
      BY <1>2, <3>1
    <3> QED
      BY <3>1, <3>2, <3>3
  <2>2. CASE FinishMove(Error)
    <3>1. /\ o.op \in {"stage", "gather", "zero"} => o.n \in Contents
          /\ o.op # "consume" /\ o.op # "stage" /\ o.op # "copy" /\ Error[2] \in Ranks
      BY <1>2, <1>5, <1>6
    <3>2. /\ queue' = Popped({Error}) /\ Frame /\ Shape' /\ Under'
          /\ UNCHANGED <<fired, flag>>
          /\ inputs' = IF o.op = "stage" THEN o.n ELSE inputs
          /\ pinned' = IF o.op = "copy" THEN inputs ELSE pinned
          /\ \A r \in Ranks :
                /\ output'[r] = IF o.op \in {"gather", "zero"} /\ r = Error[2]
                                  THEN o.n ELSE output[r]
                /\ got'[r] = IF o.op = "consume" /\ r = Error[2]
                               THEN [got[r] EXCEPT ![o.n] = output[r]] ELSE got[r]
      BY <1>1, <1>2, <2>2, <3>1, FinishIs DEF o
    <3>3. output'[1] = IF o.op \in {"gather", "zero"} /\ 1 = Error[2] THEN o.n ELSE output[1]
      BY <1>2, <3>2
    <3>4. \A r \in Ranks : got'[r] = got[r]
      BY <3>1, <3>2
    <3> QED
      BY <1>2, <3>1, <3>2, <3>3, <3>4
  <2> QED
    BY <2>1, <2>2
<1>8. \A s \in Streams \ {Error} : queue'[s] = queue[s]
  BY <1>7 DEF Popped
<1>9. Scripted \subseteq Streams \ {Error}
  BY StreamFacts
<1>10. Queues(d, at, ph)'
  <2>1. \A s \in Scripted : \A i \in 1..Len(queue'[s]) :
           Nth(d, s, Executed(d, at, ph, s) + i, queue'[s][i])
    BY <1>1, <1>8, <1>9 DEF Queues
  <2>2. \A i \in 1..Len(queue'[Error]) : queue'[Error][i] \in {Op("zero", 0), WriteValue(1)}
    <3>1. queue'[Error] = Tail(queue[Error])
      BY <1>2, <1>7 DEF Popped
    <3>2. /\ Len(queue[Error]) \in Nat \ {0} /\ Len(queue'[Error]) = Len(queue[Error]) - 1
          /\ \A i \in 1..(Len(queue[Error]) - 1) : queue'[Error][i] = queue[Error][i + 1]
      BY <1>1, <1>2, <3>1, QueueFacts
    <3>3. \A i \in 1..Len(queue[Error]) : queue[Error][i] \in {Op("zero", 0), WriteValue(1)}
      BY <1>1 DEF Queues
    <3>4. \A i \in 1..(Len(queue[Error]) - 1) : i + 1 \in 1..Len(queue[Error])
      BY <3>2
    <3> QED
      BY <3>2, <3>3, <3>4
  <2> QED
    BY <2>1, <2>2 DEF Queues, Executed, Nth
<1>11. Follows(d, at, ph, at, ph)
  <2>1. \A s \in Scripted : /\ at[s] \in Nat /\ ph[s] \in Nat
                            /\ Enqueued(d, at, ph, s)' = Enqueued(d, at, ph, s)
                            /\ Idle(s)' = Idle(s)
    <3> SUFFICES ASSUME NEW s \in Scripted
                 PROVE  /\ at[s] \in Nat /\ ph[s] \in Nat
                        /\ Enqueued(d, at, ph, s)' = Enqueued(d, at, ph, s)
                        /\ Idle(s)' = Idle(s)
      OBVIOUS
    <3>1. at[s] \in Nat /\ ph[s] \in Nat /\ queue'[s] = queue[s]
      BY <1>1, <1>8, <1>9, CursorFacts
    <3> QED
      BY <3>1 DEF Enqueued, Executed, Idle
  <2> QED
    BY <1>2, <2>1 DEF Follows
<1>12. /\ Mains(d, at, ph)' /\ Counts(d, at, ph)' /\ Kinded(d)' /\ Ranked(d, at, ph)'
       /\ Owned(d)' /\ Served(d)' /\ Requests(d, at, ph)' /\ Reading(d, at, ph)'
       /\ Recorded(d)' /\ Faulty'
  BY <1>7, <1>11, HostsKept DEF Frame
<1>13. Dummies(d)' /\ Cursors(d, at, ph)'
  BY <1>1, <1>7 DEF Dummies, Real, Frame, workload, Cursors
<1>14. Device0(d, at, ph)' /\ Device1(d, at, ph)'
  <2>1. Device0(d, at, ph)'
    <3>1. Links(d, at[Main(0)], ph[Main(0)], at[D2H], ph[D2H], at[Tp(0)], ph[Tp(0)],
                at[Tp(1)], ph[Tp(1)], inputs', pinned', fired'["input_ready"],
                fired'["d2h_done"], fired'["done0"], fired'["done1"]) /\ at[Reader] > d
      BY <1>7, Linked
    <3> QED
      BY <1>3, <1>7, <3>1, Relinked
  <2>2. Device1(d, at, ph)'
    BY <1>7, Device1Same DEF IInv
  <2> QED
    BY <2>1, <2>2
<1> QED
  BY <1>7, <1>10, <1>12, <1>13, <1>14 DEF IInv

\* The device: the cursors follow.
LEMMA DeviceKeeps ==
    ASSUME NEW d \in 0..MaxStep, NEW at, NEW ph, IInv(d, at, ph),
           NEW s \in Streams, Device(s)
    PROVE  \E a, p : IInv(d, a, p)'
<1>1. CASE StartMove(s)
  BY <1>1, StartKeeps
<1>2. CASE Execute(s) \/ FinishMove(s)
  <2>1. FinishMove(s) => s # Tp(0) /\ s # Tp(1)
    BY Alone DEF FinishMove
  <2>2. CASE s = Main(0)
    BY <1>2, <2>2, Main0Keeps
  <2>3. CASE s = Main(1)
    BY <1>2, <2>3, Main1Keeps
  <2>4. CASE s = Tp(0)
    BY <1>2, <2>1, <2>4, Tp0Keeps
  <2>5. CASE s = Tp(1)
    BY <1>2, <2>1, <2>5, Tp1Keeps
  <2>6. CASE s = D2H
    BY <1>2, <2>6, D2HKeeps
  <2>7. CASE s = Reader
    BY <1>2, <2>7, ReaderKeeps
  <2>8. CASE s = Error
    BY <1>2, <2>8, ErrorKeeps
  <2> QED
    BY <2>2, <2>3, <2>4, <2>5, <2>6, <2>7, <2>8, StreamFacts
<1> QED
  BY <1>1, <1>2 DEF Device

LEMMA CollectiveKeeps ==
    ASSUME NEW d \in 0..MaxStep, NEW at, NEW ph, IInv(d, at, ph), Collective
    PROVE  \E a, p : IInv(d, a, p)'
<1>1. CASE StartBroadcast
  BY <1>1, StartBroadcastKeeps
<1>2. CASE FinishBroadcast
  BY <1>2, FinishBroadcastKeeps
<1> QED
  BY <1>1, <1>2 DEF Collective

-----------------------------------------------------------------------------
(* The threads: the cursors stay where they are.                           *)

\* What is left to show of a step of a thread.
LEMMA HostStep ==
    ASSUME NEW d \in 0..MaxStep, NEW at, NEW ph, IInv(d, at, ph), HostFrame, Shape',
           Queues(d, at, ph)', Grown, Clean' => Clean,
           finished' = finished \/ Finish(d, at, finished'),
           Mains(d, at, ph)', Counts(d, at, ph)', Kinded(d)', Ranked(d, at, ph)',
           Threads(d, at, ph)'
    PROVE  IInv(d, at, ph)'
<1>1. UNCHANGED <<sync_steps, faults, kind, busy, fired, flag, inputs, pinned, output, got>>
  BY DEF HostFrame, workload
<1>2. /\ Shape /\ Dummies(d) /\ Cursors(d, at, ph) /\ Under /\ Device0(d, at, ph)
      /\ Device1(d, at, ph)
  BY DEF IInv
<1>3. Dummies(d)' /\ Cursors(d, at, ph)'
  BY <1>1, <1>2 DEF Dummies, Real, Cursors
<1>4. Under'
  BY <1>1, <1>2, UnderGrown
<1>5. Device0(d, at, ph)'
  <2>1. /\ \A s \in {Tp(0), Tp(1), D2H, Reader} : at[s] > d
        /\ Fires(d, at, ph)'
        /\ (Copying(d, at[Main(0)], ph[Main(0)], at[D2H], ph[D2H], inputs, pinned))'
        /\ Sending(d, at[Main(0)], ph[Main(0)], at[D2H], at[Tp(0)], ph[Tp(0)])
        /\ Matched(at[Tp(0)], ph[Tp(0)], at[Tp(1)], ph[Tp(1)])
    BY <1>1, <1>2 DEF Device0, Fires
  <2>2. Clean' =>
          (/\ Producing(d, at[Main(0)], ph[Main(0)], at[D2H], at[Tp(0)], ph[Tp(0)],
                        at[Reader], ph[Reader], flag[0], output[0])
           /\ Consumption(d, got[0], at[Main(0)], Consumed0(ph[Main(0)])))'
    BY <1>1, <1>2 DEF Device0
  <2>3. (sync_steps => \A m \in 1..finished : m < at[Main(0)] /\ got[0][m] = Val(d, m))'
    BY <1>1, <1>2 DEF Device0, Finish
  <2> QED
    BY <2>1, <2>2, <2>3 DEF Device0
<1>6. Device1(d, at, ph)'
  BY <1>1, <1>2 DEF Device1
<1> QED
  BY <1>3, <1>4, <1>5, <1>6 DEF IInv, Threads

\* The parts of the invariant that name the ranks, by rank.
LEMMA Split ==
    ASSUME NEW d, NEW at, NEW ph
    PROVE  /\ Counts(d, at, ph)
                 <=> /\ Counted(d, step[0], pc[0], {"sync", "prepare"},
                                {"status_failed", "failed"}, recorded["input_ready"])
                     /\ Transfers(d, step[0], pc[0], recorded["done0"],
                                  Enqueued(d, at, ph, Tp(0)))
                     /\ Transfers(d, step[1], pc[1], recorded["done1"],
                                  Enqueued(d, at, ph, Tp(1)))
           /\ Kinded(d) <=> KindedAt(d, step[0], pc[0]) /\ KindedAt(d, step[1], pc[1])
BY DEF Counts, Kinded, Ranks, Done

\* A step of rank 1 that leaves the connector and the reader alone.
LEMMA Rank1Step ==
    ASSUME NEW d \in 0..MaxStep, NEW at, NEW ph, IInv(d, at, ph), HostFrame, Shape',
           Queues(d, at, ph)', Grown,
           UNCHANGED <<finished, conn, rqst>>, pc'[0] = pc[0], step'[0] = step[0],
           pc'[1] # "failed", \A e \in Events \ {"done1"} : recorded'[e] = recorded[e],
           \A s \in Streams \ {Main(1), Tp(1)} : queue'[s] = queue[s],
           MainAt1(d, step[1], pc[1], Enqueued(d, at, ph, Main(1)))',
           Transfers(d, step[1], pc[1], recorded["done1"], Enqueued(d, at, ph, Tp(1)))',
           KindedAt(d, step[1], pc[1])', Ranked(d, at, ph)'
    PROVE  IInv(d, at, ph)'
<1>1. /\ UNCHANGED <<sync_steps, faults, kind, finished, active, records, completed, released,
                     mailbox, enqueued, error, closed, req, reqSeq, rows>>
      /\ recorded'["input_ready"] = recorded["input_ready"]
      /\ recorded'["d2h_done"] = recorded["d2h_done"] /\ recorded'["done0"] = recorded["done0"]
  BY DEF HostFrame, workload, conn, rqst, Events
<1>2. \A s \in {Main(0), Tp(0), D2H, Reader, Error} :
         queue'[s] = queue[s] /\ Enqueued(d, at, ph, s)' = Enqueued(d, at, ph, s)
                              /\ Idle(s)' = Idle(s)
  <2>1. \A s \in {Main(0), Tp(0), D2H, Reader, Error} : s \in Streams \ {Main(1), Tp(1)}
    BY StreamFacts
  <2> QED
    BY <2>1 DEF Enqueued, Executed, Idle
<1>3. /\ Mains(d, at, ph) /\ Counts(d, at, ph) /\ Kinded(d) /\ Owned(d) /\ Served(d)
      /\ Requests(d, at, ph) /\ Reading(d, at, ph) /\ Recorded(d) /\ Faulty
  BY DEF IInv
<1>4. Mains(d, at, ph)'
  <2>1. Enqueued(d, at, ph, Main(0))' = Enqueued(d, at, ph, Main(0))
    BY <1>2
  <2>2. MainAt0(d, step[0], pc[0], Enqueued(d, at, ph, Main(0)))
    BY <1>3 DEF Mains
  <2>3. MainAt0(d, step'[0], pc'[0], Enqueued(d, at, ph, Main(0))')
    BY <2>1, <2>2
  <2> QED
    BY <2>3 DEF Mains
<1>5. Counts(d, at, ph)'
  <2>1. Enqueued(d, at, ph, Tp(0))' = Enqueued(d, at, ph, Tp(0))
    BY <1>2
  <2>2. /\ Counted(d, step[0], pc[0], {"sync", "prepare"}, {"status_failed", "failed"},
                   recorded["input_ready"])
        /\ Transfers(d, step[0], pc[0], recorded["done0"], Enqueued(d, at, ph, Tp(0)))
    BY <1>3, Split
  <2>3. Counted(d, step[0], pc[0], {"sync", "prepare"}, {"status_failed", "failed"},
                recorded["input_ready"])'
    BY <1>1, <2>2
  <2>4. Transfers(d, step[0], pc[0], recorded["done0"], Enqueued(d, at, ph, Tp(0)))'
    BY <1>1, <2>1, <2>2
  <2> QED
    BY <2>3, <2>4 DEF Counts, Ranks, Done
<1>6. Kinded(d)'
  <2>1. KindedAt(d, step[0], pc[0])
    BY <1>3, Split
  <2>2. KindedAt(d, step[0], pc[0])'
    BY <1>1, <2>1 DEF KindedAt, Serial
  <2> QED
    BY <2>2, Split DEF Kinded, Ranks
<1>7. Owned(d)' /\ Served(d)' /\ Recorded(d)'
  BY <1>1, <1>3 DEF Owned, Served, Launched, Recorded
<1>8. Requests(d, at, ph)'
  BY <1>1, <1>2, <1>3 DEF Requests
<1>9. Reading(d, at, ph)'
  BY <1>1, <1>2, <1>3 DEF Reading, Broken, Launched, Serial
<1>10. Faulty'
  BY <1>1, <1>2, <1>3 DEF Faulty, Ranks
<1>11. Clean' => Clean
  BY <1>1 DEF Clean
<1>12. Threads(d, at, ph)'
  BY <1>7, <1>8, <1>9, <1>10 DEF Threads
<1> QED
  BY <1>1, <1>4, <1>5, <1>6, <1>11, <1>12, HostStep

LEMMA PastSame ==
    ASSUME NEW d, NEW r, NEW n \in Steps, step[r] \in Nat, step'[r] \in Nat,
           Stays(d, r) \/ Begins(r)
    PROVE  /\ Serial(n) => /\ Past(r, n, AfterStatus)' <=> Past(r, n, AfterStatus)
                           /\ Past(r, n, AfterDrained)' <=> Past(r, n, AfterDrained)
           /\ verify[0] > 0 /\ n > d => (Past(r, n, AfterVerify)' <=> Past(r, n, AfterVerify))
<1>1. n \in Nat
  BY DEF Steps
<1>2. CASE Stays(d, r)
  BY <1>2 DEF Stays, Past
<1>3. CASE Begins(r)
  <2>1. /\ "idle" \in AfterStatus /\ "idle" \in AfterDrained /\ "idle" \in AfterVerify
    BY DEF AfterStatus, AfterDrained, AfterVerify, Resting
  <2>2. \A l \in {"sync", "prepare", "dummy"} :
           l \notin AfterStatus /\ l \notin AfterDrained /\ l \notin AfterVerify
    BY DEF AfterStatus, AfterDrained, AfterVerify, Resting
  <2>3. /\ pc[r] \in AfterStatus /\ pc[r] \in AfterDrained /\ pc[r] \in AfterVerify
        /\ pc'[r] \notin AfterStatus /\ pc'[r] \notin AfterDrained /\ pc'[r] \notin AfterVerify
        /\ step'[r] = step[r] + 1
    BY <1>3, <2>1, <2>2 DEF Begins
  <2> HIDE DEF AfterStatus, AfterDrained, AfterVerify
  <2>4. step[r] + 1 > n <=> (step[r] > n \/ step[r] = n)
    BY <1>1
  <2> QED
    BY <2>3, <2>4 DEF Past
<1> QED
  BY <1>2, <1>3

\* A step of rank r alone; t is the other rank.
LEMMA OneRanked ==
    ASSUME NEW d \in 0..MaxStep, NEW at, NEW ph, IInv(d, at, ph), NEW r, NEW t,
           (r = 0 /\ t = 1) \/ (r = 1 /\ t = 0), HostFrame, Shape', Clean' => Clean, verify' = verify,
           pc'[t] = pc[t], step'[t] = step[t], digest'[t] = digest[t], pc[r] # "failed",
           Stays(d, r) \/ Begins(r) \/ (r = 0 /\ GivesUp),
           pc'[r] \in {"verify", "verifying"} => verify[r] > 0,
           pc'[r] = "drained" => at[Tp(r)] > step'[r],
           pc'[r] = "verifying" /\ Clean' /\ Serialize => digest'[r] = step'[r],
           r = 0 => /\ recorded'["done1"] = recorded["done1"]
                    /\ (pc[0] \in {"transport", "drain"} /\ Serial(step[0])) =>
                          \/ BroadcastDone(at, ph, step[0])
                          \/ step'[0] = step[0] /\ pc'[0] \in {"transport", "drain"},
           r = 1 => /\ pc'[1] # "failed"
                    /\ step'[1] > d /\ (pc'[1] # "sync" \/ step'[1] > d + 1) =>
                          (Serialize => at[Main(1)] > d)
    PROVE  Ranked(d, at, ph)'
<1>1. Shape /\ Ranked(d, at, ph) /\ \A n : Serial(n)' <=> Serial(n)
  BY DEF IInv, HostFrame, workload, Serial
<1>2. Ranks = {r, t} /\ r # t /\ r \in Ranks /\ t \in Ranks
  BY DEF Ranks
<1>3. \A q \in Ranks : step[q] \in Nat /\ step'[q] \in Nat
  BY <1>1, StepAssumption DEF Shape, Contents
<1>4. ASSUME ~(r = 0 /\ GivesUp)
      PROVE  \A n \in Steps : \A q \in Ranks :
         /\ Serial(n) => /\ Past(q, n, AfterStatus)' <=> Past(q, n, AfterStatus)
                         /\ Past(q, n, AfterDrained)' <=> Past(q, n, AfterDrained)
         /\ verify[0] > 0 /\ n > d => (Past(q, n, AfterVerify)' <=> Past(q, n, AfterVerify))
  <2> SUFFICES ASSUME NEW n \in Steps, NEW q \in Ranks
               PROVE  /\ Serial(n) => /\ Past(q, n, AfterStatus)' <=> Past(q, n, AfterStatus)
                                      /\ Past(q, n, AfterDrained)' <=> Past(q, n, AfterDrained)
                      /\ verify[0] > 0 /\ n > d =>
                            (Past(q, n, AfterVerify)' <=> Past(q, n, AfterVerify))
    OBVIOUS
  <2>1. CASE q = r
    BY <2>1, <1>2, <1>3, <1>4, PastSame
  <2>2. CASE q = t
    BY <2>2 DEF Past
  <2> QED
    BY <2>1, <2>2, <1>2
<1>14. ASSUME NEW n \in Steps, Serial(n)
       PROVE  /\ \A q \in Ranks : Past(q, n, AfterDrained)' => Past(q, n, AfterDrained)
              /\ Past(1, n, AfterStatus)' <=> Past(1, n, AfterStatus)
  <2>1. CASE r = 0 /\ GivesUp
    <3>1. "failed" \notin AfterDrained
      BY DEF AfterDrained, AfterVerify, Resting
    <3>2. Past(0, n, AfterDrained)' => Past(0, n, AfterDrained)
      BY <2>1, <3>1 DEF GivesUp, Past
    <3>3. /\ Past(1, n, AfterDrained)' => Past(1, n, AfterDrained)
          /\ Past(1, n, AfterStatus)' <=> Past(1, n, AfterStatus)
      BY <2>1 DEF Past
    <3> QED
      BY <3>2, <3>3 DEF Ranks
  <2>2. CASE ~(r = 0 /\ GivesUp)
    BY <1>4, <1>14, <2>2 DEF Ranks
  <2> QED
    BY <2>1, <2>2
<1>5. (verify[0] = verify[1])'
  BY <1>1 DEF Ranked
<1>6. (\A q \in Ranks : pc[q] \in {"verify", "verifying"} => verify[q] > 0)'
  BY <1>1, <1>2 DEF Ranked
<1>7. (pc[0] # "failed" /\ pc[1] # "failed" =>
          /\ \A n \in Steps : Serial(n) => Together(n, AfterStatus) /\ Together(n, AfterDrained)
          /\ verify[0] > 0 => \A n \in Steps : n > d => Together(n, AfterVerify))'
  <2> SUFFICES ASSUME pc'[0] # "failed", pc'[1] # "failed"
               PROVE  (/\ \A n \in Steps : Serial(n) => Together(n, AfterStatus) /\ Together(n, AfterDrained)
                       /\ verify[0] > 0 => \A n \in Steps : n > d => Together(n, AfterVerify))'
    OBVIOUS
  <2>0. ~(r = 0 /\ GivesUp)
    BY DEF GivesUp
  <2>1. pc[0] # "failed" /\ pc[1] # "failed" /\ 0 \in Ranks /\ 1 \in Ranks
    BY <1>2
  <2>2. /\ \A n \in Steps : Serial(n) => Together(n, AfterStatus) /\ Together(n, AfterDrained)
        /\ verify[0] > 0 => \A n \in Steps : n > d => Together(n, AfterVerify)
    BY <1>1, <2>1 DEF Ranked
  <2>3. ASSUME NEW n \in Steps, Serial(n)'
        PROVE  (Together(n, AfterStatus) /\ Together(n, AfterDrained))'
    BY <1>1, <1>4, <2>0, <2>1, <2>2, <2>3 DEF Together
  <2>4. ASSUME NEW n \in Steps, verify[0]' > 0, n > d
        PROVE  Together(n, AfterVerify)'
    BY <1>4, <2>0, <2>1, <2>2, <2>4 DEF Together
  <2> QED
    BY <2>3, <2>4
<1>8. (\A q \in Ranks : pc[q] = "drained" => at[Tp(q)] > step[q])'
  BY <1>1, <1>2 DEF Ranked
<1>9. ASSUME NEW n \in Steps, Serial(n)'
      PROVE  (/\ \A q, u \in Ranks : Past(q, n, AfterDrained) => at[Tp(u)] > n
              /\ Past(1, n, AfterStatus) /\ ~BroadcastDone(at, ph, n) =>
                    step[0] = n /\ pc[0] \in {"transport", "drain"})'
  <2>1. Serial(n) /\ 0 \in Ranks /\ 1 \in Ranks
    BY <1>1, <1>2, <1>9
  <2>2. \A q, u \in Ranks : Past(q, n, AfterDrained) => at[Tp(u)] > n
    BY <1>1, <2>1 DEF Ranked
  <2>3. Past(1, n, AfterStatus) /\ ~BroadcastDone(at, ph, n) =>
           step[0] = n /\ pc[0] \in {"transport", "drain"}
    BY <1>1, <2>1 DEF Ranked
  <2>4. \A q, u \in Ranks : Past(q, n, AfterDrained)' => at[Tp(u)] > n
    BY <1>14, <2>1, <2>2
  <2>5. Past(1, n, AfterStatus)' <=> Past(1, n, AfterStatus)
    BY <1>14, <2>1
  <2>6. step[0] = n /\ pc[0] \in {"transport", "drain"} /\ ~BroadcastDone(at, ph, n) =>
           step'[0] = n /\ pc'[0] \in {"transport", "drain"}
    BY <2>1
  <2>7. BroadcastDone(at, ph, n)' <=> BroadcastDone(at, ph, n)
    BY DEF BroadcastDone
  <2> QED
    BY <2>3, <2>4, <2>5, <2>6, <2>7
<1>10. (pc[1] = "failed" /\ Serial(step[1]) => recorded["done1"] + d < step[1] \/ at[Tp(1)] > step[1])'
  BY <1>1 DEF Ranked
<1>11. (step[1] > d /\ (pc[1] # "sync" \/ step[1] > d + 1) => (Serialize => at[Main(1)] > d))'
  BY <1>1 DEF Ranked
<1>12. (Clean /\ Serialize => \A q \in Ranks : pc[q] = "verifying" => digest[q] = step[q])'
  BY <1>1, <1>2 DEF Ranked
<1> QED
  BY <1>5, <1>6, <1>7, <1>8, <1>9, <1>10, <1>11, <1>12 DEF Ranked

\* A stream that is idle has executed all that was enqueued.
LEMMA IdleIn ==
    ASSUME NEW d \in 0..MaxStep, NEW at, NEW ph, Shape, Cursors(d, at, ph), NEW s \in Scripted,
           Idle(s), NEW n \in Nat \ {0}, NEW k \in Nat, k < Size(d, s, n),
           Enqueued(d, at, ph, s) = Base(d, s, n) + k
    PROVE  at[s] = n /\ ph[s] = k
<1> DEFINE i == ph[s] + 1
           j == k + 1
<1>1. /\ s \in Streams /\ at[s] \in Nat \ {0} /\ ph[s] \in Nat /\ ph[s] < Size(d, s, at[s])
      /\ d \in Nat /\ Base(d, s, at[s]) \in Int
  BY CursorFacts
<1>2. Len(queue[s]) = 0
  BY <1>1, QueueFacts
<1>3. Base(d, s, at[s]) + ph[s] = Base(d, s, n) + k
  BY <1>1, <1>2 DEF Enqueued, Executed
<1>4. Base(d, s, n) \in Int /\ Size(d, s, n) \in Int /\ Size(d, s, at[s]) \in Int
  BY <1>1, SizesOf DEF Base, Size
<1>5. i \in 1..Size(d, s, at[s]) /\ j \in 1..Size(d, s, n)
  BY <1>1, <1>4
<1>6. Base(d, s, at[s]) + i = Base(d, s, n) + j
  BY <1>1, <1>3, <1>4
<1> HIDE DEF i, j
<1>7. at[s] = n /\ i = j
  BY <1>1, <1>5, <1>6, OneStep
<1> QED
  BY <1>1, <1>7 DEF i, j

\* The first real step is a prefill.
LEMMA FirstReal ==
    ASSUME NEW d \in 0..MaxStep, Shape, Dummies(d), d + 1 \in Steps, Serialize
    PROVE  Serial(d + 1)
<1>1. kind \in Workloads /\ \A n \in Steps : Real(n) <=> n > d
  BY DEF Shape, Dummies
<1>2. kind \in [Steps -> Kinds] /\ d \in Nat
  BY <1>1, StepAssumption DEF Workloads
<1>3. kind[d + 1] # "dummy" /\ kind[d + 1] \in Kinds
  BY <1>1, <1>2 DEF Real
<1>4. CASE d = 0
  <2>1. kind[1] # "full"
    BY <1>1 DEF Workloads
  <2> QED
    BY <1>3, <1>4, <2>1 DEF Kinds, Serial
<1>5. CASE d # 0
  <2>1. d \in Steps /\ d + 1 \in Steps \ {1} /\ (d + 1) - 1 = d
    BY <1>2, <1>5 DEF Steps
  <2>2. kind[d] = "dummy"
    BY <1>1, <1>2, <2>1 DEF Real
  <2>3. kind[(d + 1) - 1] = "dummy" => kind[d + 1] # "full"
    BY <1>1, <2>1 DEF Workloads
  <2> QED
    BY <1>3, <2>1, <2>2, <2>3 DEF Kinds, Serial
<1> QED
  BY <1>4, <1>5

\* The base of a step, by stream.
LEMMA Bases ==
    ASSUME NEW d \in Nat, NEW n \in Nat
    PROVE  /\ Base(d, Main(0), n) = IF n > d THEN 6 * d + 7 * (n - d - 1) ELSE 6 * (n - 1)
           /\ Base(d, Main(1), n) = IF n > d THEN 5 * d + 4 * (n - d - 1) ELSE 5 * (n - 1)
           /\ n > d => /\ \A r \in Ranks : Base(d, Tp(r), n) = 4 * (n - d - 1)
                       /\ Base(d, D2H, n) = 3 * (n - d - 1)
                       /\ Base(d, Reader, n) = 3 * (n - d - 1)
           /\ Size(d, Main(0), n) = IF n > d THEN 7 ELSE 6
           /\ Size(d, Main(1), n) = IF n > d THEN 4 ELSE 5
           /\ n > d => /\ \A r \in Ranks : Size(d, Tp(r), n) = 4
                       /\ Size(d, D2H, n) = 3 /\ Size(d, Reader, n) = 3
<1>1. /\ DummySize(Main(0)) = 6 /\ RealSize(Main(0)) = 7
      /\ DummySize(Main(1)) = 5 /\ RealSize(Main(1)) = 4
      /\ \A r \in Ranks : DummySize(Tp(r)) = 0 /\ RealSize(Tp(r)) = 4
      /\ DummySize(D2H) = 0 /\ RealSize(D2H) = 3
      /\ DummySize(Reader) = 0 /\ RealSize(Reader) = 3
  BY Sizes
<1>2. Base(d, Main(0), n) = IF n > d THEN 6 * d + 7 * (n - d - 1) ELSE 6 * (n - 1)
  BY <1>1 DEF Base
<1>3. Base(d, Main(1), n) = IF n > d THEN 5 * d + 4 * (n - d - 1) ELSE 5 * (n - 1)
  BY <1>1 DEF Base
<1>4. n > d => /\ \A r \in Ranks : Base(d, Tp(r), n) = 4 * (n - d - 1)
               /\ Base(d, D2H, n) = 3 * (n - d - 1)
               /\ Base(d, Reader, n) = 3 * (n - d - 1)
  BY <1>1 DEF Base
<1>5. /\ Size(d, Main(0), n) = IF n > d THEN 7 ELSE 6
      /\ Size(d, Main(1), n) = IF n > d THEN 4 ELSE 5
      /\ n > d => /\ \A r \in Ranks : Size(d, Tp(r), n) = 4
                  /\ Size(d, D2H, n) = 3 /\ Size(d, Reader, n) = 3
  BY <1>1 DEF Size
<1> QED
  BY <1>2, <1>3, <1>4, <1>5

LEMMA NextBases ==
    ASSUME NEW d \in Nat, NEW n \in Nat, n >= d
    PROVE  /\ \A r \in Ranks : Base(d, Tp(r), n + 1) = 4 * (n - d) /\ Size(d, Tp(r), n + 1) = 4
           /\ Base(d, D2H, n + 1) = 3 * (n - d) /\ Size(d, D2H, n + 1) = 3
           /\ Base(d, Reader, n + 1) = 3 * (n - d) /\ Size(d, Reader, n + 1) = 3
<1>1. n + 1 > d /\ n + 1 - d - 1 = n - d
  OBVIOUS
<1>2. /\ \A r \in Ranks : DummySize(Tp(r)) = 0 /\ RealSize(Tp(r)) = 4
      /\ DummySize(D2H) = 0 /\ RealSize(D2H) = 3
      /\ DummySize(Reader) = 0 /\ RealSize(Reader) = 3
  BY Sizes
<1>3. /\ \A s : Size(d, s, n + 1) = RealSize(s)
      /\ \A s : Base(d, s, n + 1) = DummySize(s) * d + RealSize(s) * (n + 1 - d - 1)
  BY <1>1 DEF Size, Base
<1> QED
  BY <1>1, <1>2, <1>3

-----------------------------------------------------------------------------
(* The model thread of rank 1.                                             *)

\* What the steps of rank 1 start from.
LEMMA Of1 ==
    ASSUME NEW d \in 0..MaxStep, NEW at, NEW ph, IInv(d, at, ph)
    PROVE  /\ Shape /\ Dummies(d) /\ Cursors(d, at, ph) /\ Queues(d, at, ph)
           /\ d \in Nat /\ MaxStep \in Nat
           /\ step[1] \in Nat /\ step[1] <= MaxStep /\ recorded["done1"] \in Nat
           /\ 0 \in Ranks /\ 1 \in Ranks
           /\ pc \in [Ranks -> Labels] /\ pc[1] \in Labels1
           /\ MainAt1(d, step[1], pc[1], Enqueued(d, at, ph, Main(1)))
           /\ Transfers(d, step[1], pc[1], recorded["done1"], Enqueued(d, at, ph, Tp(1)))
           /\ KindedAt(d, step[1], pc[1])
           /\ step[1] > d /\ (pc[1] # "sync" \/ step[1] > d + 1) =>
                 (Serialize => at[Main(1)] > d)
           /\ pc[1] \in {"verify", "verifying"} => verify[1] > 0
           /\ verify[0] = verify[1]
           /\ Main(1) \in Scripted /\ Tp(1) \in Scripted
           /\ Labels1 \subseteq Labels
<1>1. /\ Shape /\ Dummies(d) /\ Cursors(d, at, ph) /\ Queues(d, at, ph) /\ Mains(d, at, ph)
      /\ Counts(d, at, ph) /\ Kinded(d) /\ Ranked(d, at, ph)
  BY DEF IInv
<1>2. 0 \in Ranks /\ 1 \in Ranks /\ d \in Nat /\ MaxStep \in Nat
  BY StepAssumption DEF Ranks
<1>3. /\ step[1] \in Nat /\ step[1] <= MaxStep /\ recorded["done1"] \in Nat
      /\ pc \in [Ranks -> Labels] /\ pc[1] \in Labels1
  BY <1>1, <1>2 DEF Shape, Contents, Events
<1>4. /\ MainAt1(d, step[1], pc[1], Enqueued(d, at, ph, Main(1)))
      /\ Transfers(d, step[1], pc[1], recorded["done1"], Enqueued(d, at, ph, Tp(1)))
      /\ KindedAt(d, step[1], pc[1])
  BY <1>1, Split DEF Mains
<1>5. /\ step[1] > d /\ (pc[1] # "sync" \/ step[1] > d + 1) => (Serialize => at[Main(1)] > d)
      /\ pc[1] \in {"verify", "verifying"} => verify[1] > 0
      /\ verify[0] = verify[1]
  BY <1>1, <1>2 DEF Ranked
<1>6. Labels1 \subseteq Labels
  BY DEF Labels1, Labels
<1> QED
  BY <1>1, <1>2, <1>3, <1>4, <1>5, <1>6, StreamFacts

\* A step of rank 1 that enqueues nothing.
LEMMA Goes1 ==
    ASSUME NEW d \in 0..MaxStep, NEW at, NEW ph, IInv(d, at, ph), HostFrame,
           UNCHANGED <<queue, recorded, verify, finished, conn, rqst>>,
           NEW m \in Labels1, m # "failed", pc[1] # "failed", pc' = [pc EXCEPT ![1] = m],
           step' \in [Ranks -> Contents], step'[0] = step[0],
           digest' \in [Ranks -> Contents], digest'[0] = digest[0],
           MainAt1(d, step'[1], m, Enqueued(d, at, ph, Main(1))),
           Transfers(d, step'[1], m, recorded["done1"], Enqueued(d, at, ph, Tp(1))),
           KindedAt(d, step'[1], m), Stays(d, 1) \/ Begins(1),
           m \in {"verify", "verifying"} => verify[1] > 0,
           m = "drained" => at[Tp(1)] > step'[1],
           m = "verifying" /\ Clean /\ Serialize => digest'[1] = step'[1],
           step'[1] > d /\ (m # "sync" \/ step'[1] > d + 1) => (Serialize => at[Main(1)] > d)
    PROVE  IInv(d, at, ph)'
<1>1. /\ Shape /\ Queues(d, at, ph) /\ pc \in [Ranks -> Labels] /\ Labels1 \subseteq Labels
      /\ 0 \in Ranks /\ 1 \in Ranks
  BY Of1
<1>2. /\ pc'[0] = pc[0] /\ pc'[1] = m /\ pc' \in [Ranks -> Labels]
  BY <1>1
<1>3. Shape'
  BY <1>1, <1>2 DEF Shape, HostFrame, workload, conn, rqst
<1>4. /\ Queues(d, at, ph)' /\ Grown
      /\ \A s : Enqueued(d, at, ph, s)' = Enqueued(d, at, ph, s)
  BY <1>1, Same
<1>5. Clean' <=> Clean
  BY <1>2 DEF Clean, conn
<1>6. Ranked(d, at, ph)'
  BY <1>2, <1>3, <1>5, OneRanked
<1>7. /\ Enqueued(d, at, ph, Main(1))' = Enqueued(d, at, ph, Main(1))
      /\ Enqueued(d, at, ph, Tp(1))' = Enqueued(d, at, ph, Tp(1))
  BY <1>4
<1>8. /\ MainAt1(d, step[1], pc[1], Enqueued(d, at, ph, Main(1)))'
      /\ Transfers(d, step[1], pc[1], recorded["done1"], Enqueued(d, at, ph, Tp(1)))'
  BY <1>2, <1>7
<1>9. KindedAt(d, step[1], pc[1])'
  BY <1>2 DEF KindedAt, Serial, HostFrame, workload
<1> QED
  BY <1>2, <1>3, <1>4, <1>6, <1>8, <1>9, Rank1Step

LEMMA Pushes1 ==
    ASSUME NEW d \in 0..MaxStep, NEW at, NEW ph, IInv(d, at, ph), HostFrame,
           UNCHANGED <<recorded, step, verify, digest, finished, conn, rqst>>,
           NEW n, NEW m, NEW k, NEW ops, pc' = [pc EXCEPT ![1] = m], queue' = On(Main(1), ops),
           Pushing1(d, at, ph, n, m, k, ops)
    PROVE  IInv(d, at, ph)'
<1>0. /\ n = step[1] /\ n \in Steps /\ k \in Nat /\ ops \in Seq(Ops) /\ m \in Labels1
      /\ pc[1] \in {"dummy", "forward", "release"} /\ m \in {"forward", "release", "idle"}
      /\ Enqueued(d, at, ph, Main(1)) = Base(d, Main(1), n) + k
      /\ k + Len(ops) <= Size(d, Main(1), n)
      /\ \A i \in 1..Len(ops) : ops[i] = Script(d, Main(1), n)[k + i]
      /\ MainAt1(d, n, m, Base(d, Main(1), n) + k + Len(ops))
      /\ pc[1] = "dummy" => n <= d
  BY DEF Pushing1
<1>1. /\ Shape /\ Queues(d, at, ph) /\ Cursors(d, at, ph)
      /\ pc \in [Ranks -> Labels] /\ Labels1 \subseteq Labels
      /\ 0 \in Ranks /\ 1 \in Ranks /\ Main(1) \in Scripted /\ d \in Nat /\ n \in Nat
      /\ Transfers(d, n, pc[1], recorded["done1"], Enqueued(d, at, ph, Tp(1)))
      /\ n > d /\ (pc[1] # "sync" \/ n > d + 1) => (Serialize => at[Main(1)] > d)
  BY <1>0, Of1
<1>2. pc'[0] = pc[0] /\ pc'[1] = m /\ pc' \in [Ranks -> Labels]
  BY <1>0, <1>1
<1>3. /\ Queues(d, at, ph)' /\ Grown
      /\ Enqueued(d, at, ph, Main(1))' = Base(d, Main(1), n) + k + Len(ops)
      /\ \A t \in Streams \ {Main(1)} : /\ queue'[t] = queue[t]
                                        /\ Enqueued(d, at, ph, t)' = Enqueued(d, at, ph, t)
                                        /\ Idle(t)' = Idle(t)
  <2>1. /\ Shape /\ Queues(d, at, ph) /\ Cursors(d, at, ph) /\ n \in Steps /\ k \in Nat
        /\ ops \in Seq(Ops) /\ d \in 0..MaxStep /\ Main(1) \in Scripted
        /\ Enqueued(d, at, ph, Main(1)) = Base(d, Main(1), n) + k
        /\ k + Len(ops) <= Size(d, Main(1), n) /\ queue' = On(Main(1), ops)
        /\ \A i \in 1..Len(ops) : ops[i] = Script(d, Main(1), n)[k + i]
    BY <1>0, <1>1
  <2> QED
    BY ONLY <2>1, Push
<1>4. Shape'
  BY <1>0, <1>1, <1>2, <1>3 DEF Shape, HostFrame, workload, conn, rqst, Grown
<1>5. Clean' <=> Clean
  BY <1>0, <1>2 DEF Clean, conn
<1>6. Stays(d, 1)
  <2>1. Serial(n) => n > d
    BY <1>0, <1>1, Of1 DEF Dummies, Real, Serial
  <2>2. {"forward", "release", "idle"} \subseteq AfterStatus \cap AfterDrained \cap AfterVerify
    BY DEF AfterStatus, AfterDrained, AfterVerify, Resting
  <2> QED
    BY <1>0, <1>2, <2>1, <2>2, <1>1 DEF Stays
<1>7. Ranked(d, at, ph)'
  <2>1. step'[1] > d /\ (pc'[1] # "sync" \/ step'[1] > d + 1) => (Serialize => at[Main(1)] > d)
    BY <1>0, <1>1
  <2> QED
    BY <1>0, <1>2, <1>4, <1>5, <1>6, <2>1, OneRanked
<1>8. MainAt1(d, step[1], pc[1], Enqueued(d, at, ph, Main(1)))'
  BY <1>0, <1>2, <1>3
<1>9. Transfers(d, step[1], pc[1], recorded["done1"], Enqueued(d, at, ph, Tp(1)))'
  <2>1. Enqueued(d, at, ph, Tp(1))' = Enqueued(d, at, ph, Tp(1))
    BY <1>0, <1>3, StreamFacts
  <2>2. Transfers(d, n, m, recorded["done1"], Enqueued(d, at, ph, Tp(1)))
    BY <1>0, <1>1 DEF Transfers, Counted
  <2> QED
    BY <1>0, <1>2, <2>1, <2>2
<1>10. KindedAt(d, step[1], pc[1])'
  BY <1>0, <1>1, <1>2 DEF KindedAt, Steps
<1> QED
  BY <1>0, <1>2, <1>3, <1>4, <1>7, <1>8, <1>9, <1>10, Rank1Step

LEMMA Begin1Keeps ==
    ASSUME NEW d \in 0..MaxStep, NEW at, NEW ph, IInv(d, at, ph), Begin(1)
    PROVE  IInv(d, at, ph)'
<1> DEFINE n == step[1]
           m == CASE ~Real(n + 1) -> "dummy" [] Serial(n + 1) -> "sync" [] OTHER -> "prepare"
           e == Enqueued(d, at, ph, Main(1))
           c == recorded["done1"]
<1>1. /\ Shape /\ Dummies(d) /\ d \in Nat /\ MaxStep \in Nat /\ n \in Nat /\ c \in Nat
      /\ 1 \in Ranks /\ 0 \in Ranks
      /\ MainAt1(d, n, pc[1], e) /\ Transfers(d, n, pc[1], c, Enqueued(d, at, ph, Tp(1)))
      /\ n > d /\ (pc[1] # "sync" \/ n > d + 1) => (Serialize => at[Main(1)] > d)
  BY Of1
<1>2. /\ pc[1] = "idle" /\ n < MaxStep /\ step' = [step EXCEPT ![1] = n + 1]
      /\ pc' = [pc EXCEPT ![1] = m]
      /\ HostFrame /\ UNCHANGED <<queue, recorded, verify, digest, finished, conn, rqst>>
  BY DEF Begin, Goto, HostFrame
<1>3. n + 1 \in Steps /\ n + 1 \in Contents /\ step \in [Ranks -> Contents]
  <2>1. step \in [Ranks -> Contents]
    BY <1>1 DEF Shape
  <2> QED
    BY <1>1, <1>2, <2>1 DEF Steps, Contents
<1>4. step'[1] = n + 1 /\ step'[0] = step[0] /\ step' \in [Ranks -> Contents]
  BY <1>1, <1>2, <1>3
<1>5. /\ m = "dummy" => n + 1 <= d
      /\ m # "dummy" => n + 1 > d
      /\ m = "sync" => Serial(n + 1)
      /\ m \in {"dummy", "sync", "prepare"}
      /\ m = "prepare" => ~Serial(n + 1)
  BY <1>1, <1>3 DEF Dummies, Real, Serial
<1> HIDE DEF m
<1>6. m \in Labels1
  BY <1>5 DEF Labels1
<1>7. MainAt1(d, n + 1, m, e)
  BY <1>1, <1>2, <1>5 DEF MainAt1, Resting
<1>8. Transfers(d, n + 1, m, c, Enqueued(d, at, ph, Tp(1)))
  BY <1>1, <1>2, <1>5 DEF Transfers, Counted
<1>9. KindedAt(d, n + 1, m)
  BY <1>1, <1>5 DEF KindedAt
<1>10. Begins(1)
  BY <1>1, <1>2, <1>4, <1>5, Of1 DEF Begins
<1>11. n + 1 > d /\ (m # "sync" \/ n + 1 > d + 1) => (Serialize => at[Main(1)] > d)
  <2> SUFFICES ASSUME n + 1 > d, m # "sync" \/ n + 1 > d + 1, Serialize
               PROVE  at[Main(1)] > d
    OBVIOUS
  <2>1. CASE n > d
    BY <1>1, <1>2, <2>1
  <2>2. CASE n <= d
    <3>1. n = d /\ m # "sync" /\ d + 1 \in Steps
      BY <1>1, <1>3, <2>2
    <3>2. Serial(n + 1)
      BY <1>1, <3>1, FirstReal
    <3>3. m \in {"dummy", "prepare"}
      BY <1>5, <3>1
    <3> QED
      BY <1>1, <1>5, <3>1, <3>2, <3>3
  <2> QED
    BY <1>1, <2>1, <2>2
<1>12. digest' \in [Ranks -> Contents] /\ digest'[0] = digest[0]
  BY <1>1, <1>2 DEF Shape
<1>13. m \notin {"failed", "verify", "verifying", "drained"}
  BY <1>5
<1>14. pc[1] # "failed"
  BY <1>2
<1> HIDE DEF n, e, c
<1> QED
  BY <1>2, <1>4, <1>6, <1>7, <1>8, <1>9, <1>10, <1>11, <1>12, <1>13, <1>14, Goes1 DEF n, e, c

LEMMA SyncMain1Keeps ==
    ASSUME NEW d \in 0..MaxStep, NEW at, NEW ph, IInv(d, at, ph), SyncMain(1)
    PROVE  IInv(d, at, ph)'
<1> DEFINE n == step[1]
           e == Enqueued(d, at, ph, Main(1))
           c == recorded["done1"]
<1>1. /\ Shape /\ Cursors(d, at, ph) /\ d \in Nat /\ n \in Nat /\ Main(1) \in Scripted
      /\ MainAt1(d, n, pc[1], e) /\ Transfers(d, n, pc[1], c, Enqueued(d, at, ph, Tp(1)))
      /\ KindedAt(d, n, pc[1])
  BY Of1
<1>2. /\ pc[1] = "sync" /\ Idle(Main(1)) /\ pc' = [pc EXCEPT ![1] = "prepare"]
      /\ HostFrame /\ UNCHANGED <<queue, recorded, step, verify, digest, finished, conn, rqst>>
  BY DEF SyncMain, Goto, HostFrame, gpu
<1>3. n > d /\ n >= 1 /\ e = Base(d, Main(1), n)
  BY <1>1, <1>2 DEF KindedAt, MainAt1
<1>4. at[Main(1)] = n
  <2>1. Size(d, Main(1), n) = 4 /\ n \in Nat \ {0} /\ Base(d, Main(1), n) \in Int
    <3>1. Size(d, Main(1), n) = 4 /\ Base(d, Main(1), n) = 5 * d + 4 * (n - d - 1)
      BY <1>1, <1>3, Bases
    <3> QED
      BY <1>1, <1>3, <3>1
  <2>2. e = Base(d, Main(1), n) + 0
    BY <1>3, <2>1
  <2>3. 0 \in Nat /\ 0 < Size(d, Main(1), n)
    BY <2>1
  <2> QED
    BY <1>1, <1>2, <2>1, <2>2, <2>3, IdleIn
<1>5. MainAt1(d, n, "prepare", e)
  BY <1>3 DEF MainAt1
<1>6. Transfers(d, n, "prepare", c, Enqueued(d, at, ph, Tp(1)))
  BY <1>1, <1>2 DEF Transfers, Counted
<1>7. KindedAt(d, n, "prepare")
  BY <1>3 DEF KindedAt
<1>8. Stays(d, 1)
  <2>1. {"sync", "prepare"} \cap (AfterStatus \cup AfterDrained \cup AfterVerify) = {}
    BY DEF AfterStatus, AfterDrained, AfterVerify, Resting
  <2>2. pc'[1] = "prepare"
    BY <1>2, Of1
  <2> QED
    BY <1>2, <2>1, <2>2 DEF Stays
<1>9. /\ "prepare" \in Labels1 /\ step' \in [Ranks -> Contents]
      /\ digest' \in [Ranks -> Contents] /\ step'[0] = step[0] /\ digest'[0] = digest[0]
      /\ step'[1] = n
  BY <1>1, <1>2 DEF Shape, Labels1
<1> HIDE DEF n, e, c
<1> QED
  BY <1>2, <1>3, <1>4, <1>5, <1>6, <1>7, <1>8, <1>9, Goes1 DEF n, e, c

LEMMA PrepareRemoteKeeps ==
    ASSUME NEW d \in 0..MaxStep, NEW at, NEW ph, IInv(d, at, ph), PrepareRemote
    PROVE  IInv(d, at, ph)'
<1> DEFINE n == step[1]
           m == IF Serial(n) THEN "status" ELSE "transport"
           e == Enqueued(d, at, ph, Main(1))
           c == recorded["done1"]
<1>1. /\ Shape /\ d \in Nat /\ n \in Nat
      /\ MainAt1(d, n, pc[1], e) /\ Transfers(d, n, pc[1], c, Enqueued(d, at, ph, Tp(1)))
      /\ KindedAt(d, n, pc[1])
      /\ n > d /\ (pc[1] # "sync" \/ n > d + 1) => (Serialize => at[Main(1)] > d)
  BY Of1
<1>2. /\ pc[1] = "prepare" /\ pc' = [pc EXCEPT ![1] = m]
      /\ HostFrame /\ UNCHANGED <<queue, recorded, step, verify, digest, finished, conn, rqst>>
  BY DEF PrepareRemote, Goto, HostFrame, gpu
<1>3. n > d /\ n >= 1 /\ e = Base(d, Main(1), n)
  BY <1>1, <1>2 DEF KindedAt, MainAt1
<1>4. m \in {"status", "transport"} /\ (m = "status" <=> Serial(n))
  OBVIOUS
<1> HIDE DEF m
<1>5. MainAt1(d, n, m, e)
  BY <1>3, <1>4 DEF MainAt1, Resting
<1>6. Transfers(d, n, m, c, Enqueued(d, at, ph, Tp(1)))
  BY <1>1, <1>2, <1>4 DEF Transfers, Counted
<1>7. KindedAt(d, n, m)
  BY <1>3, <1>4 DEF KindedAt
<1>8. Stays(d, 1)
  <2>1. /\ {"status", "prepare"} \cap (AfterStatus \cup AfterDrained \cup AfterVerify) = {}
        /\ "transport" \notin AfterVerify
    BY DEF AfterStatus, AfterDrained, AfterVerify, Resting
  <2>2. pc'[1] = m
    BY <1>2, Of1
  <2> QED
    BY <1>2, <1>4, <2>1, <2>2 DEF Stays
<1>9. /\ m \in Labels1 /\ step' \in [Ranks -> Contents]
      /\ digest' \in [Ranks -> Contents] /\ step'[0] = step[0] /\ digest'[0] = digest[0]
      /\ step'[1] = n
  BY <1>1, <1>2, <1>4 DEF Shape, Labels1
<1>10. Serialize => at[Main(1)] > d
  BY <1>1, <1>2, <1>3
<1>11. m \notin {"failed", "verify", "verifying", "drained"}
  BY <1>4
<1> HIDE DEF n, e, c
<1> QED
  BY <1>2, <1>5, <1>6, <1>7, <1>8, <1>9, <1>10, <1>11, Goes1 DEF n, e, c

LEMMA Drain1Keeps ==
    ASSUME NEW d \in 0..MaxStep, NEW at, NEW ph, IInv(d, at, ph), Drain(1)
    PROVE  IInv(d, at, ph)'
<1> DEFINE n == step[1]
           e == Enqueued(d, at, ph, Main(1))
           c == recorded["done1"]
<1>1. /\ Shape /\ Cursors(d, at, ph) /\ d \in Nat /\ n \in Nat /\ Tp(1) \in Scripted
      /\ MainAt1(d, n, pc[1], e) /\ Transfers(d, n, pc[1], c, Enqueued(d, at, ph, Tp(1)))
      /\ KindedAt(d, n, pc[1]) /\ 1 \in Ranks
      /\ n > d /\ (pc[1] # "sync" \/ n > d + 1) => (Serialize => at[Main(1)] > d)
  BY Of1
<1>2. /\ pc[1] = "drain" /\ Idle(Tp(1)) /\ pc' = [pc EXCEPT ![1] = "drained"]
      /\ HostFrame /\ UNCHANGED <<queue, recorded, step, verify, digest, finished, conn, rqst>>
  BY DEF Drain, Goto, HostFrame, gpu
<1>3. n > d /\ n >= 1 /\ e = Base(d, Main(1), n) /\ Serial(n)
  BY <1>1, <1>2 DEF KindedAt, MainAt1
<1>4. at[Tp(1)] = n + 1
  <2>1. Enqueued(d, at, ph, Tp(1)) = 4 * (n - d)
    BY <1>1, <1>2, <1>3 DEF Transfers, Counted
  <2>2. Base(d, Tp(1), n + 1) = 4 * (n - d) /\ Size(d, Tp(1), n + 1) = 4
    BY <1>1, <1>3, NextBases
  <2>3. /\ Enqueued(d, at, ph, Tp(1)) = Base(d, Tp(1), n + 1) + 0 /\ n + 1 \in Nat \ {0}
        /\ 0 \in Nat /\ 0 < Size(d, Tp(1), n + 1)
    BY <1>1, <2>1, <2>2
  <2> QED
    BY <1>1, <1>2, <2>3, IdleIn
<1>5. MainAt1(d, n, "drained", e)
  BY <1>3 DEF MainAt1
<1>6. Transfers(d, n, "drained", c, Enqueued(d, at, ph, Tp(1)))
  BY <1>1, <1>2 DEF Transfers, Counted
<1>7. KindedAt(d, n, "drained")
  BY <1>3 DEF KindedAt
<1>8. Stays(d, 1)
  <2>1. /\ {"drain", "drained"} \cap (AfterDrained \cup AfterVerify) = {}
        /\ {"drain", "drained"} \subseteq AfterStatus
    BY DEF AfterStatus, AfterDrained, AfterVerify, Resting
  <2>2. pc'[1] = "drained"
    BY <1>2, Of1
  <2> QED
    BY <1>2, <2>1, <2>2 DEF Stays
<1>9. /\ "drained" \in Labels1 /\ step' \in [Ranks -> Contents]
      /\ digest' \in [Ranks -> Contents] /\ step'[0] = step[0] /\ digest'[0] = digest[0]
      /\ step'[1] = n
  BY <1>1, <1>2 DEF Shape, Labels1
<1>10. (Serialize => at[Main(1)] > d) /\ at[Tp(1)] > n
  BY <1>1, <1>2, <1>3, <1>4
<1> HIDE DEF n, e, c
<1> QED
  BY <1>2, <1>5, <1>6, <1>7, <1>8, <1>9, <1>10, Goes1 DEF n, e, c

\* The transport stream of rank r has done the transfer of step n.
LEMMA Transferring ==
    ASSUME NEW d \in 0..MaxStep, NEW at, NEW ph, Shape, Cursors(d, at, ph), NEW r \in Ranks,
           Idle(Tp(r)), NEW n \in Nat, n > d, NEW l \in {"drain", "verify"}, NEW c,
           Transfers(d, n, l, c, Enqueued(d, at, ph, Tp(r)))
    PROVE  at[Tp(r)] = n + 1
<1>1. d \in Nat /\ Tp(r) \in Scripted
  BY StreamFacts, StepAssumption DEF Ranks
<1>2. Enqueued(d, at, ph, Tp(r)) = 4 * (n - d)
  BY <1>1 DEF Transfers, Counted
<1>3. Base(d, Tp(r), n + 1) = 4 * (n - d) /\ Size(d, Tp(r), n + 1) = 4
  BY <1>1, NextBases
<1>4. /\ Enqueued(d, at, ph, Tp(r)) = Base(d, Tp(r), n + 1) + 0 /\ n + 1 \in Nat \ {0}
      /\ 0 \in Nat /\ 0 < Size(d, Tp(r), n + 1)
  BY <1>1, <1>2, <1>3
<1> QED
  BY <1>1, <1>4, IdleIn

LEMMA Verify1Keeps ==
    ASSUME NEW d \in 0..MaxStep, NEW at, NEW ph, IInv(d, at, ph), Verify(1)
    PROVE  IInv(d, at, ph)'
<1> DEFINE n == step[1]
           e == Enqueued(d, at, ph, Main(1))
           c == recorded["done1"]
<1>1. /\ Shape /\ Cursors(d, at, ph) /\ d \in Nat /\ n \in Nat /\ Main(1) \in Scripted
      /\ MainAt1(d, n, pc[1], e) /\ Transfers(d, n, pc[1], c, Enqueued(d, at, ph, Tp(1)))
      /\ KindedAt(d, n, pc[1]) /\ 1 \in Ranks /\ Device1(d, at, ph)
      /\ n > d /\ (pc[1] # "sync" \/ n > d + 1) => (Serialize => at[Main(1)] > d)
      /\ pc[1] \in {"verify", "verifying"} => verify[1] > 0
  BY Of1 DEF IInv
<1>2. /\ pc[1] = "verify" /\ Idle(Tp(1)) /\ Idle(Main(1)) /\ pc' = [pc EXCEPT ![1] = "verifying"]
      /\ digest' = [digest EXCEPT ![1] = output[1]]
      /\ HostFrame /\ UNCHANGED <<queue, recorded, step, verify, finished, conn, rqst>>
  BY DEF Verify, Goto, HostFrame, gpu
<1>3. n > d /\ n >= 1 /\ e = Base(d, Main(1), n)
  BY <1>1, <1>2 DEF KindedAt, MainAt1
<1>4. at[Tp(1)] = n + 1
  <2>1. Transfers(d, n, "verify", c, Enqueued(d, at, ph, Tp(1)))
    BY <1>1, <1>2
  <2> HIDE DEF n, c
  <2> QED
    BY <1>1, <1>2, <1>3, <2>1, Transferring
<1>5. at[Main(1)] = n
  <2>1. Size(d, Main(1), n) = 4 /\ Base(d, Main(1), n) = 5 * d + 4 * (n - d - 1)
    BY <1>1, <1>3, Bases
  <2>2. /\ e = Base(d, Main(1), n) + 0 /\ n \in Nat \ {0} /\ 0 \in Nat
        /\ 0 < Size(d, Main(1), n)
    BY <1>1, <1>3, <2>1
  <2> QED
    BY <1>1, <1>2, <2>2, IdleIn
<1>6. Clean /\ Serialize => output[1] = n
  BY <1>1, <1>3, <1>4, <1>5 DEF Device1, Received
<1>7. MainAt1(d, n, "verifying", e)
  BY <1>3 DEF MainAt1
<1>8. Transfers(d, n, "verifying", c, Enqueued(d, at, ph, Tp(1)))
  BY <1>1, <1>2 DEF Transfers, Counted
<1>9. KindedAt(d, n, "verifying")
  BY <1>3 DEF KindedAt
<1>10. Stays(d, 1)
  <2>1. /\ {"verify", "verifying"} \subseteq AfterStatus \cap AfterDrained
        /\ {"verify", "verifying"} \cap AfterVerify = {}
    BY DEF AfterStatus, AfterDrained, AfterVerify, Resting
  <2>2. pc'[1] = "verifying"
    BY <1>2, Of1
  <2> QED
    BY <1>2, <2>1, <2>2 DEF Stays
<1>11. /\ "verifying" \in Labels1 /\ step' \in [Ranks -> Contents]
       /\ step'[0] = step[0] /\ step'[1] = n
  BY <1>1, <1>2 DEF Shape, Labels1
<1>12. digest' \in [Ranks -> Contents] /\ digest'[0] = digest[0] /\ digest'[1] = output[1]
  <2>1. digest \in [Ranks -> Contents] /\ output[1] \in Contents
    BY <1>1 DEF Shape
  <2> QED
    BY <1>1, <1>2, <2>1
<1>13. (Serialize => at[Main(1)] > d) /\ verify[1] > 0
  BY <1>1, <1>2, <1>3
<1> HIDE DEF n, e, c
<1> QED
  BY <1>2, <1>6, <1>7, <1>8, <1>9, <1>10, <1>11, <1>12, <1>13, Goes1 DEF n, e, c

\* The operations that the threads enqueue.
LEMMA Enqueuing ==
    ASSUME NEW n \in Steps, NEW j \in 0..MaxStep, NEW e \in Events
    PROVE  /\ <<Op("stage", n)>> \in Seq(Ops) /\ <<Record(e)>> \in Seq(Ops)
           /\ <<Await(e, j)>> \in Seq(Ops)
           /\ <<Op("zero", 0), WriteValue(1)>> \in Seq(Ops)
           /\ <<WaitValue(1), Op("consume", n)>> \in Seq(Ops)
           /\ <<Await(e, j), WriteValue(0)>> \in Seq(Ops) /\ <<WriteValue(0)>> \in Seq(Ops)
           /\ <<Await(e, j), WaitValue(1), Op("broadcast", n), Record(e)>> \in Seq(Ops)
           /\ <<WaitValue(0), Op("broadcast", n), WriteValue(1), Record(e)>> \in Seq(Ops)
           /\ <<Await("input_ready", j), Op("copy", 0), Record("d2h_done")>> \in Seq(Ops)
           /\ <<WaitValue(0), Op("gather", n), WriteValue(1)>> \in Seq(Ops)
           /\ <<WaitValue(0), Op("gather", n)>> \in Seq(Ops) /\ <<WaitValue(0)>> \in Seq(Ops)
<1>1. n \in 0..(MaxStep + 1) /\ j \in 0..(MaxStep + 1) /\ 0 \in 0..(MaxStep + 1) /\ 1 \in 0..(MaxStep + 1)
  BY StepAssumption DEF Steps
<1>2. /\ Op("stage", n) \in Ops /\ Op("zero", 0) \in Ops /\ Op("consume", n) \in Ops
      /\ Op("broadcast", n) \in Ops /\ Op("copy", 0) \in Ops /\ Op("gather", n) \in Ops
  BY <1>1 DEF Ops, Op, Moves
<1>3. /\ Record(e) \in Ops /\ Record("d2h_done") \in Ops /\ Await(e, j) \in Ops
      /\ Await("input_ready", j) \in Ops
  BY <1>1 DEF Ops, Record, Await, Events
<1>4. /\ WaitValue(0) \in Ops /\ WaitValue(1) \in Ops /\ WriteValue(0) \in Ops
      /\ WriteValue(1) \in Ops
  BY <1>1 DEF Ops, WaitValue, WriteValue, Op
<1> QED
  BY <1>2, <1>3, <1>4

LEMMA Pair ==
    ASSUME NEW x \in Ops, NEW y \in Ops
    PROVE  <<x>> \o <<y>> = <<x, y>>
<1> DEFINE s == <<x>>
           t == <<y>>
           p == <<x, y>>
<1>1. /\ s \in Seq(Ops) /\ t \in Seq(Ops) /\ p \in Seq(Ops) /\ Len(s) = 1 /\ Len(t) = 1
      /\ Len(p) = 2 /\ s[1] = x /\ t[1] = y /\ p[1] = x /\ p[2] = y
  OBVIOUS
<1> HIDE DEF s, t, p
<1>2. /\ s \o t \in Seq(Ops) /\ Len(s \o t) = 2 /\ (s \o t)[1] = x /\ (s \o t)[2] = y
  <2>1. /\ s \o t \in Seq(Ops) /\ Len(s \o t) = Len(s) + Len(t)
        /\ \A i \in 1..Len(s) : (s \o t)[i] = s[i]
        /\ \A i \in 1..Len(t) : (s \o t)[Len(s) + i] = t[i]
    BY <1>1, Concat
  <2> QED
    BY <1>1, <2>1
<1>3. \A i \in 1..2 : (s \o t)[i] = p[i]
  BY <1>1, <1>2
<1>4. s \o t = p
  BY <1>1, <1>2, <1>3, SeqEqual
<1> QED
  BY <1>4 DEF s, t, p

LEMMA SignalDummy1Keeps ==
    ASSUME NEW d \in 0..MaxStep, NEW at, NEW ph, IInv(d, at, ph), SignalDummy(1)
    PROVE  IInv(d, at, ph)'
<1> DEFINE n == step[1]
           ops == <<Op("zero", 0), WriteValue(1)>>
<1>1. /\ Shape /\ d \in Nat /\ n \in Nat /\ n <= MaxStep
      /\ MainAt1(d, n, pc[1], Enqueued(d, at, ph, Main(1))) /\ KindedAt(d, n, pc[1])
  BY Of1
<1>2. /\ pc[1] = "dummy" /\ pc' = [pc EXCEPT ![1] = "forward"] /\ queue' = On(Main(1), ops)
      /\ HostFrame /\ UNCHANGED <<recorded, step, verify, digest, finished, conn, rqst>>
  BY DEF SignalDummy, Goto, HostFrame, conn
<1>3. n <= d /\ n >= 1 /\ Enqueued(d, at, ph, Main(1)) = Base(d, Main(1), n)
  BY <1>1, <1>2 DEF KindedAt, MainAt1
<1>4. Base(d, Main(1), n) = 5 * (n - 1) /\ Size(d, Main(1), n) = 5 /\ n \in Steps
  <2>1. ~(n > d)
    BY <1>1, <1>3
  <2>2. Base(d, Main(1), n) = 5 * (n - 1) /\ Size(d, Main(1), n) = 5
    BY <1>1, <2>1, Bases
  <2> QED
    BY <1>1, <1>3, <2>2 DEF Steps
<1>5. Script(d, Main(1), n)[1] = Op("zero", 0) /\ Script(d, Main(1), n)[2] = WriteValue(1)
  <2>1. Script(d, Main(1), n) = MainScript1(d, n) /\ ~(n > d)
    BY <1>1, <1>3, Scripts
  <2>2. MainScript1(d, n) =
          <<Op("zero", 0), WriteValue(1), WaitValue(1), Op("consume", n), WriteValue(0)>>
    BY <2>1 DEF MainScript1
  <2> QED
    BY <2>1, <2>2
<1>6. /\ ops \in Seq(Ops) /\ Len(ops) = 2
      /\ \A i \in 1..Len(ops) : ops[i] = Script(d, Main(1), n)[0 + i]
  <2>1. ops \in Seq(Ops)
    <3>1. 0 \in 0..MaxStep /\ "done1" \in Events
      BY StepAssumption DEF Events
    <3> QED
      BY <1>4, <3>1, Enqueuing
  <2> QED
    BY <1>5, <2>1
<1>7. MainAt1(d, n, "forward", Base(d, Main(1), n) + 0 + 2)
  BY <1>1, <1>3, <1>4 DEF MainAt1, Resting
<1>8. /\ Enqueued(d, at, ph, Main(1)) = Base(d, Main(1), n) + 0
      /\ 0 + Len(ops) <= Size(d, Main(1), n)
      /\ MainAt1(d, n, "forward", Base(d, Main(1), n) + 0 + Len(ops))
  BY <1>1, <1>3, <1>4, <1>6, <1>7
<1>9. "forward" \in Labels1 /\ 0 \in Nat /\ n = step[1]
  BY DEF Labels1
<1> HIDE DEF n, ops
<1>10. Pushing1(d, at, ph, n, "forward", 0, ops)
  BY <1>2, <1>3, <1>4, <1>6, <1>8, <1>9 DEF Pushing1
<1> QED
  BY <1>2, <1>10, Pushes1

LEMMA Forward1Keeps ==
    ASSUME NEW d \in 0..MaxStep, NEW at, NEW ph, IInv(d, at, ph), Forward(1)
    PROVE  IInv(d, at, ph)'
<1> DEFINE n == step[1]
           ops == <<WaitValue(1), Op("consume", n)>>
           k == IF n > d THEN 0 ELSE 2
<1>1. /\ Shape /\ d \in Nat /\ n \in Nat /\ n <= MaxStep
      /\ MainAt1(d, n, pc[1], Enqueued(d, at, ph, Main(1))) /\ KindedAt(d, n, pc[1])
  BY Of1
<1>2. /\ pc[1] = "forward" /\ pc' = [pc EXCEPT ![1] = "release"] /\ queue' = On(Main(1), ops)
      /\ HostFrame /\ UNCHANGED <<recorded, step, verify, digest, finished, conn, rqst>>
  BY DEF Forward, Goto, HostFrame
<1>3. n >= 1 /\ Enqueued(d, at, ph, Main(1)) = Base(d, Main(1), n) + k
  BY <1>1, <1>2 DEF KindedAt, MainAt1
<1>4. /\ Base(d, Main(1), n) \in Int /\ Size(d, Main(1), n) = (IF n > d THEN 4 ELSE 5)
      /\ n \in Steps
  <2>1. /\ Base(d, Main(1), n) = IF n > d THEN 5 * d + 4 * (n - d - 1) ELSE 5 * (n - 1)
        /\ Size(d, Main(1), n) = IF n > d THEN 4 ELSE 5
    BY <1>1, Bases
  <2> QED
    BY <1>1, <1>3, <2>1 DEF Steps
<1>5. /\ Script(d, Main(1), n)[k + 1] = WaitValue(1)
      /\ Script(d, Main(1), n)[k + 2] = Op("consume", n)
  <2>1. Script(d, Main(1), n) = MainScript1(d, n)
    BY Scripts
  <2>2. CASE n > d
    <3>1. MainScript1(d, n) = <<WaitValue(1), Op("consume", n), Await("done1", n - d), WriteValue(0)>>
      BY <2>2 DEF MainScript1
    <3> QED
      BY <2>1, <2>2, <3>1
  <2>3. CASE ~(n > d)
    <3>1. MainScript1(d, n) =
            <<Op("zero", 0), WriteValue(1), WaitValue(1), Op("consume", n), WriteValue(0)>>
      BY <2>3 DEF MainScript1
    <3> QED
      BY <2>1, <2>3, <3>1
  <2> QED
    BY <2>2, <2>3
<1>6. k \in Nat /\ k \in {0, 2} /\ (k = 0 <=> n > d)
  OBVIOUS
<1>7. /\ ops \in Seq(Ops) /\ Len(ops) = 2
      /\ \A i \in 1..Len(ops) : ops[i] = Script(d, Main(1), n)[k + i]
  <2>1. ops \in Seq(Ops)
    <3>1. 0 \in 0..MaxStep /\ "done1" \in Events
      BY StepAssumption DEF Events
    <3> QED
      BY <1>4, <3>1, Enqueuing
  <2> HIDE DEF k
  <2> QED
    BY <1>5, <1>6, <2>1
<1>8. MainAt1(d, n, "release", Base(d, Main(1), n) + k + 2)
  BY <1>1, <1>4 DEF MainAt1, Resting
<1>9. /\ k + Len(ops) <= Size(d, Main(1), n)
      /\ MainAt1(d, n, "release", Base(d, Main(1), n) + k + Len(ops))
  BY <1>1, <1>4, <1>7, <1>8
<1>10. "release" \in Labels1 /\ n = step[1]
  BY DEF Labels1
<1> HIDE DEF n, ops, k
<1>11. Pushing1(d, at, ph, n, "release", k, ops)
  BY <1>2, <1>3, <1>4, <1>6, <1>7, <1>9, <1>10 DEF Pushing1
<1> QED
  BY <1>2, <1>11, Pushes1

LEMMA Release1Keeps ==
    ASSUME NEW d \in 0..MaxStep, NEW at, NEW ph, IInv(d, at, ph), Release(1)
    PROVE  IInv(d, at, ph)'
<1> DEFINE n == step[1]
           c == recorded["done1"]
           ops == IF n > d THEN <<Await("done1", c), WriteValue(0)>> ELSE <<WriteValue(0)>>
           k == IF n > d THEN 2 ELSE 4
<1>1. /\ Shape /\ Dummies(d) /\ d \in Nat /\ n \in Nat /\ n <= MaxStep /\ MaxStep \in Nat
      /\ c \in Nat
      /\ MainAt1(d, n, pc[1], Enqueued(d, at, ph, Main(1))) /\ KindedAt(d, n, pc[1])
      /\ Transfers(d, n, pc[1], c, Enqueued(d, at, ph, Tp(1)))
  BY Of1
<1>2. /\ pc[1] = "release" /\ pc' = [pc EXCEPT ![1] = "idle"]
      /\ queue' = On(Main(1), ReleaseOps(1, n))
      /\ HostFrame /\ UNCHANGED <<recorded, step, verify, digest, finished, conn, rqst>>
  BY DEF Release, Goto, HostFrame
<1>3. n >= 1 /\ Enqueued(d, at, ph, Main(1)) = Base(d, Main(1), n) + k
  BY <1>1, <1>2 DEF KindedAt, MainAt1
<1>4. /\ Base(d, Main(1), n) = IF n > d THEN 5 * d + 4 * (n - d - 1) ELSE 5 * (n - 1)
      /\ Size(d, Main(1), n) = IF n > d THEN 4 ELSE 5
  BY <1>1, Bases
<1>5. n \in Steps /\ (n > d => c = n - d) /\ (n <= d => c = 0)
  BY <1>1, <1>2, <1>3 DEF Steps, Transfers, Counted
<1>6. ReleaseOps(1, n) = ops
  <2>1. Real(n) <=> n > d
    BY <1>1, <1>5 DEF Dummies
  <2>2. WaitEvent(Done(1)) = Await("done1", c)
    BY DEF WaitEvent, Await, Done
  <2>3. <<Await("done1", c)>> \o <<WriteValue(0)>> = <<Await("done1", c), WriteValue(0)>>
    <3>1. c \in 0..(MaxStep + 1) /\ 0 \in 0..(MaxStep + 1)
      BY <1>1, <1>5
    <3>2. Await("done1", c) \in Ops /\ WriteValue(0) \in Ops
      BY <3>1 DEF Await, WriteValue, Op, Ops, Events
    <3> QED
      BY <3>2, Pair
  <2>4. <<>> \o <<WriteValue(0)>> = <<WriteValue(0)>>
    OBVIOUS
  <2> QED
    BY <2>1, <2>2, <2>3, <2>4 DEF ReleaseOps
<1>7. /\ n > d => /\ Script(d, Main(1), n)[3] = Await("done1", c)
                  /\ Script(d, Main(1), n)[4] = WriteValue(0)
      /\ ~(n > d) => Script(d, Main(1), n)[5] = WriteValue(0)
  <2>1. Script(d, Main(1), n) = MainScript1(d, n)
    BY Scripts
  <2>2. CASE n > d
    <3>1. MainScript1(d, n) = <<WaitValue(1), Op("consume", n), Await("done1", n - d), WriteValue(0)>>
      BY <2>2 DEF MainScript1
    <3> QED
      BY <1>5, <2>1, <2>2, <3>1
  <2>3. CASE ~(n > d)
    <3>1. MainScript1(d, n) =
            <<Op("zero", 0), WriteValue(1), WaitValue(1), Op("consume", n), WriteValue(0)>>
      BY <2>3 DEF MainScript1
    <3> QED
      BY <2>1, <2>3, <3>1
  <2> QED
    BY <2>2, <2>3
<1>8. ops \in Seq(Ops)
  <2>1. c \in 0..MaxStep /\ "done1" \in Events
    BY <1>1, <1>5 DEF Events
  <2> QED
    BY <1>5, <2>1, Enqueuing
<1>9. MainAt1(d, n, "idle", Base(d, Main(1), n) + k + Len(ops))
  <2>1. /\ Base(d, Main(1), n + 1) =
              IF n + 1 > d THEN 5 * d + 4 * ((n + 1) - d - 1) ELSE 5 * ((n + 1) - 1)
    BY <1>1, Sizes DEF Base
  <2>2. CASE n > d
    <3>1. Base(d, Main(1), n + 1) = 5 * d + 4 * ((n + 1) - d - 1) /\ k = 2 /\ Len(ops) = 2
      BY <1>1, <2>1, <2>2
    <3>2. Base(d, Main(1), n + 1) = Base(d, Main(1), n) + 2 + 2
      BY <1>1, <1>4, <2>2, <3>1
    <3> QED
      BY <3>1, <3>2 DEF MainAt1
  <2>3. CASE ~(n > d)
    <3>1. k = 4 /\ Len(ops) = 1 /\ Base(d, Main(1), n) = 5 * (n - 1)
      BY <1>4, <2>3
    <3>2. Base(d, Main(1), n + 1) = 5 * n
      BY <1>1, <2>1, <2>3
    <3>3. Base(d, Main(1), n + 1) = Base(d, Main(1), n) + 4 + 1
      BY <1>1, <3>1, <3>2
    <3> QED
      BY <3>1, <3>3 DEF MainAt1
  <2> QED
    BY <2>2, <2>3
<1>10. /\ k \in Nat /\ k + Len(ops) <= Size(d, Main(1), n)
       /\ \A i \in 1..Len(ops) : ops[i] = Script(d, Main(1), n)[k + i]
  <2>1. CASE n > d
    <3>1. ops = <<Await("done1", c), WriteValue(0)>> /\ k = 2
      BY <2>1
    <3> QED
      BY <1>4, <1>7, <2>1, <3>1
  <2>2. CASE ~(n > d)
    <3>1. ops = <<WriteValue(0)>> /\ k = 4
      BY <2>2
    <3> QED
      BY <1>4, <1>7, <2>2, <3>1
  <2> QED
    BY <2>1, <2>2
<1>11. "idle" \in Labels1 /\ n = step[1]
  BY DEF Labels1
<1>12. queue' = On(Main(1), ops)
  BY <1>2, <1>6
<1> HIDE DEF n, ops, k
<1>13. Pushing1(d, at, ph, n, "idle", k, ops)
  BY <1>2, <1>3, <1>5, <1>8, <1>9, <1>10, <1>11 DEF Pushing1
<1> QED
  BY <1>2, <1>12, <1>13, Pushes1

LEMMA Transfer1Keeps ==
    ASSUME NEW d \in 0..MaxStep, NEW at, NEW ph, IInv(d, at, ph), Transfer(1)
    PROVE  IInv(d, at, ph)'
<1> DEFINE n == step[1]
           c == recorded["done1"]
           C == recorded'["done1"]
           e == Enqueued(d, at, ph, Main(1))
           m == IF Serial(n) THEN "drain" ELSE Transferred(1)
           ops == <<WaitValue(0), Op("broadcast", n), WriteValue(1), Record("done1")>>
           k == 0
<1>1. /\ Shape /\ Cursors(d, at, ph) /\ Queues(d, at, ph) /\ Dummies(d)
      /\ d \in Nat /\ n \in Nat /\ n <= MaxStep /\ MaxStep \in Nat /\ c \in Nat
      /\ MainAt1(d, n, pc[1], e) /\ KindedAt(d, n, pc[1])
      /\ Transfers(d, n, pc[1], c, Enqueued(d, at, ph, Tp(1)))
      /\ pc \in [Ranks -> Labels] /\ 0 \in Ranks /\ 1 \in Ranks /\ Tp(1) \in Scripted
      /\ n > d /\ (pc[1] # "sync" \/ n > d + 1) => (Serialize => at[Main(1)] > d)
      /\ verify[0] = verify[1] /\ Labels1 \subseteq Labels
  BY Of1
<1>2. /\ pc[1] = "transport" /\ pc' = [pc EXCEPT ![1] = m]
      /\ recorded' = [recorded EXCEPT !["done1"] = @ + 1]
      /\ queue' = On(Tp(1), TransferOps(1, n))
      /\ HostFrame /\ UNCHANGED <<step, verify, digest, finished, conn, rqst>>
  BY DEF Transfer, Goto, HostFrame, Done
<1>3. queue' = On(Tp(1), ops)
  <2>1. TransferOps(1, n) = ops
    BY DEF TransferOps, Done
  <2> QED
    BY <1>2, <2>1
<1>4. /\ n > d /\ n \in Steps /\ e = Base(d, Main(1), n) /\ c = n - d - 1
      /\ Enqueued(d, at, ph, Tp(1)) = 4 * (n - d - 1)
  BY <1>1, <1>2 DEF KindedAt, MainAt1, Transfers, Counted, Steps
<1>5. /\ recorded \in [Events -> Nat] /\ "done1" \in Events
  BY <1>1 DEF Shape, Events
<1>6. /\ C = n - d /\ recorded' \in [Events -> Nat]
      /\ \A v \in Events \ {"done1"} : recorded'[v] = recorded[v]
  BY <1>1, <1>2, <1>4, <1>5
<1>7. Base(d, Tp(1), n) = 4 * (n - d - 1) /\ Size(d, Tp(1), n) = 4
  BY <1>1, <1>4, Bases
<1>8. /\ ops \in Seq(Ops) /\ Len(ops) = 4
      /\ \A i \in 1..Len(ops) : ops[i] = Script(d, Tp(1), n)[k + i]
  <2>1. ops \in Seq(Ops)
    <3>1. 0 \in 0..MaxStep
      BY <1>1
    <3> QED
      BY <1>4, <1>5, <3>1, Enqueuing
  <2>2. Script(d, Tp(1), n) = ops
    BY Scripts DEF TpScript1
  <2> QED
    BY <2>1, <2>2
<1>9. /\ k \in Nat /\ k + Len(ops) <= Size(d, Tp(1), n)
      /\ Enqueued(d, at, ph, Tp(1)) = Base(d, Tp(1), n) + k
      /\ Base(d, Tp(1), n) + k + Len(ops) = 4 * C
  BY <1>1, <1>4, <1>6, <1>7, <1>8
<1>10. /\ m \in {"drain", "verify", "forward"} /\ (m = "drain" <=> Serial(n))
       /\ m = "verify" => verify[1] > 0
       /\ ~Serial(n) /\ verify[1] > 0 => m = "verify"
  BY DEF Transferred
<1>11. n = step[1]
  OBVIOUS
<1> HIDE DEF m, ops, k, n, c, C, e
<1>12. /\ Queues(d, at, ph)' /\ Grown
       /\ Enqueued(d, at, ph, Tp(1))' = Base(d, Tp(1), n) + k + Len(ops)
       /\ \A t \in Streams \ {Tp(1)} : /\ queue'[t] = queue[t]
                                       /\ Enqueued(d, at, ph, t)' = Enqueued(d, at, ph, t)
                                       /\ Idle(t)' = Idle(t)
  <2> DEFINE s == Tp(1)
  <2>1. /\ Shape /\ Queues(d, at, ph) /\ Cursors(d, at, ph) /\ n \in Steps /\ k \in Nat
        /\ ops \in Seq(Ops) /\ d \in 0..MaxStep /\ s \in Scripted
        /\ Enqueued(d, at, ph, s) = Base(d, s, n) + k
        /\ k + Len(ops) <= Size(d, s, n) /\ queue' = On(s, ops)
        /\ \A i \in 1..Len(ops) : ops[i] = Script(d, s, n)[k + i]
    <3>1. d \in 0..MaxStep
      OBVIOUS
    <3> QED
      BY ONLY <3>1, <1>1, <1>3, <1>4, <1>8, <1>9 DEF s
  <2> HIDE DEF s
  <2>2. /\ Queues(d, at, ph)' /\ Grown
        /\ Enqueued(d, at, ph, s)' = Base(d, s, n) + k + Len(ops)
        /\ \A t \in Streams \ {s} : /\ queue'[t] = queue[t]
                                    /\ Enqueued(d, at, ph, t)' = Enqueued(d, at, ph, t)
                                    /\ Idle(t)' = Idle(t)
    BY ONLY <2>1, Push
  <2> QED
    BY ONLY <2>2 DEF s
<1>13. pc'[0] = pc[0] /\ pc'[1] = m /\ pc' \in [Ranks -> Labels] /\ m \in Labels1
  BY <1>1, <1>2, <1>10 DEF Labels1
<1>14. Shape'
  BY <1>1, <1>2, <1>6, <1>12, <1>13 DEF Shape, HostFrame, workload, conn, rqst, Grown
<1>15. Clean' <=> Clean
  BY <1>2, <1>13 DEF Clean, conn
<1>16. Stays(d, 1)
  <2>1. /\ {"transport", "drain"} \cap AfterDrained = {} /\ {"transport", "drain"} \subseteq AfterStatus
        /\ {"transport", "verify", "drain"} \cap AfterVerify = {}
    BY DEF AfterStatus, AfterDrained, AfterVerify, Resting
  <2>2. verify[0] > 0 => m \in {"drain", "verify"}
    BY <1>1, <1>10
  <2> QED
    BY <1>2, <1>10, <1>11, <1>13, <2>1, <2>2 DEF Stays
<1>17. Ranked(d, at, ph)'
  <2>1. /\ pc'[1] \in {"verify", "verifying"} => verify[1] > 0
        /\ pc'[1] # "drained" /\ pc'[1] # "verifying" /\ pc'[1] # "failed" /\ pc[1] # "failed"
        /\ step'[1] > d /\ (pc'[1] # "sync" \/ step'[1] > d + 1) => (Serialize => at[Main(1)] > d)
    BY <1>1, <1>2, <1>4, <1>10, <1>11, <1>13
  <2> QED
    BY <1>2, <1>13, <1>14, <1>15, <1>16, <2>1, OneRanked
<1>18. MainAt1(d, step[1], pc[1], Enqueued(d, at, ph, Main(1)))'
  <2>1. Enqueued(d, at, ph, Main(1))' = e
    BY <1>12, StreamFacts DEF e
  <2>2. Base(d, Main(1), n) = 5 * d + 4 * (n - d - 1)
    BY <1>1, <1>4, Bases
  <2>3. e = Base(d, Main(1), n) + 0
    BY <1>1, <1>4, <2>2
  <2>4. MainAt1(d, n, m, e)
    BY <1>4, <1>10, <2>3 DEF MainAt1, Resting
  <2> QED
    BY <1>2, <1>11, <1>13, <2>1, <2>4
<1>19. Transfers(d, step[1], pc[1], recorded["done1"], Enqueued(d, at, ph, Tp(1)))'
  <2>1. Transfers(d, n, m, C, 4 * C)
    BY <1>1, <1>4, <1>6, <1>10 DEF Transfers, Counted
  <2> QED
    BY <1>2, <1>9, <1>11, <1>12, <1>13, <2>1 DEF C
<1>20. KindedAt(d, step[1], pc[1])'
  <2>1. Serial(step[1])' <=> Serial(step[1])
    BY <1>2 DEF Serial, HostFrame, workload
  <2>2. step'[1] = n /\ n >= 1
    BY <1>2, <1>4, <1>11 DEF Steps
  <2>3. Serial(step[1])' <=> Serial(n)
    BY <1>11, <2>1
  <2> QED
    BY <1>4, <1>10, <1>13, <2>2, <2>3 DEF KindedAt
<1>21. \A s \in Streams \ {Main(1), Tp(1)} : queue'[s] = queue[s]
  BY <1>12
<1> QED
  BY <1>2, <1>6, <1>10, <1>12, <1>13, <1>14, <1>17, <1>18, <1>19, <1>20, <1>21, Rank1Step

LEMMA Host1Keeps ==
    ASSUME NEW d \in 0..MaxStep, NEW at, NEW ph, IInv(d, at, ph), Host(1)
    PROVE  IInv(d, at, ph)'
BY Begin1Keeps, SyncMain1Keeps, Transfer1Keeps, Drain1Keeps, Verify1Keeps, SignalDummy1Keeps,
   Forward1Keeps, Release1Keeps, PrepareRemoteKeeps DEF Host

-----------------------------------------------------------------------------
(* The model thread of rank 0.                                             *)

\* What the steps of rank 0 start from.
LEMMA Of0 ==
    ASSUME NEW d \in 0..MaxStep, NEW at, NEW ph, IInv(d, at, ph)
    PROVE  /\ Shape /\ Dummies(d) /\ Cursors(d, at, ph) /\ Queues(d, at, ph)
           /\ Device0(d, at, ph) /\ Owned(d) /\ Served(d) /\ Requests(d, at, ph)
           /\ Reading(d, at, ph) /\ Recorded(d) /\ Faulty
           /\ d \in Nat /\ MaxStep \in Nat
           /\ step[0] \in Nat /\ step[0] <= MaxStep
           /\ recorded \in [Events -> Nat] /\ recorded["done0"] \in Nat
           /\ recorded["input_ready"] \in Nat /\ recorded["d2h_done"] \in Nat
           /\ step \in [Ranks -> Contents] /\ digest \in [Ranks -> Contents]
           /\ 0 \in Ranks /\ 1 \in Ranks /\ pc \in [Ranks -> Labels]
           /\ MainAt0(d, step[0], pc[0], Enqueued(d, at, ph, Main(0)))
           /\ Counted(d, step[0], pc[0], {"sync", "prepare"}, {"status_failed", "failed"},
                      recorded["input_ready"])
           /\ Transfers(d, step[0], pc[0], recorded["done0"], Enqueued(d, at, ph, Tp(0)))
           /\ KindedAt(d, step[0], pc[0])
           /\ pc[0] \in {"verify", "verifying"} => verify[0] > 0
           /\ Main(0) \in Scripted /\ Tp(0) \in Scripted
<1>1. /\ Shape /\ Dummies(d) /\ Cursors(d, at, ph) /\ Queues(d, at, ph) /\ Mains(d, at, ph)
      /\ Counts(d, at, ph) /\ Kinded(d) /\ Ranked(d, at, ph) /\ Device0(d, at, ph)
      /\ Owned(d) /\ Served(d) /\ Requests(d, at, ph) /\ Reading(d, at, ph) /\ Recorded(d)
      /\ Faulty
  BY DEF IInv
<1>2. 0 \in Ranks /\ 1 \in Ranks /\ d \in Nat /\ MaxStep \in Nat
  BY StepAssumption DEF Ranks
<1>3. /\ recorded \in [Events -> Nat] /\ step \in [Ranks -> Contents]
      /\ digest \in [Ranks -> Contents] /\ pc \in [Ranks -> Labels]
  BY <1>1 DEF Shape
<1>4. /\ step[0] \in Nat /\ step[0] <= MaxStep /\ recorded["done0"] \in Nat
      /\ recorded["input_ready"] \in Nat /\ recorded["d2h_done"] \in Nat
  BY <1>2, <1>3 DEF Contents, Events
<1>5. /\ MainAt0(d, step[0], pc[0], Enqueued(d, at, ph, Main(0)))
      /\ Counted(d, step[0], pc[0], {"sync", "prepare"}, {"status_failed", "failed"},
                 recorded["input_ready"])
      /\ Transfers(d, step[0], pc[0], recorded["done0"], Enqueued(d, at, ph, Tp(0)))
      /\ KindedAt(d, step[0], pc[0])
  BY <1>1, Split DEF Mains
<1>6. pc[0] \in {"verify", "verifying"} => verify[0] > 0
  BY <1>1, <1>2 DEF Ranked
<1> QED
  BY <1>1, <1>2, <1>3, <1>4, <1>5, <1>6, StreamFacts

\* What is left to show of a step of rank 0.
LEMMA Rank0Step ==
    ASSUME NEW d \in 0..MaxStep, NEW at, NEW ph, IInv(d, at, ph), HostFrame, Shape',
           Queues(d, at, ph)', Grown, Clean' => Clean,
           finished' = finished \/ Finish(d, at, finished'), verify' = verify,
           UNCHANGED <<enqueued, rqst>>, pc'[1] = pc[1], step'[1] = step[1],
           digest'[1] = digest[1],
           \A e \in {"done1", "d2h_done"} : recorded'[e] = recorded[e],
           \A s \in {Main(1), Tp(1), D2H} : queue'[s] = queue[s],
           MainAt0(d, step[0], pc[0], Enqueued(d, at, ph, Main(0)))',
           Counted(d, step[0], pc[0], {"sync", "prepare"}, {"status_failed", "failed"},
                   recorded["input_ready"])',
           Transfers(d, step[0], pc[0], recorded["done0"], Enqueued(d, at, ph, Tp(0)))',
           KindedAt(d, step[0], pc[0])', pc[0] # "failed", Stays(d, 0) \/ Begins(0) \/ GivesUp,
           pc'[0] \in {"verify", "verifying"} => verify[0] > 0,
           pc'[0] = "drained" => at[Tp(0)] > step'[0],
           pc'[0] = "verifying" /\ Clean' /\ Serialize => digest'[0] = step'[0],
           (pc[0] \in {"transport", "drain"} /\ Serial(step[0])) =>
              \/ BroadcastDone(at, ph, step[0])
              \/ step'[0] = step[0] /\ pc'[0] \in {"transport", "drain"},
           Owned(d)', Served(d)', Reading(d, at, ph)', Recorded(d)', Faulty'
    PROVE  IInv(d, at, ph)'
<1>1. /\ Mains(d, at, ph) /\ Counts(d, at, ph) /\ Kinded(d) /\ Requests(d, at, ph)
  BY DEF IInv
<1>2. UNCHANGED <<sync_steps, faults, kind, enqueued, req, reqSeq, rows>>
  BY DEF HostFrame, workload, rqst
<1>3. /\ Enqueued(d, at, ph, Main(1))' = Enqueued(d, at, ph, Main(1))
      /\ Enqueued(d, at, ph, Tp(1))' = Enqueued(d, at, ph, Tp(1))
      /\ Enqueued(d, at, ph, D2H)' = Enqueued(d, at, ph, D2H)
  BY DEF Enqueued, Executed
<1>4. Mains(d, at, ph)'
  <2>1. MainAt1(d, step[1], pc[1], Enqueued(d, at, ph, Main(1)))
    BY <1>1 DEF Mains
  <2>2. MainAt1(d, step[1], pc[1], Enqueued(d, at, ph, Main(1)))'
    BY <1>3, <2>1
  <2> QED
    BY <2>2 DEF Mains
<1>5. Counts(d, at, ph)'
  <2>1. Transfers(d, step[1], pc[1], recorded["done1"], Enqueued(d, at, ph, Tp(1)))
    BY <1>1, Split
  <2>2. Transfers(d, step[1], pc[1], recorded["done1"], Enqueued(d, at, ph, Tp(1)))'
    BY <1>3, <2>1
  <2> QED
    BY <2>2 DEF Counts, Ranks, Done
<1>6. Kinded(d)'
  <2>1. KindedAt(d, step[1], pc[1])
    BY <1>1, Split
  <2>2. KindedAt(d, step[1], pc[1])'
    BY <1>2, <2>1 DEF KindedAt, Serial
  <2> QED
    BY <2>2 DEF Kinded, Ranks
<1>7. Requests(d, at, ph)'
  BY <1>1, <1>2, <1>3 DEF Requests
<1>8. Ranked(d, at, ph)'
  BY OneRanked
<1>9. Threads(d, at, ph)'
  BY <1>7 DEF Threads
<1> QED
  BY <1>4, <1>5, <1>6, <1>8, <1>9, HostStep

\* A step of rank 0 that enqueues nothing.
LEMMA Goes0 ==
    ASSUME NEW d \in 0..MaxStep, NEW at, NEW ph, IInv(d, at, ph), HostFrame,
           UNCHANGED <<queue, recorded, step, verify, completed, enqueued, error, rqst>>,
           NEW m \in Labels, pc' = [pc EXCEPT ![0] = m], pc[0] # "failed",
           ConnectorTyped, finished' = finished \/ Finish(d, at, finished'),
           MainAt0(d, step[0], m, Enqueued(d, at, ph, Main(0))),
           Counted(d, step[0], m, {"sync", "prepare"}, {"status_failed", "failed"},
                   recorded["input_ready"]),
           Transfers(d, step[0], m, recorded["done0"], Enqueued(d, at, ph, Tp(0))),
           KindedAt(d, step[0], m), Stays(d, 0) \/ GivesUp,
           m \in {"verify", "verifying"} => verify[0] > 0,
           m = "drained" => at[Tp(0)] > step[0],
           m = "verifying" /\ Clean /\ Serialize => digest'[0] = step[0],
           (pc[0] \in {"transport", "drain"} /\ Serial(step[0])) =>
              BroadcastDone(at, ph, step[0]) \/ m \in {"transport", "drain"},
           Clean' => Clean, Owned(d)', Served(d)', Reading(d, at, ph)', Recorded(d)', Faulty'
    PROVE  IInv(d, at, ph)'
<1>1. /\ Shape /\ Queues(d, at, ph) /\ pc \in [Ranks -> Labels] /\ 0 \in Ranks /\ 1 \in Ranks
  BY Of0
<1>2. /\ pc'[1] = pc[1] /\ pc'[0] = m /\ pc' \in [Ranks -> Labels]
  BY <1>1
<1>3. Shape'
  BY <1>1, <1>2 DEF Shape, HostFrame, workload, rqst, ConnectorTyped
<1>4. /\ Queues(d, at, ph)' /\ Grown
      /\ \A s : Enqueued(d, at, ph, s)' = Enqueued(d, at, ph, s)
  BY <1>1, Same
<1>5. /\ Enqueued(d, at, ph, Main(0))' = Enqueued(d, at, ph, Main(0))
      /\ Enqueued(d, at, ph, Tp(0))' = Enqueued(d, at, ph, Tp(0))
  BY <1>4
<1>6. /\ MainAt0(d, step[0], pc[0], Enqueued(d, at, ph, Main(0)))'
      /\ Counted(d, step[0], pc[0], {"sync", "prepare"}, {"status_failed", "failed"},
                 recorded["input_ready"])'
      /\ Transfers(d, step[0], pc[0], recorded["done0"], Enqueued(d, at, ph, Tp(0)))'
  BY <1>2, <1>5
<1>7. KindedAt(d, step[0], pc[0])'
  BY <1>2 DEF KindedAt, Serial, HostFrame, workload
<1>8. /\ pc'[0] \in {"verify", "verifying"} => verify[0] > 0
      /\ pc'[0] = "drained" => at[Tp(0)] > step'[0]
      /\ pc'[0] = "verifying" /\ Clean' /\ Serialize => digest'[0] = step'[0]
      /\ (pc[0] \in {"transport", "drain"} /\ Serial(step[0])) =>
            \/ BroadcastDone(at, ph, step[0])
            \/ step'[0] = step[0] /\ pc'[0] \in {"transport", "drain"}
  BY <1>2
<1>9. UNCHANGED <<verify, enqueued, rqst>> /\ step'[1] = step[1]
  OBVIOUS
<1> QED
  BY <1>2, <1>3, <1>4, <1>6, <1>7, <1>8, <1>9, Rank0Step DEF ConnectorTyped

\* What one step within a forward leaves to be said of the connector.
LEMMA Within0 ==
    ASSUME NEW d \in 0..MaxStep, NEW at, NEW ph, IInv(d, at, ph), HostFrame,
           UNCHANGED <<queue, recorded, step, verify, finished, conn, rqst>>,
           NEW m, pc' = [pc EXCEPT ![0] = m],
           \/ pc[0] = "sync" /\ m = "prepare"
           \/ pc[0] = "ready" /\ m = "status"
           \/ pc[0] = "ready" /\ m = "status_failed" /\ faults # {}
           \/ pc[0] = "drain" /\ m = "drained"
           \/ pc[0] = "verify" /\ m = "verifying"
    PROVE  /\ Owned(d)' /\ Served(d)' /\ Recorded(d)' /\ Faulty' /\ (Clean' <=> Clean)
           /\ MainAt0(d, step[0], m, Enqueued(d, at, ph, Main(0)))
           /\ Counted(d, step[0], m, {"sync", "prepare"}, {"status_failed", "failed"},
                      recorded["input_ready"])
           /\ Transfers(d, step[0], m, recorded["done0"], Enqueued(d, at, ph, Tp(0)))
           /\ KindedAt(d, step[0], m) /\ Stays(d, 0) /\ m \in Labels
           /\ m # "status" => Reading(d, at, ph)'
           /\ \A s : Idle(s)' <=> Idle(s)
<1>1. /\ Shape /\ Owned(d) /\ Served(d) /\ Reading(d, at, ph) /\ Recorded(d) /\ Faulty
      /\ pc \in [Ranks -> Labels] /\ 0 \in Ranks /\ step[0] \in Nat /\ d \in Nat
      /\ MainAt0(d, step[0], pc[0], Enqueued(d, at, ph, Main(0)))
      /\ Counted(d, step[0], pc[0], {"sync", "prepare"}, {"status_failed", "failed"},
                 recorded["input_ready"])
      /\ Transfers(d, step[0], pc[0], recorded["done0"], Enqueued(d, at, ph, Tp(0)))
      /\ KindedAt(d, step[0], pc[0])
  BY Of0
<1>2. /\ pc'[0] = m /\ pc'[1] = pc[1] /\ m \in Labels
      /\ UNCHANGED <<sync_steps, faults, kind, finished, active, records, completed, released,
                     mailbox, enqueued, error, closed, req, reqSeq, rows, step, queue, recorded>>
      /\ \A s : Idle(s)' <=> Idle(s)
  <2>1. m \in Labels
    BY DEF Labels
  <2>2. pc'[0] = m /\ pc'[1] = pc[1]
    BY <1>1 DEF Ranks
  <2>3. \A s : Idle(s)' <=> Idle(s)
    BY DEF Idle
  <2> QED
    BY <2>1, <2>2, <2>3 DEF HostFrame, workload, conn, rqst
<1>3. step[0] > d
  BY <1>1 DEF KindedAt
<1>4. Owned(d)'
  BY <1>1, <1>2 DEF Owned, Resting
<1>5. Served(d)'
  BY <1>1, <1>2 DEF Served, Launched
<1>6. Recorded(d)'
  <2>1. m \notin Resting \cup {"result"} /\ pc[0] \notin Resting \cup {"result"}
    BY DEF Resting
  <2>2. (\A i \in completed : i <= d \/ i <= reqSeq)' /\ (\A i \in Steps : i > d /\ i < reqSeq => i \in completed)'
    BY <1>1, <1>2 DEF Recorded
  <2>3. (\A i \in Steps : i <= d /\ (i < step[0] \/ (i = step[0] /\ pc[0] \in AfterVerify)) =>
            i \in completed)'
    BY <1>1, <1>2, <1>3 DEF Recorded
  <2>4. (\A i \in Steps : i < step[0] \/ (i = step[0] /\ pc[0] \in Resting \cup {"result"}) =>
            i \in released)'
    BY <1>1, <1>2, <2>1 DEF Recorded
  <2>5. (\A i \in records : i <= step[0] /\ ~(i \in completed /\ i \in released))'
    BY <1>1, <1>2 DEF Recorded
  <2>6. (\A i \in released : i < step[0] \/ (i = step[0] /\ pc[0] \in Resting \cup {"result", "failed"}))'
    BY <1>1, <1>2 DEF Recorded, Resting
  <2> QED
    BY <2>2, <2>3, <2>4, <2>5, <2>6 DEF Recorded
<1>7. Faulty'
  BY <1>1, <1>2 DEF Faulty, Ranks
<1>8. Clean' <=> Clean
  BY <1>2 DEF Clean
<1>9. MainAt0(d, step[0], m, Enqueued(d, at, ph, Main(0)))
  <2>1. /\ Base(d, Main(0), step[0]) = 6 * d + 7 * (step[0] - d - 1)
    BY <1>1, <1>3, Bases
  <2>2. Base(d, Main(0), step[0] + 1) = 6 * d + 7 * ((step[0] + 1) - d - 1)
    BY <1>1, <1>3, Sizes DEF Base
  <2> QED
    BY <1>1, <1>3, <2>1, <2>2 DEF MainAt0, Resting
<1>10. /\ Counted(d, step[0], m, {"sync", "prepare"}, {"status_failed", "failed"},
                  recorded["input_ready"])
       /\ Transfers(d, step[0], m, recorded["done0"], Enqueued(d, at, ph, Tp(0)))
  BY <1>1, <1>3 DEF Counted, Transfers
<1>11. KindedAt(d, step[0], m)
  BY <1>1, <1>3 DEF KindedAt
<1>12. Stays(d, 0)
  <2>1. /\ {"sync", "prepare", "ready", "status", "status_failed"} \cap
              (AfterStatus \cup AfterDrained \cup AfterVerify) = {}
        /\ {"drain", "drained"} \subseteq AfterStatus
        /\ {"drain", "drained"} \cap (AfterDrained \cup AfterVerify) = {}
        /\ {"verify", "verifying"} \subseteq AfterStatus \cap AfterDrained
        /\ {"verify", "verifying"} \cap AfterVerify = {}
    BY DEF AfterStatus, AfterDrained, AfterVerify, Resting
  <2> QED
    BY <1>2, <2>1 DEF Stays
<1>13. ASSUME m # "status" PROVE Reading(d, at, ph)'
  <2>1. Enqueued(d, at, ph, Reader)' = Enqueued(d, at, ph, Reader)
    BY <1>2 DEF Enqueued, Executed
  <2>2. (pc[0] \in {"status", "transport", "drain", "drained"} /\ Serial(step[0]) =>
          step[0] \in completed /\ req = "get" /\ mailbox = 0 /\ Idle(Reader))'
    BY <1>1, <1>2, <1>13 DEF Reading, Serial
  <2>3. Broken(d, at, ph)' <=> Broken(d, at, ph)
    BY <1>2, <2>1 DEF Broken
  <2> QED
    BY <1>1, <1>2, <2>1, <2>2, <2>3 DEF Reading, Launched
<1> QED
  BY <1>2, <1>4, <1>5, <1>6, <1>7, <1>8, <1>9, <1>10, <1>11, <1>12, <1>13

LEMMA SyncMain0Keeps ==
    ASSUME NEW d \in 0..MaxStep, NEW at, NEW ph, IInv(d, at, ph), SyncMain(0)
    PROVE  IInv(d, at, ph)'
<1>1. /\ pc[0] = "sync" /\ pc' = [pc EXCEPT ![0] = "prepare"]
      /\ HostFrame /\ UNCHANGED <<queue, recorded, step, verify, digest, finished, conn, rqst>>
  BY DEF SyncMain, Goto, HostFrame, gpu
<1>2. /\ Shape /\ digest \in [Ranks -> Contents]
  BY Of0
<1>3. /\ Owned(d)' /\ Served(d)' /\ Recorded(d)' /\ Faulty' /\ (Clean' <=> Clean)
      /\ MainAt0(d, step[0], "prepare", Enqueued(d, at, ph, Main(0)))
      /\ Counted(d, step[0], "prepare", {"sync", "prepare"}, {"status_failed", "failed"},
                 recorded["input_ready"])
      /\ Transfers(d, step[0], "prepare", recorded["done0"], Enqueued(d, at, ph, Tp(0)))
      /\ KindedAt(d, step[0], "prepare") /\ Stays(d, 0) /\ "prepare" \in Labels
      /\ Reading(d, at, ph)'
  <2> DEFINE m == "prepare"
  <2>1. pc' = [pc EXCEPT ![0] = m] /\ m = "prepare"
    BY <1>1
  <2> HIDE DEF m
  <2>2. /\ Owned(d)' /\ Served(d)' /\ Recorded(d)' /\ Faulty' /\ (Clean' <=> Clean)
        /\ MainAt0(d, step[0], m, Enqueued(d, at, ph, Main(0)))
        /\ Counted(d, step[0], m, {"sync", "prepare"}, {"status_failed", "failed"},
                   recorded["input_ready"])
        /\ Transfers(d, step[0], m, recorded["done0"], Enqueued(d, at, ph, Tp(0)))
        /\ KindedAt(d, step[0], m) /\ Stays(d, 0) /\ m \in Labels
        /\ m # "status" => Reading(d, at, ph)'
    BY <1>1, <2>1, Within0
  <2> QED
    BY <2>1, <2>2
<1>4. /\ UNCHANGED <<queue, recorded, step, verify, completed, enqueued, error, rqst>>
      /\ ConnectorTyped
  BY <1>1, <1>2 DEF Shape, conn, ConnectorTyped
<1> QED
  BY <1>1, <1>3, <1>4, Goes0

\* A rank 0 that is not at fault has handed its step over: what is left of the
\* request when its rows are completed.
LEMMA ReadyOf ==
    ASSUME NEW d \in 0..MaxStep, NEW at, NEW ph, IInv(d, at, ph), pc[0] = "ready", ~error,
           step[0] \in completed
    PROVE  req = "get" /\ mailbox = 0 /\ Idle(Reader)
<1>1. /\ Shape /\ Cursors(d, at, ph) /\ Device0(d, at, ph) /\ Owned(d) /\ Served(d)
      /\ Requests(d, at, ph) /\ Reading(d, at, ph) /\ Recorded(d) /\ Faulty
      /\ d \in Nat /\ step[0] \in Nat /\ recorded["input_ready"] \in Nat
      /\ Counted(d, step[0], pc[0], {"sync", "prepare"}, {"status_failed", "failed"},
                 recorded["input_ready"])
      /\ KindedAt(d, step[0], pc[0])
  BY Of0
<1> DEFINE n == step[0]
<1>2. n > d /\ n >= 1 /\ Launched = n - d
  BY <1>1 DEF KindedAt, Counted, Launched
<1>3. mailbox = 0
  <2>1. ~(mailbox > 0)
    BY <1>1 DEF Served
  <2>2. mailbox # -1
    BY <1>1 DEF Served
  <2>3. mailbox \in Nat \cup {-1}
    BY <1>1, StepAssumption DEF Shape, Contents
  <2> QED
    BY <2>1, <2>2, <2>3
<1>4. reqSeq = n
  BY <1>1, <1>2, <1>3 DEF Served
<1>5. req = "get"
  <2>1. req \in {"get", "wake", "stopped"}
    BY <1>1, <1>4 DEF Served
  <2>2. req # "stopped"
    BY <1>1 DEF Served
  <2>3. req # "wake"
    BY <1>1 DEF Faulty
  <2> QED
    BY <2>1, <2>2, <2>3
<1>6. Enqueued(d, at, ph, Reader) = 3 * (n - d) /\ at[Reader] = n + 1
  BY <1>1, <1>2, <1>4, <1>5 DEF Reading
<1>7. at[Reader] > d /\ Enqueued(d, at, ph, Reader) = 3 * (at[Reader] - d - 1)
  BY <1>1, <1>2, <1>6
<1>8. Idle(Reader)
  BY <1>1, <1>7, IdleAt
<1> QED
  BY <1>3, <1>5, <1>8

LEMMA ReadyKeeps ==
    ASSUME NEW d \in 0..MaxStep, NEW at, NEW ph, IInv(d, at, ph), Ready
    PROVE  IInv(d, at, ph)'
<1>0. Faulty /\ Shape /\ digest \in [Ranks -> Contents] /\ pc \in [Ranks -> Labels] /\ 0 \in Ranks
      /\ Reading(d, at, ph) /\ reqSeq \in Nat
  <2>1. /\ Faulty /\ Shape /\ digest \in [Ranks -> Contents] /\ pc \in [Ranks -> Labels]
        /\ 0 \in Ranks /\ Reading(d, at, ph)
    BY Of0
  <2>2. reqSeq \in Contents
    BY ONLY <2>1 DEF Shape
  <2> QED
    BY ONLY <2>1, <2>2, StepAssumption DEF Contents
<1>1. PICK m \in {"status", "status_failed"} :
         /\ pc' = [pc EXCEPT ![0] = m]
         /\ m = "status" => ~error /\ step[0] \in completed
         /\ m = "status_failed" => faults # {}
  BY <1>0 DEF Ready, Goto, Faulty
<1>2. /\ pc[0] = "ready" /\ HostFrame
      /\ UNCHANGED <<queue, recorded, step, verify, digest, finished, conn, rqst>>
  BY DEF Ready, HostFrame, gpu
<1>3. /\ Owned(d)' /\ Served(d)' /\ Recorded(d)' /\ Faulty' /\ (Clean' <=> Clean)
      /\ MainAt0(d, step[0], m, Enqueued(d, at, ph, Main(0)))
      /\ Counted(d, step[0], m, {"sync", "prepare"}, {"status_failed", "failed"},
                 recorded["input_ready"])
      /\ Transfers(d, step[0], m, recorded["done0"], Enqueued(d, at, ph, Tp(0)))
      /\ KindedAt(d, step[0], m) /\ Stays(d, 0) /\ m \in Labels
      /\ m # "status" => Reading(d, at, ph)'
      /\ \A s : Idle(s)' <=> Idle(s)
  BY <1>1, <1>2, Within0
<1>4. /\ UNCHANGED <<queue, recorded, step, verify, completed, enqueued, error, rqst>>
      /\ ConnectorTyped
  BY <1>0, <1>2 DEF Shape, conn, ConnectorTyped
<1>5. Reading(d, at, ph)'
  <2>1. CASE m = "status"
    <3>1. req = "get" /\ mailbox = 0 /\ Idle(Reader) /\ step[0] \in completed
      BY <1>1, <1>2, <2>1, ReadyOf
    <3>2. (pc[0] \in {"status", "transport", "drain", "drained"} /\ Serial(step[0]) =>
            step[0] \in completed /\ req = "get" /\ mailbox = 0 /\ Idle(Reader))'
      BY <1>2, <1>3, <3>1 DEF rqst, conn
    <3>3. Enqueued(d, at, ph, Reader)' = Enqueued(d, at, ph, Reader)
      BY <1>2 DEF Enqueued, Executed
    <3>4. UNCHANGED <<sync_steps, mailbox, error, req, reqSeq, recorded, completed>>
      BY <1>2 DEF HostFrame, workload, conn, rqst
    <3>5. Broken(d, at, ph)' <=> Broken(d, at, ph)
      BY <3>3, <3>4 DEF Broken
    <3> QED
      BY <1>0, <3>2, <3>3, <3>4, <3>5 DEF Reading, Launched
  <2> QED
    BY <1>1, <1>3, <2>1
<1> QED
  BY <1>1, <1>2, <1>3, <1>4, <1>5, Goes0

LEMMA Drain0Keeps ==
    ASSUME NEW d \in 0..MaxStep, NEW at, NEW ph, IInv(d, at, ph), Drain(0)
    PROVE  IInv(d, at, ph)'
<1> DEFINE n == step[0]
           c == recorded["done0"]
<1>0. /\ Shape /\ Cursors(d, at, ph) /\ Device0(d, at, ph) /\ d \in Nat /\ n \in Nat
      /\ digest \in [Ranks -> Contents] /\ 0 \in Ranks /\ KindedAt(d, n, pc[0])
      /\ Transfers(d, n, pc[0], c, Enqueued(d, at, ph, Tp(0)))
  BY Of0
<1>1. /\ pc[0] = "drain" /\ Idle(Tp(0)) /\ pc' = [pc EXCEPT ![0] = "drained"]
      /\ HostFrame /\ UNCHANGED <<queue, recorded, step, verify, digest, finished, conn, rqst>>
  BY DEF Drain, Goto, HostFrame, gpu
<1>2. n > d
  BY <1>0, <1>1 DEF KindedAt
<1>3. at[Tp(0)] = n + 1
  <2>1. Transfers(d, n, "drain", c, Enqueued(d, at, ph, Tp(0)))
    BY <1>0, <1>1
  <2> HIDE DEF n, c
  <2> QED
    BY <1>0, <1>1, <1>2, <2>1, Transferring
<1>4. BroadcastDone(at, ph, n)
  <2>1. /\ at[Tp(1)] \in Nat /\ ph[Tp(1)] \in Nat /\ ph[Tp(0)] \in Nat
    BY <1>0, StreamFacts, CursorFacts
  <2>2. Matched(at[Tp(0)], ph[Tp(0)], at[Tp(1)], ph[Tp(1)])
    BY <1>0 DEF Device0
  <2> QED
    BY <1>0, <1>3, <2>1, <2>2 DEF Matched, BroadcastDone
<1>5. /\ Owned(d)' /\ Served(d)' /\ Recorded(d)' /\ Faulty' /\ (Clean' <=> Clean)
      /\ MainAt0(d, step[0], "drained", Enqueued(d, at, ph, Main(0)))
      /\ Counted(d, step[0], "drained", {"sync", "prepare"}, {"status_failed", "failed"},
                 recorded["input_ready"])
      /\ Transfers(d, step[0], "drained", recorded["done0"], Enqueued(d, at, ph, Tp(0)))
      /\ KindedAt(d, step[0], "drained") /\ Stays(d, 0) /\ "drained" \in Labels
      /\ Reading(d, at, ph)'
  <2> DEFINE m == "drained"
  <2>1. pc' = [pc EXCEPT ![0] = m] /\ m = "drained"
    BY <1>1
  <2> HIDE DEF m
  <2>2. /\ Owned(d)' /\ Served(d)' /\ Recorded(d)' /\ Faulty' /\ (Clean' <=> Clean)
        /\ MainAt0(d, step[0], m, Enqueued(d, at, ph, Main(0)))
        /\ Counted(d, step[0], m, {"sync", "prepare"}, {"status_failed", "failed"},
                   recorded["input_ready"])
        /\ Transfers(d, step[0], m, recorded["done0"], Enqueued(d, at, ph, Tp(0)))
        /\ KindedAt(d, step[0], m) /\ Stays(d, 0) /\ m \in Labels
        /\ m # "status" => Reading(d, at, ph)'
    BY <1>1, <2>1, Within0
  <2> QED
    BY <2>1, <2>2
<1>6. /\ UNCHANGED <<queue, recorded, step, verify, completed, enqueued, error, rqst>>
      /\ ConnectorTyped
  BY <1>0, <1>1 DEF Shape, conn, ConnectorTyped
<1>7. at[Tp(0)] > step[0] /\ BroadcastDone(at, ph, step[0])
  BY <1>0, <1>3, <1>4
<1> QED
  BY <1>1, <1>5, <1>6, <1>7, Goes0

LEMMA Verify0Keeps ==
    ASSUME NEW d \in 0..MaxStep, NEW at, NEW ph, IInv(d, at, ph), Verify(0)
    PROVE  IInv(d, at, ph)'
<1> DEFINE n == step[0]
           c == recorded["done0"]
           e == Enqueued(d, at, ph, Main(0))
<1>0. /\ Shape /\ Cursors(d, at, ph) /\ Device0(d, at, ph) /\ d \in Nat /\ n \in Nat
      /\ digest \in [Ranks -> Contents] /\ 0 \in Ranks /\ KindedAt(d, n, pc[0])
      /\ Transfers(d, n, pc[0], c, Enqueued(d, at, ph, Tp(0))) /\ Main(0) \in Scripted
      /\ MainAt0(d, n, pc[0], e) /\ (pc[0] \in {"verify", "verifying"} => verify[0] > 0)
  BY Of0
<1>1. /\ pc[0] = "verify" /\ Idle(Tp(0)) /\ Idle(Main(0)) /\ pc' = [pc EXCEPT ![0] = "verifying"]
      /\ digest' = [digest EXCEPT ![0] = output[0]]
      /\ HostFrame /\ UNCHANGED <<queue, recorded, step, verify, finished, conn, rqst>>
  BY DEF Verify, Goto, HostFrame, gpu
<1>2. n > d /\ n >= 1 /\ e = Base(d, Main(0), n) + 3
  BY <1>0, <1>1 DEF KindedAt, MainAt0
<1>3. at[Tp(0)] = n + 1
  <2>1. Transfers(d, n, "verify", c, Enqueued(d, at, ph, Tp(0)))
    BY <1>0, <1>1
  <2> HIDE DEF n, c
  <2> QED
    BY <1>0, <1>1, <1>2, <2>1, Transferring
<1>4. at[Main(0)] = n /\ ph[Main(0)] = 3
  <2>1. Size(d, Main(0), n) = 7
    BY <1>0, <1>2, Bases
  <2>2. n \in Nat \ {0} /\ 3 \in Nat /\ 3 < Size(d, Main(0), n)
    BY <1>0, <1>2, <2>1
  <2> HIDE DEF n
  <2> QED
    BY <1>0, <1>1, <1>2, <2>2, IdleIn
<1>5. Clean => output[0] = n
  <2>1. Clean => Producing(d, n, 3, at[D2H], n + 1, ph[Tp(0)], at[Reader], ph[Reader],
                           flag[0], output[0])
    BY <1>0, <1>3, <1>4 DEF Device0
  <2>2. ph[Tp(0)] \in Nat /\ at[Reader] \in Nat /\ ph[Reader] \in Nat
    BY <1>0, StreamFacts, CursorFacts
  <2> QED
    BY <1>0, <1>2, <2>1, <2>2 DEF Producing
<1>6. /\ Owned(d)' /\ Served(d)' /\ Recorded(d)' /\ Faulty' /\ (Clean' <=> Clean)
      /\ MainAt0(d, step[0], "verifying", Enqueued(d, at, ph, Main(0)))
      /\ Counted(d, step[0], "verifying", {"sync", "prepare"}, {"status_failed", "failed"},
                 recorded["input_ready"])
      /\ Transfers(d, step[0], "verifying", recorded["done0"], Enqueued(d, at, ph, Tp(0)))
      /\ KindedAt(d, step[0], "verifying") /\ Stays(d, 0) /\ "verifying" \in Labels
      /\ Reading(d, at, ph)'
  <2> DEFINE m == "verifying"
  <2>1. pc' = [pc EXCEPT ![0] = m] /\ m = "verifying"
    BY <1>1
  <2> HIDE DEF m
  <2>2. /\ Owned(d)' /\ Served(d)' /\ Recorded(d)' /\ Faulty' /\ (Clean' <=> Clean)
        /\ MainAt0(d, step[0], m, Enqueued(d, at, ph, Main(0)))
        /\ Counted(d, step[0], m, {"sync", "prepare"}, {"status_failed", "failed"},
                   recorded["input_ready"])
        /\ Transfers(d, step[0], m, recorded["done0"], Enqueued(d, at, ph, Tp(0)))
        /\ KindedAt(d, step[0], m) /\ Stays(d, 0) /\ m \in Labels
        /\ m # "status" => Reading(d, at, ph)'
    BY <1>1, <2>1, Within0
  <2> QED
    BY <2>1, <2>2
<1>7. /\ UNCHANGED <<queue, recorded, step, verify, completed, enqueued, error, rqst>>
      /\ ConnectorTyped
  <2>1. output[0] \in Contents
    BY <1>0 DEF Shape
  <2> QED
    BY <1>0, <1>1, <2>1 DEF Shape, conn, Ranks, ConnectorTyped
<1>8. digest'[0] = output[0] /\ (Clean /\ Serialize => digest'[0] = step[0]) /\ verify[0] > 0
  BY <1>0, <1>1, <1>5
<1> QED
  BY <1>1, <1>6, <1>7, <1>8, Goes0

\* What such a step leaves to be said of the connector.
LEMMA TurnsTo ==
    ASSUME NEW d \in 0..MaxStep, NEW at, NEW ph, IInv(d, at, ph), HostFrame,
           UNCHANGED <<step, finished, active, records, completed, released, mailbox, enqueued,
                       closed, rqst>>,
           recorded'["input_ready"] = recorded["input_ready"], queue'[Reader] = queue[Reader],
           ~Idle(Error)' => ~Idle(Error) \/ error',
           NEW m, pc' = [pc EXCEPT ![0] = m], Turns(step[0], m), Erring(m)
    PROVE  /\ Owned(d)' /\ Served(d)' /\ Recorded(d)' /\ Reading(d, at, ph)' /\ Faulty'
           /\ Clean' => Clean
           /\ pc'[0] = m /\ pc'[1] = pc[1] /\ m \in Labels /\ pc' \in [Ranks -> Labels]
           /\ Counted(d, step[0], m, {"sync", "prepare"}, {"status_failed", "failed"},
                      recorded["input_ready"])
           /\ pc[0] # "transport" =>
                 Transfers(d, step[0], m, recorded["done0"], Enqueued(d, at, ph, Tp(0)))
           /\ KindedAt(d, step[0], m) /\ Stays(d, 0) /\ pc[0] # "failed"
           /\ m = "verify" => verify[0] > 0
           /\ m # "drained" /\ m # "verifying" /\ (Serial(step[0]) /\ pc[0] = "transport" => m = "drain")
           /\ pc[0] # "drain"
<1> DEFINE n == step[0]
<1>1. /\ Shape /\ Owned(d) /\ Served(d) /\ Reading(d, at, ph) /\ Recorded(d) /\ Faulty
      /\ Requests(d, at, ph) /\ Dummies(d)
      /\ pc \in [Ranks -> Labels] /\ 0 \in Ranks /\ n \in Nat /\ d \in Nat
      /\ Counted(d, n, pc[0], {"sync", "prepare"}, {"status_failed", "failed"},
                 recorded["input_ready"])
      /\ Transfers(d, n, pc[0], recorded["done0"], Enqueued(d, at, ph, Tp(0)))
      /\ KindedAt(d, n, pc[0])
  BY Of0
<1>2. Turns(n, m)
  OBVIOUS
<1>3. /\ pc[0] \in {"handoff", "forward", "release", "transport", "prepare", "dummy"}
      /\ m \in {"ready", "transport", "release", "released", "drain", "verify", "forward",
                "status_failed", "failed"}
      /\ m = "verify" => verify[0] > 0
      /\ m \in {"status_failed", "failed"} <=>
            \/ pc[0] \in {"prepare", "dummy"}
            \/ pc[0] = "handoff" /\ m \notin {"ready", "transport"}
      /\ m \in {"status_failed", "failed"} => faults # {}
      /\ m \in {"status_failed", "ready", "drain"} => Serial(n)
      /\ Serial(n) => m \notin {"transport", "verify"} /\ (pc[0] = "transport" <=> m = "drain")
      /\ m \in {"ready", "transport"} => pc[0] = "handoff" /\ enqueued = n
      /\ m = "release" <=> pc[0] = "forward"
      /\ m = "released" <=> pc[0] = "release"
      /\ m \in {"drain", "verify", "forward"} <=> pc[0] = "transport"
      /\ m = "forward" => ~(verify[0] > 0)
  BY <1>2 DEF Turns, Raise, Transferred
<1>4. pc'[0] = m /\ pc'[1] = pc[1] /\ m \in Labels /\ pc' \in [Ranks -> Labels]
  <2>1. m \in Labels
    BY <1>3 DEF Labels
  <2> QED
    BY <1>1, <2>1 DEF Ranks
<1>5. /\ UNCHANGED <<sync_steps, faults, kind, finished, active, records, completed, released,
                     mailbox, enqueued, closed, req, reqSeq, rows, step>>
      /\ error => error' /\ faults # {}
      /\ error' => faults # {}
      /\ error' # error => m \in {"status_failed", "failed"}
  <2>1. error => faults # {}
    BY <1>1 DEF Faulty
  <2>2. error \in BOOLEAN
    BY <1>1 DEF Shape
  <2> QED
    BY <2>1, <2>2 DEF HostFrame, workload, rqst, Erring
<1>6. /\ pc[0] \in {"handoff", "transport", "prepare"} => n > d
      /\ pc[0] = "dummy" => n <= d
      /\ n >= 1 /\ (Serial(n) => n > d)
  <2>1. /\ pc[0] \in {"handoff", "transport", "prepare"} => n > d
        /\ pc[0] = "dummy" => n <= d
        /\ n >= 1
    BY <1>1, <1>3 DEF KindedAt
  <2>2. n \in Steps
    BY <1>1, <2>1 DEF Shape, Contents, Steps
  <2> QED
    BY <1>1, <2>1, <2>2 DEF Dummies, Serial, Real
<1>7. Owned(d)'
  BY <1>1, <1>3, <1>4, <1>5, <1>6 DEF Owned, Resting
<1>8. ASSUME mailbox > 0 PROVE m \in {"status_failed", "failed"}
  <2>1. pc[0] = "handoff" /\ mailbox = n /\ (reqSeq = 0 \/ reqSeq = n - 1)
    BY <1>1, <1>3, <1>8 DEF Served
  <2>2. enqueued # n
    BY <1>1, <1>6, <2>1 DEF Requests
  <2> QED
    BY <1>3, <2>1, <2>2
<1>9. Served(d)'
  BY <1>1, <1>3, <1>4, <1>5, <1>8 DEF Served, Launched
<1>10. Recorded(d)'
  <2>1. m \notin Resting \cup {"result"} /\ pc[0] \notin Resting \cup {"result"}
    BY <1>3 DEF Resting
  <2>2. n <= d /\ m \in AfterVerify => pc[0] \in AfterVerify
    <3>1. ASSUME n <= d, m \in AfterVerify PROVE pc[0] \in {"forward", "release"}
      <4>1. pc[0] # "transport"
        BY <1>1, <1>6, <3>1
      <4>2. m \in {"release", "released"}
        BY <1>3, <3>1, <4>1 DEF AfterVerify, Resting
      <4> QED
        BY <1>3, <4>2
    <3> QED
      BY <3>1 DEF AfterVerify
  <2>3. /\ (\A i \in completed : i <= d \/ i <= reqSeq)'
        /\ (\A i \in Steps : i > d /\ i < reqSeq => i \in completed)'
    BY <1>1, <1>5 DEF Recorded
  <2>4. (\A i \in Steps : i <= d /\ (i < step[0] \/ (i = step[0] /\ pc[0] \in AfterVerify)) =>
            i \in completed)'
    BY <1>1, <1>4, <1>5, <2>2 DEF Recorded
  <2>5. (\A i \in Steps : i < step[0] \/ (i = step[0] /\ pc[0] \in Resting \cup {"result"}) =>
            i \in released)'
    BY <1>1, <1>4, <1>5, <2>1 DEF Recorded
  <2>6. (\A i \in records : i <= step[0] /\ ~(i \in completed /\ i \in released))'
    BY <1>1, <1>5 DEF Recorded
  <2>7. (\A i \in released : i < step[0] \/ (i = step[0] /\ pc[0] \in Resting \cup {"result", "failed"}))'
    BY <1>1, <1>3, <1>4, <1>5 DEF Recorded, Resting
  <2> QED
    BY <2>3, <2>4, <2>5, <2>6, <2>7 DEF Recorded
<1>11. Reading(d, at, ph)'
  <2>1. Enqueued(d, at, ph, Reader)' = Enqueued(d, at, ph, Reader) /\ Idle(Reader)' = Idle(Reader)
    BY DEF Enqueued, Executed, Idle
  <2>2. (pc[0] \in {"status", "transport", "drain", "drained"} /\ Serial(step[0]) =>
          step[0] \in completed /\ req = "get" /\ mailbox = 0 /\ Idle(Reader))'
    BY <1>1, <1>3, <1>4, <1>5, <2>1 DEF Reading, Serial
  <2>3. Broken(d, at, ph)' <=> Broken(d, at, ph)
    BY <1>5, <2>1 DEF Broken
  <2> QED
    BY <1>1, <1>5, <2>1, <2>2, <2>3 DEF Reading, Launched
<1>12. Faulty'
  BY <1>1, <1>3, <1>4, <1>5 DEF Faulty, Ranks
<1>13. Clean' => Clean
  BY <1>3, <1>4, <1>5 DEF Clean
<1>14. Counted(d, n, m, {"sync", "prepare"}, {"status_failed", "failed"}, recorded["input_ready"])
  BY <1>1, <1>3, <1>6 DEF Counted
<1>15. pc[0] # "transport" =>
          Transfers(d, n, m, recorded["done0"], Enqueued(d, at, ph, Tp(0)))
  BY <1>1, <1>3, <1>6 DEF Transfers, Counted
<1>16. KindedAt(d, n, m)
  BY <1>1, <1>3, <1>6 DEF KindedAt
<1>17. Stays(d, 0)
  <2>1. /\ {"sync", "prepare", "handoff", "ready", "dummy", "status_failed", "failed"} \cap
              (AfterStatus \cup AfterDrained \cup AfterVerify) = {}
        /\ {"transport", "drain"} \subseteq AfterStatus
        /\ {"transport", "drain"} \cap (AfterDrained \cup AfterVerify) = {}
        /\ "verify" \notin AfterVerify
        /\ {"forward", "release", "released"} \subseteq AfterStatus \cap AfterDrained \cap AfterVerify
    BY DEF AfterStatus, AfterDrained, AfterVerify, Resting
  <2>2. Serial(n) => /\ m \in AfterStatus <=> pc[0] \in AfterStatus
                     /\ m \in AfterDrained <=> pc[0] \in AfterDrained
    BY <1>3, <1>6, <2>1
  <2>3. verify[0] > 0 /\ n > d => (m \in AfterVerify <=> pc[0] \in AfterVerify)
    BY <1>3, <1>6, <2>1
  <2> QED
    BY <1>4, <1>5, <2>2, <2>3 DEF Stays
<1> QED
  BY <1>3, <1>4, <1>7, <1>9, <1>10, <1>11, <1>12, <1>13, <1>14, <1>15, <1>16, <1>17

\* The whole of such a step.
LEMMA TurnKeeps ==
    ASSUME NEW d \in 0..MaxStep, NEW at, NEW ph, IInv(d, at, ph), HostFrame,
           UNCHANGED <<step, verify, digest, finished, active, records, completed, released,
                       mailbox, enqueued, closed, rqst>>,
           recorded' \in [Events -> Nat], \A e \in Events \ {"done0"} : recorded'[e] = recorded[e],
           \A s \in {Main(1), Tp(1), D2H, Reader} : queue'[s] = queue[s],
           ~Idle(Error)' => ~Idle(Error) \/ error',
           Queues(d, at, ph)', Grown,
           NEW m, pc' = [pc EXCEPT ![0] = m], Turns(step[0], m), Erring(m),
           MainAt0(d, step[0], m, Enqueued(d, at, ph, Main(0))'),
           pc[0] # "transport" => queue'[Tp(0)] = queue[Tp(0)] /\ recorded'["done0"] = recorded["done0"],
           pc[0] = "transport" =>
              Transfers(d, step[0], m, recorded'["done0"], Enqueued(d, at, ph, Tp(0))')
    PROVE  IInv(d, at, ph)'
<1>1. /\ recorded'["input_ready"] = recorded["input_ready"]
      /\ recorded'["done1"] = recorded["done1"] /\ recorded'["d2h_done"] = recorded["d2h_done"]
      /\ queue'[Reader] = queue[Reader]
  BY DEF Events
<1>2. /\ Owned(d)' /\ Served(d)' /\ Recorded(d)' /\ Reading(d, at, ph)' /\ Faulty'
      /\ Clean' => Clean
      /\ pc'[0] = m /\ pc'[1] = pc[1] /\ m \in Labels /\ pc' \in [Ranks -> Labels]
      /\ Counted(d, step[0], m, {"sync", "prepare"}, {"status_failed", "failed"},
                 recorded["input_ready"])
      /\ pc[0] # "transport" =>
            Transfers(d, step[0], m, recorded["done0"], Enqueued(d, at, ph, Tp(0)))
      /\ KindedAt(d, step[0], m) /\ Stays(d, 0) /\ pc[0] # "failed"
      /\ m = "verify" => verify[0] > 0
      /\ m # "drained" /\ m # "verifying" /\ (Serial(step[0]) /\ pc[0] = "transport" => m = "drain")
      /\ pc[0] # "drain"
  BY <1>1, TurnsTo
<1>3. Shape /\ error' \in BOOLEAN
  <2>1. Shape
    BY Of0
  <2> QED
    BY <2>1 DEF Shape, Erring
<1>4. Shape'
  BY <1>2, <1>3 DEF Shape, HostFrame, workload, rqst, Grown
<1>5. MainAt0(d, step[0], pc[0], Enqueued(d, at, ph, Main(0)))'
  BY <1>2
<1>6. Counted(d, step[0], pc[0], {"sync", "prepare"}, {"status_failed", "failed"},
              recorded["input_ready"])'
  BY <1>1, <1>2
<1>7. Transfers(d, step[0], pc[0], recorded["done0"], Enqueued(d, at, ph, Tp(0)))'
  <2>1. pc[0] # "transport" => Enqueued(d, at, ph, Tp(0))' = Enqueued(d, at, ph, Tp(0))
    BY DEF Enqueued, Executed
  <2> QED
    BY <1>2, <2>1
<1>8. KindedAt(d, step[0], pc[0])'
  BY <1>2 DEF KindedAt, Serial, HostFrame, workload
<1>9. /\ pc'[0] \in {"verify", "verifying"} => verify[0] > 0
      /\ pc'[0] = "drained" => at[Tp(0)] > step'[0]
      /\ pc'[0] = "verifying" /\ Clean' /\ Serialize => digest'[0] = step'[0]
      /\ (pc[0] \in {"transport", "drain"} /\ Serial(step[0])) =>
            \/ BroadcastDone(at, ph, step[0])
            \/ step'[0] = step[0] /\ pc'[0] \in {"transport", "drain"}
      /\ \A e \in {"done1", "d2h_done"} : recorded'[e] = recorded[e]
      /\ \A s \in {Main(1), Tp(1), D2H} : queue'[s] = queue[s]
      /\ UNCHANGED <<enqueued, rqst>> /\ step'[1] = step[1] /\ digest'[1] = digest[1]
  BY <1>1, <1>2
<1> QED
  BY <1>2, <1>4, <1>5, <1>6, <1>7, <1>8, <1>9, Rank0Step

LEMMA Pushes0 ==
    ASSUME NEW d \in 0..MaxStep, NEW at, NEW ph, IInv(d, at, ph), HostFrame,
           UNCHANGED <<recorded, step, verify, digest, finished, conn, rqst>>,
           NEW n, NEW m, NEW k, NEW ops, pc' = [pc EXCEPT ![0] = m], queue' = On(Main(0), ops),
           Pushing0(d, at, ph, n, m, k, ops), Turns(n, m), pc[0] # "transport"
    PROVE  IInv(d, at, ph)'
<1>0. /\ n = step[0] /\ n \in Steps /\ k \in Nat /\ ops \in Seq(Ops)
      /\ Enqueued(d, at, ph, Main(0)) = Base(d, Main(0), n) + k
      /\ k + Len(ops) <= Size(d, Main(0), n)
      /\ \A i \in 1..Len(ops) : ops[i] = Script(d, Main(0), n)[k + i]
      /\ MainAt0(d, n, m, Base(d, Main(0), n) + k + Len(ops))
  BY DEF Pushing0
<1>1. /\ Shape /\ Queues(d, at, ph) /\ Cursors(d, at, ph) /\ Main(0) \in Scripted
      /\ recorded \in [Events -> Nat] /\ d \in Nat
  BY Of0
<1>2. /\ Queues(d, at, ph)' /\ Grown
      /\ Enqueued(d, at, ph, Main(0))' = Base(d, Main(0), n) + k + Len(ops)
      /\ \A t \in Streams \ {Main(0)} : /\ queue'[t] = queue[t]
                                        /\ Enqueued(d, at, ph, t)' = Enqueued(d, at, ph, t)
                                        /\ Idle(t)' = Idle(t)
  <2> DEFINE s == Main(0)
  <2>0. /\ Shape /\ Queues(d, at, ph) /\ Cursors(d, at, ph) /\ n \in Steps /\ k \in Nat
        /\ ops \in Seq(Ops) /\ d \in 0..MaxStep
    BY <1>0, <1>1
  <2>1. /\ s \in Scripted /\ Enqueued(d, at, ph, s) = Base(d, s, n) + k
        /\ k + Len(ops) <= Size(d, s, n) /\ queue' = On(s, ops)
        /\ \A i \in 1..Len(ops) : ops[i] = Script(d, s, n)[k + i]
    BY <1>0, <1>1
  <2> HIDE DEF s
  <2>2. /\ Queues(d, at, ph)' /\ Grown
        /\ Enqueued(d, at, ph, s)' = Base(d, s, n) + k + Len(ops)
        /\ \A t \in Streams \ {s} : /\ queue'[t] = queue[t]
                                    /\ Enqueued(d, at, ph, t)' = Enqueued(d, at, ph, t)
                                    /\ Idle(t)' = Idle(t)
    BY ONLY <2>0, <2>1, Push
  <2> QED
    BY <2>2 DEF s
<1>3. /\ \A s \in {Main(1), Tp(1), D2H, Reader} : queue'[s] = queue[s]
      /\ queue'[Tp(0)] = queue[Tp(0)] /\ Idle(Error)' = Idle(Error)
  BY <1>2, StreamFacts
<1>4. MainAt0(d, n, m, Enqueued(d, at, ph, Main(0))')
  BY <1>0, <1>2
<1>5. /\ UNCHANGED <<active, records, completed, released, mailbox, enqueued, error, closed>>
      /\ Erring(m)
  BY DEF conn, Erring
<1> QED
  BY <1>0, <1>1, <1>2, <1>3, <1>4, <1>5, TurnKeeps

\* Rank 0 stops at an error, which it may be the one to meet.
LEMMA Halts0 ==
    ASSUME NEW d \in 0..MaxStep, NEW at, NEW ph, IInv(d, at, ph), HostFrame,
           UNCHANGED <<recorded, step, verify, digest, finished, active, records, completed,
                       released, mailbox, enqueued, closed, rqst>>,
           queue' = queue \/ (queue' = Wakeup /\ error'),
           NEW m \in {"status_failed", "failed"}, pc' = [pc EXCEPT ![0] = m],
           Turns(step[0], m), Erring(m)
    PROVE  IInv(d, at, ph)'
<1> DEFINE n == step[0]
           e == Enqueued(d, at, ph, Main(0))
<1>1. /\ Shape /\ Queues(d, at, ph) /\ recorded \in [Events -> Nat] /\ d \in Nat /\ n \in Nat
      /\ MainAt0(d, n, pc[0], e) /\ KindedAt(d, n, pc[0])
  BY Of0
<1>2. pc[0] \in {"prepare", "handoff", "dummy"}
  BY DEF Turns, Transferred
<1>3. /\ Queues(d, at, ph)' /\ Grown
      /\ \A t \in Streams \ {Error} : queue'[t] = queue[t]
      /\ ~Idle(Error)' => ~Idle(Error) \/ error'
  <2>1. CASE queue' = queue
    BY <1>1, <2>1, Same
  <2>2. CASE queue' = Wakeup /\ error'
    BY <1>1, <2>2, PushError
  <2> QED
    BY <2>1, <2>2
<1>4. /\ \A s \in {Main(1), Tp(1), D2H, Reader} : queue'[s] = queue[s]
      /\ queue'[Tp(0)] = queue[Tp(0)] /\ queue'[Main(0)] = queue[Main(0)]
  BY <1>3, StreamFacts
<1>5. MainAt0(d, n, m, e)
  <2>1. Base(d, Main(0), n) = IF n > d THEN 6 * d + 7 * (n - d - 1) ELSE 6 * (n - 1)
    BY <1>1, Bases
  <2>2. Base(d, Main(0), n + 1) =
          IF n + 1 > d THEN 6 * d + 7 * ((n + 1) - d - 1) ELSE 6 * ((n + 1) - 1)
    BY <1>1, Sizes DEF Base
  <2>3. e = Base(d, Main(0), n) + 1 \/ (e = Base(d, Main(0), n) + 2 /\ n > d)
    BY <1>1, <1>2 DEF MainAt0, Resting, KindedAt
  <2>4. Base(d, Main(0), n) + 1 <= e /\ e <= Base(d, Main(0), n + 1)
    BY <1>1, <2>1, <2>2, <2>3
  <2> HIDE DEF e
  <2> QED
    BY <2>4 DEF MainAt0, Resting
<1>6. Enqueued(d, at, ph, Main(0))' = e
  BY <1>4 DEF Enqueued, Executed
<1>7. MainAt0(d, n, m, Enqueued(d, at, ph, Main(0))') /\ pc[0] # "transport"
  BY <1>2, <1>5, <1>6
<1> QED
  BY <1>1, <1>3, <1>4, <1>7, TurnKeeps

\* When the request thread has said of the step of rank 0 that its copies are
\* enqueued, it has recorded as many as there were real steps.
LEMMA Copied ==
    ASSUME NEW d \in 0..MaxStep, NEW at, NEW ph, IInv(d, at, ph), step[0] > d,
           pc[0] \notin {"sync", "prepare", "status_failed", "failed"}, enqueued = step[0]
    PROVE  recorded["d2h_done"] = step[0] - d
<1> DEFINE n == step[0]
<1>1. /\ Shape /\ d \in Nat /\ n \in Nat /\ Requests(d, at, ph) /\ Served(d)
  BY Of0
<1>2. reqSeq \in Nat /\ mailbox \in Int
  BY <1>1, StepAssumption DEF Shape, Contents
<1>3. Launched = n - d
  <2>1. Counted(d, n, pc[0], {"sync", "prepare"}, {"status_failed", "failed"}, Launched)
    BY Of0 DEF Launched
  <2> QED
    BY <2>1 DEF Counted
<1>4. n # 0 /\ reqSeq # 0
  <2>1. n # 0
    BY <1>1
  <2> QED
    BY <1>1, <2>1 DEF Requests, Served
<1>5. reqSeq <= n
  <2>1. CASE mailbox > 0
    BY <1>1, <1>2, <1>3, <2>1 DEF Served
  <2>2. CASE mailbox <= 0
    BY <1>1, <1>2, <1>3, <2>2 DEF Served
  <2> QED
    BY <1>2, <2>1, <2>2
<1>6. reqSeq = n /\ req \notin {"stage", "notify"}
  <2>1. enqueued = n
    OBVIOUS
  <2> QED
    BY <1>1, <1>2, <1>4, <1>5, <2>1 DEF Requests
<1>7. recorded["d2h_done"] = reqSeq - d
  BY <1>4, <1>6, <1>1 DEF Requests
<1> QED
  BY <1>6, <1>7

LEMMA HandoffKeeps ==
    ASSUME NEW d \in 0..MaxStep, NEW at, NEW ph, IInv(d, at, ph), Handoff
    PROVE  IInv(d, at, ph)'
<1> DEFINE n == step[0]
           ops == <<Await("d2h_done", n - d)>>
           m == HandedOff(n)
           k == 2
<1>1. /\ Shape /\ d \in Nat /\ MaxStep \in Nat /\ n \in Nat /\ n <= MaxStep
      /\ MainAt0(d, n, pc[0], Enqueued(d, at, ph, Main(0))) /\ KindedAt(d, n, pc[0])
      /\ Requests(d, at, ph) /\ Served(d) /\ Faulty
  BY Of0
<1>2. /\ pc[0] = "handoff" /\ HostFrame
      /\ UNCHANGED <<recorded, step, verify, digest, finished, conn, rqst>>
  BY DEF Handoff, HostFrame
<1>3. CASE error
  <2>1. pc' = [pc EXCEPT ![0] = Raise(n)] /\ queue' = queue
    BY <1>3 DEF Handoff, Goto
  <2>2. faults # {}
    BY <1>1, <1>3 DEF Faulty
  <2>3. Raise(n) \in {"status_failed", "failed"} /\ Turns(n, Raise(n)) /\ Erring(Raise(n))
    BY <1>2, <2>2 DEF Raise, Turns, Erring, conn
  <2>4. UNCHANGED <<recorded, step, verify, digest, finished, active, records, completed,
                    released, mailbox, enqueued, closed, rqst>>
    BY <1>2 DEF conn
  <2> QED
    BY <1>2, <2>1, <2>3, <2>4, Halts0
<1>4. CASE ~error
  <2>1. enqueued = n /\ pc' = [pc EXCEPT ![0] = m] /\ queue' = On(Main(0), <<WaitEvent("d2h_done")>>)
    BY <1>4 DEF Handoff, Goto
  <2>2. n > d /\ n \in Steps /\ Enqueued(d, at, ph, Main(0)) = Base(d, Main(0), n) + 2
    BY <1>1, <1>2 DEF KindedAt, MainAt0, Steps
  <2>3. recorded["d2h_done"] = n - d
    BY <1>2, <2>1, <2>2, Copied
  <2>4. <<WaitEvent("d2h_done")>> = ops
    BY <2>3 DEF WaitEvent, Await
  <2>5. Size(d, Main(0), n) = 7 /\ Base(d, Main(0), n) \in Int
    <3>1. Base(d, Main(0), n) = IF n > d THEN 6 * d + 7 * (n - d - 1) ELSE 6 * (n - 1)
      BY <1>1, Bases
    <3>2. Size(d, Main(0), n) = IF n > d THEN 7 ELSE 6
      BY <1>1, Bases
    <3> QED
      BY <1>1, <2>2, <3>1, <3>2
  <2>6. /\ ops \in Seq(Ops) /\ Len(ops) = 1
        /\ \A i \in 1..Len(ops) : ops[i] = Script(d, Main(0), n)[k + i]
    <3>1. n - d \in 0..MaxStep /\ "d2h_done" \in Events
      BY <1>1, <2>2 DEF Events
    <3>2. ops \in Seq(Ops)
      BY <2>2, <3>1, Enqueuing
    <3>3. Script(d, Main(0), n) = MainScript0(d, n)
      BY Scripts
    <3>4. MainScript0(d, n)[3] = Await("d2h_done", n - d)
      BY <2>2 DEF MainScript0
    <3> QED
      BY <3>2, <3>3, <3>4
  <2>7. k \in Nat /\ k + Len(ops) <= Size(d, Main(0), n) /\ k = 2
    BY <2>5, <2>6
  <2>8. MainAt0(d, n, m, Base(d, Main(0), n) + k + Len(ops))
    <3>1. Base(d, Main(0), n) + k + Len(ops) = Base(d, Main(0), n) + 3
      BY <2>5, <2>6
    <3>2. MainAt0(d, n, m, Base(d, Main(0), n) + 3)
      BY <2>5 DEF MainAt0, HandedOff, Resting
    <3> QED
      BY <3>1, <3>2
  <2>9. Turns(n, m)
    BY <1>2, <2>1 DEF Turns, HandedOff
  <2>10. n = step[0] /\ queue' = On(Main(0), ops)
    BY <2>1, <2>4
  <2> HIDE DEF n, ops, m, k
  <2>11. Pushing0(d, at, ph, n, m, k, ops)
    BY <2>2, <2>6, <2>7, <2>8, <2>10 DEF Pushing0
  <2> QED
    BY <1>2, <2>1, <2>9, <2>10, <2>11, Pushes0
<1> QED
  BY <1>3, <1>4

LEMMA HandoffTimeoutKeeps ==
    ASSUME NEW d \in 0..MaxStep, NEW at, NEW ph, IInv(d, at, ph), HandoffTimeout
    PROVE  IInv(d, at, ph)'
<1> DEFINE n == step[0]
           m == Raise(n)
<1>1. /\ pc[0] = "handoff" /\ faults # {} /\ error' = TRUE /\ HostFrame
      /\ pc' = [pc EXCEPT ![0] = m] /\ (queue' = queue \/ queue' = Wakeup)
      /\ UNCHANGED <<recorded, step, verify, digest, finished, active, records, completed,
                     released, mailbox, enqueued, closed, rqst>>
  BY DEF HandoffTimeout, Goto, HostFrame
<1>2. m \in {"status_failed", "failed"} /\ Turns(n, m) /\ Erring(m)
  BY <1>1 DEF Raise, Turns, Erring
<1> HIDE DEF m
<1> QED
  BY <1>1, <1>2, Halts0

LEMMA Forward0Keeps ==
    ASSUME NEW d \in 0..MaxStep, NEW at, NEW ph, IInv(d, at, ph), Forward(0)
    PROVE  IInv(d, at, ph)'
<1> DEFINE n == step[0]
           ops == <<WaitValue(1), Op("consume", n)>>
           m == "release"
           k == 3
<1>1. /\ Shape /\ d \in Nat /\ n \in Nat /\ n <= MaxStep
      /\ MainAt0(d, n, pc[0], Enqueued(d, at, ph, Main(0))) /\ KindedAt(d, n, pc[0])
  BY Of0
<1>2. /\ pc[0] = "forward" /\ pc' = [pc EXCEPT ![0] = m] /\ queue' = On(Main(0), ops)
      /\ HostFrame /\ UNCHANGED <<recorded, step, verify, digest, finished, conn, rqst>>
  BY DEF Forward, Goto, HostFrame
<1>3. n >= 1 /\ Enqueued(d, at, ph, Main(0)) = Base(d, Main(0), n) + k
  BY <1>1, <1>2 DEF KindedAt, MainAt0, Resting
<1>4. /\ Base(d, Main(0), n) \in Int /\ Size(d, Main(0), n) \in {6, 7} /\ n \in Steps
  <2>1. /\ Base(d, Main(0), n) = IF n > d THEN 6 * d + 7 * (n - d - 1) ELSE 6 * (n - 1)
        /\ Size(d, Main(0), n) = IF n > d THEN 7 ELSE 6
    BY <1>1, Bases
  <2> QED
    BY <1>1, <1>3, <2>1 DEF Steps
<1>5. /\ Script(d, Main(0), n)[4] = WaitValue(1)
      /\ Script(d, Main(0), n)[5] = Op("consume", n)
  <2>1. Script(d, Main(0), n) = MainScript0(d, n)
    BY Scripts
  <2>2. MainScript0(d, n)[4] = WaitValue(1) /\ MainScript0(d, n)[5] = Op("consume", n)
    <3>1. CASE n > d
      BY <3>1 DEF MainScript0
    <3>2. CASE ~(n > d)
      BY <3>2 DEF MainScript0
    <3> QED
      BY <3>1, <3>2
  <2> QED
    BY <2>1, <2>2
<1>6. /\ ops \in Seq(Ops) /\ Len(ops) = 2
      /\ \A i \in 1..Len(ops) : ops[i] = Script(d, Main(0), n)[k + i]
  <2>1. ops \in Seq(Ops)
    <3>1. 0 \in 0..MaxStep /\ "done1" \in Events
      BY StepAssumption DEF Events
    <3> QED
      BY <1>4, <3>1, Enqueuing
  <2> QED
    BY <1>5, <2>1
<1>7. MainAt0(d, n, m, Base(d, Main(0), n) + k + Len(ops))
  <2>1. Base(d, Main(0), n) + k + Len(ops) = Base(d, Main(0), n) + 5
    BY <1>4, <1>6
  <2>2. MainAt0(d, n, m, Base(d, Main(0), n) + 5)
    BY <1>4 DEF MainAt0, Resting
  <2> QED
    BY <2>1, <2>2
<1>8. k \in Nat /\ k + Len(ops) <= Size(d, Main(0), n) /\ n = step[0]
  BY <1>4, <1>6
<1>9. Turns(n, m) /\ pc[0] # "transport"
  BY <1>2 DEF Turns
<1> HIDE DEF n, ops, m, k
<1>10. Pushing0(d, at, ph, n, m, k, ops)
  BY <1>3, <1>4, <1>6, <1>7, <1>8 DEF Pushing0
<1> QED
  BY <1>2, <1>9, <1>10, Pushes0

LEMMA Release0Keeps ==
    ASSUME NEW d \in 0..MaxStep, NEW at, NEW ph, IInv(d, at, ph), Release(0)
    PROVE  IInv(d, at, ph)'
<1> DEFINE n == step[0]
           c == recorded["done0"]
           ops == IF n > d THEN <<Await("done0", c), WriteValue(0)>> ELSE <<WriteValue(0)>>
           m == "released"
           k == 5
<1>1. /\ Shape /\ Dummies(d) /\ d \in Nat /\ n \in Nat /\ n <= MaxStep /\ MaxStep \in Nat
      /\ c \in Nat
      /\ MainAt0(d, n, pc[0], Enqueued(d, at, ph, Main(0))) /\ KindedAt(d, n, pc[0])
      /\ Transfers(d, n, pc[0], c, Enqueued(d, at, ph, Tp(0)))
  BY Of0
<1>2. /\ pc[0] = "release" /\ pc' = [pc EXCEPT ![0] = m]
      /\ queue' = On(Main(0), ReleaseOps(0, n))
      /\ HostFrame /\ UNCHANGED <<recorded, step, verify, digest, finished, conn, rqst>>
  BY DEF Release, Goto, HostFrame
<1>3. n >= 1 /\ Enqueued(d, at, ph, Main(0)) = Base(d, Main(0), n) + k
  BY <1>1, <1>2 DEF KindedAt, MainAt0, Resting
<1>4. /\ Base(d, Main(0), n) = IF n > d THEN 6 * d + 7 * (n - d - 1) ELSE 6 * (n - 1)
      /\ Size(d, Main(0), n) = IF n > d THEN 7 ELSE 6
  BY <1>1, Bases
<1>5. n \in Steps /\ (n > d => c = n - d) /\ (n <= d => c = 0)
  BY <1>1, <1>2, <1>3 DEF Steps, Transfers, Counted
<1>6. ReleaseOps(0, n) = ops
  <2>1. Real(n) <=> n > d
    BY <1>1, <1>5 DEF Dummies
  <2>2. WaitEvent(Done(0)) = Await("done0", c)
    BY DEF WaitEvent, Await, Done
  <2>3. <<Await("done0", c)>> \o <<WriteValue(0)>> = <<Await("done0", c), WriteValue(0)>>
    <3>1. c \in 0..(MaxStep + 1) /\ 0 \in 0..(MaxStep + 1)
      BY <1>1, <1>5
    <3>2. Await("done0", c) \in Ops /\ WriteValue(0) \in Ops
      BY <3>1 DEF Await, WriteValue, Op, Ops, Events
    <3> QED
      BY <3>2, Pair
  <2>4. <<>> \o <<WriteValue(0)>> = <<WriteValue(0)>>
    OBVIOUS
  <2> QED
    BY <2>1, <2>2, <2>3, <2>4 DEF ReleaseOps
<1>7. /\ n > d => /\ Script(d, Main(0), n)[6] = Await("done0", c)
                  /\ Script(d, Main(0), n)[7] = WriteValue(0)
      /\ ~(n > d) => Script(d, Main(0), n)[6] = WriteValue(0)
  <2>1. Script(d, Main(0), n) = MainScript0(d, n)
    BY Scripts
  <2>2. CASE n > d
    <3>1. MainScript0(d, n)[6] = Await("done0", n - d) /\ MainScript0(d, n)[7] = WriteValue(0)
      BY <2>2 DEF MainScript0
    <3> QED
      BY <1>5, <2>1, <2>2, <3>1
  <2>3. CASE ~(n > d)
    <3>1. MainScript0(d, n)[6] = WriteValue(0)
      BY <2>3 DEF MainScript0
    <3> QED
      BY <2>1, <2>3, <3>1
  <2> QED
    BY <2>2, <2>3
<1>8. ops \in Seq(Ops)
  <2>1. c \in 0..MaxStep /\ "done0" \in Events
    BY <1>1, <1>5 DEF Events
  <2> QED
    BY <1>5, <2>1, Enqueuing
<1>9. MainAt0(d, n, m, Base(d, Main(0), n) + k + Len(ops))
  <2>1. Base(d, Main(0), n + 1) =
          IF n + 1 > d THEN 6 * d + 7 * ((n + 1) - d - 1) ELSE 6 * ((n + 1) - 1)
    BY <1>1, Sizes DEF Base
  <2>2. CASE n > d
    <3>1. Base(d, Main(0), n + 1) = 6 * d + 7 * ((n + 1) - d - 1) /\ Len(ops) = 2
      BY <1>1, <2>1, <2>2
    <3>2. Base(d, Main(0), n + 1) = Base(d, Main(0), n) + 5 + 2
      BY <1>1, <1>4, <2>2, <3>1
    <3> QED
      BY <3>1, <3>2 DEF MainAt0, Resting
  <2>3. CASE ~(n > d)
    <3>1. Len(ops) = 1 /\ Base(d, Main(0), n) = 6 * (n - 1)
      BY <1>4, <2>3
    <3>2. Base(d, Main(0), n + 1) = 6 * n
      BY <1>1, <2>1, <2>3
    <3>3. Base(d, Main(0), n + 1) = Base(d, Main(0), n) + 5 + 1
      BY <1>1, <3>1, <3>2
    <3> QED
      BY <3>1, <3>3 DEF MainAt0, Resting
  <2> QED
    BY <2>2, <2>3
<1>10. /\ k \in Nat /\ k + Len(ops) <= Size(d, Main(0), n)
       /\ \A i \in 1..Len(ops) : ops[i] = Script(d, Main(0), n)[k + i]
  <2>1. CASE n > d
    <3>1. ops = <<Await("done0", c), WriteValue(0)>>
      BY <2>1
    <3> QED
      BY <1>4, <1>7, <2>1, <3>1
  <2>2. CASE ~(n > d)
    <3>1. ops = <<WriteValue(0)>>
      BY <2>2
    <3> QED
      BY <1>4, <1>7, <2>2, <3>1
  <2> QED
    BY <2>1, <2>2
<1>11. queue' = On(Main(0), ops) /\ n = step[0] /\ Turns(n, m) /\ pc[0] # "transport"
  BY <1>2, <1>6 DEF Turns
<1> HIDE DEF n, ops, k, m
<1>12. Pushing0(d, at, ph, n, m, k, ops)
  BY <1>3, <1>5, <1>8, <1>9, <1>10, <1>11 DEF Pushing0
<1> QED
  BY <1>2, <1>11, <1>12, Pushes0

LEMMA Transfer0Keeps ==
    ASSUME NEW d \in 0..MaxStep, NEW at, NEW ph, IInv(d, at, ph), Transfer(0)
    PROVE  IInv(d, at, ph)'
<1> DEFINE n == step[0]
           c == recorded["done0"]
           C == recorded'["done0"]
           e == Enqueued(d, at, ph, Main(0))
           m == IF Serial(n) THEN "drain" ELSE Transferred(0)
           ops == <<Await("d2h_done", n - d), WaitValue(1), Op("broadcast", n), Record("done0")>>
           k == 0
<1>1. /\ Shape /\ Cursors(d, at, ph) /\ Queues(d, at, ph) /\ Owned(d)
      /\ d \in Nat /\ n \in Nat /\ n <= MaxStep /\ MaxStep \in Nat /\ c \in Nat
      /\ MainAt0(d, n, pc[0], e) /\ KindedAt(d, n, pc[0])
      /\ Transfers(d, n, pc[0], c, Enqueued(d, at, ph, Tp(0)))
      /\ recorded \in [Events -> Nat] /\ Tp(0) \in Scripted
  BY Of0
<1>2. /\ pc[0] = "transport" /\ pc' = [pc EXCEPT ![0] = m]
      /\ recorded' = [recorded EXCEPT !["done0"] = @ + 1]
      /\ queue' = On(Tp(0), TransferOps(0, n))
      /\ HostFrame /\ UNCHANGED <<step, verify, digest, finished, conn, rqst>>
  BY DEF Transfer, Goto, HostFrame, Done
<1>3. /\ n > d /\ n \in Steps /\ e = Base(d, Main(0), n) + 3 /\ c = n - d - 1
      /\ Enqueued(d, at, ph, Tp(0)) = 4 * (n - d - 1)
  BY <1>1, <1>2 DEF KindedAt, MainAt0, Transfers, Counted, Steps
<1>4. queue' = On(Tp(0), ops)
  <2>1. enqueued = n
    BY <1>1, <1>2, <1>3 DEF Owned
  <2>2. recorded["d2h_done"] = n - d
    BY <1>2, <1>3, <2>1, Copied
  <2>3. TransferOps(0, n) = ops
    BY <2>2 DEF TransferOps, Done, WaitEvent, Await
  <2> QED
    BY <1>2, <2>3
<1>5. /\ C = n - d /\ recorded' \in [Events -> Nat] /\ "done0" \in Events
      /\ \A v \in Events \ {"done0"} : recorded'[v] = recorded[v]
  BY <1>1, <1>2, <1>3 DEF Events
<1>6. Base(d, Tp(0), n) = 4 * (n - d - 1) /\ Size(d, Tp(0), n) = 4
  BY <1>1, <1>3, Bases DEF Ranks
<1>7. /\ ops \in Seq(Ops) /\ Len(ops) = 4
      /\ \A i \in 1..Len(ops) : ops[i] = Script(d, Tp(0), n)[k + i]
  <2>1. ops \in Seq(Ops)
    <3>1. n - d \in 0..MaxStep /\ "d2h_done" \in Events
      BY <1>1, <1>3 DEF Events
    <3>2. /\ Await("d2h_done", n - d) \in Ops /\ WaitValue(1) \in Ops
          /\ Op("broadcast", n) \in Ops /\ Record("done0") \in Ops
      BY <1>3, <3>1, StepAssumption DEF Await, WaitValue, Op, Record, Ops, Events, Moves, Steps
    <3> QED
      BY <3>2
  <2>2. Script(d, Tp(0), n) = ops
    BY Scripts DEF TpScript0
  <2> QED
    BY <2>1, <2>2
<1>8. /\ k \in Nat /\ k + Len(ops) <= Size(d, Tp(0), n)
      /\ Enqueued(d, at, ph, Tp(0)) = Base(d, Tp(0), n) + k
      /\ Base(d, Tp(0), n) + k + Len(ops) = 4 * C
  BY <1>1, <1>3, <1>5, <1>6, <1>7
<1>9. /\ m \in {"drain", "verify", "forward"} /\ Turns(n, m) /\ Erring(m)
  BY <1>2 DEF Transferred, Turns, Erring, conn
<1>10. n = step[0]
  OBVIOUS
<1>11. Transfers(d, n, m, C, 4 * C)
  BY <1>1, <1>3, <1>5, <1>9 DEF Transfers, Counted
<1>12. MainAt0(d, n, m, e)
  <2>1. Base(d, Main(0), n) \in Int
    <3>1. Base(d, Main(0), n) = IF n > d THEN 6 * d + 7 * (n - d - 1) ELSE 6 * (n - 1)
      BY <1>1, Bases
    <3> QED
      BY <1>1, <1>3, <3>1
  <2> HIDE DEF e, m
  <2> QED
    BY <1>3, <1>9, <2>1 DEF MainAt0, Resting
<1> HIDE DEF m, ops, k, n, c, C, e
<1>13. /\ Queues(d, at, ph)' /\ Grown
       /\ Enqueued(d, at, ph, Tp(0))' = Base(d, Tp(0), n) + k + Len(ops)
       /\ \A t \in Streams \ {Tp(0)} : /\ queue'[t] = queue[t]
                                       /\ Enqueued(d, at, ph, t)' = Enqueued(d, at, ph, t)
                                       /\ Idle(t)' = Idle(t)
  <2>1. /\ Shape /\ Queues(d, at, ph) /\ Cursors(d, at, ph) /\ n \in Steps /\ k \in Nat
        /\ ops \in Seq(Ops) /\ d \in 0..MaxStep /\ Tp(0) \in Scripted
        /\ Enqueued(d, at, ph, Tp(0)) = Base(d, Tp(0), n) + k
        /\ k + Len(ops) <= Size(d, Tp(0), n) /\ queue' = On(Tp(0), ops)
        /\ \A i \in 1..Len(ops) : ops[i] = Script(d, Tp(0), n)[k + i]
    BY <1>1, <1>3, <1>4, <1>7, <1>8
  <2> QED
    BY ONLY <2>1, Push
<1>14. /\ \A s \in {Main(1), Tp(1), D2H, Reader} : queue'[s] = queue[s]
       /\ Idle(Error)' = Idle(Error) /\ Enqueued(d, at, ph, Main(0))' = e
  BY <1>13, StreamFacts DEF e
<1>15. Transfers(d, step[0], m, recorded'["done0"], Enqueued(d, at, ph, Tp(0))')
  BY <1>8, <1>10, <1>11, <1>13 DEF C
<1>16. MainAt0(d, step[0], m, Enqueued(d, at, ph, Main(0))')
  BY <1>10, <1>12, <1>14
<1>17. UNCHANGED <<step, verify, digest, finished, active, records, completed, released,
                   mailbox, enqueued, closed, rqst>>
  BY <1>2 DEF conn
<1> QED
  BY <1>2, <1>5, <1>9, <1>10, <1>13, <1>14, <1>15, <1>16, <1>17, TurnKeeps

\* A step of rank 0 that puts operations on its main stream and changes the record
\* of its sequence.
LEMMA Grows0 ==
    ASSUME NEW d \in 0..MaxStep, NEW at, NEW ph, IInv(d, at, ph), HostFrame,
           UNCHANGED <<verify, digest, finished, released, enqueued, error, closed, rqst>>,
           NEW n \in Steps, NEW m, NEW k \in Nat, NEW ops \in Seq(Ops),
           queue' = On(Main(0), ops), pc' = [pc EXCEPT ![0] = m],
           Enqueued(d, at, ph, Main(0)) = Base(d, Main(0), n) + k,
           k + Len(ops) <= Size(d, Main(0), n),
           \A i \in 1..Len(ops) : ops[i] = Script(d, Main(0), n)[k + i],
           MainAt0(d, n, m, Base(d, Main(0), n) + k + Len(ops)),
           step' \in [Ranks -> Contents], step'[0] = n, step'[1] = step[1],
           recorded' \in [Events -> Nat],
           \A e \in Events \ {"input_ready"} : recorded'[e] = recorded[e],
           active' \in Contents, records' \subseteq Steps, completed' \subseteq Steps,
           completed \subseteq completed',
           mailbox' \in Contents \cup {-1},
           Counted(d, n, m, {"sync", "prepare"}, {"status_failed", "failed"},
                   recorded'["input_ready"]),
           Transfers(d, n, m, recorded["done0"], Enqueued(d, at, ph, Tp(0))),
           KindedAt(d, n, m), Stays(d, 0) \/ Begins(0),
           pc[0] \in {"idle", "prepare", "dummy"},
           m \in {"sync", "prepare", "dummy", "handoff", "forward"},
           sync_steps => Enqueued(d, at, ph, Reader) >= 3 * (recorded'["input_ready"] - 1),
           mailbox' = mailbox \/ (~error /\ req \notin {"fail", "wake"}),
           Owned(d)', Served(d)', Recorded(d)'
    PROVE  IInv(d, at, ph)'
<1>1. /\ Shape /\ Queues(d, at, ph) /\ Cursors(d, at, ph) /\ Main(0) \in Scripted
      /\ Reading(d, at, ph) /\ Faulty /\ pc \in [Ranks -> Labels] /\ 0 \in Ranks
      /\ (reqSeq \in completed => reqSeq \in completed')
  BY Of0
<1>2. /\ Queues(d, at, ph)' /\ Grown
      /\ Enqueued(d, at, ph, Main(0))' = Base(d, Main(0), n) + k + Len(ops)
      /\ \A t \in Streams \ {Main(0)} : /\ queue'[t] = queue[t]
                                        /\ Enqueued(d, at, ph, t)' = Enqueued(d, at, ph, t)
                                        /\ Idle(t)' = Idle(t)
  <2>1. /\ Shape /\ Queues(d, at, ph) /\ Cursors(d, at, ph) /\ n \in Steps /\ k \in Nat
        /\ ops \in Seq(Ops) /\ d \in 0..MaxStep /\ Main(0) \in Scripted
        /\ Enqueued(d, at, ph, Main(0)) = Base(d, Main(0), n) + k
        /\ k + Len(ops) <= Size(d, Main(0), n) /\ queue' = On(Main(0), ops)
        /\ \A i \in 1..Len(ops) : ops[i] = Script(d, Main(0), n)[k + i]
    BY <1>1
  <2> QED
    BY ONLY <2>1, Push
<1>3. /\ \A s \in {Main(1), Tp(1), D2H} : queue'[s] = queue[s]
      /\ Enqueued(d, at, ph, Tp(0))' = Enqueued(d, at, ph, Tp(0))
      /\ Enqueued(d, at, ph, Reader)' = Enqueued(d, at, ph, Reader)
      /\ Idle(Reader)' = Idle(Reader) /\ Idle(Error)' = Idle(Error)
  BY <1>2, StreamFacts
<1>4. pc'[0] = m /\ pc'[1] = pc[1] /\ pc' \in [Ranks -> Labels]
  <2>1. m \in Labels
    BY DEF Labels
  <2> QED
    BY <1>1, <2>1 DEF Ranks
<1>5. Shape'
  BY <1>1, <1>2, <1>4 DEF Shape, HostFrame, workload, rqst, Grown
<1>6. Clean' => Clean
  BY <1>4 DEF Clean
<1>7. /\ recorded'["done0"] = recorded["done0"]
      /\ \A e \in {"done1", "d2h_done"} : recorded'[e] = recorded[e]
  BY DEF Events
<1>8. /\ MainAt0(d, step[0], pc[0], Enqueued(d, at, ph, Main(0)))'
      /\ Counted(d, step[0], pc[0], {"sync", "prepare"}, {"status_failed", "failed"},
                 recorded["input_ready"])'
      /\ Transfers(d, step[0], pc[0], recorded["done0"], Enqueued(d, at, ph, Tp(0)))'
  BY <1>2, <1>3, <1>4, <1>7
<1>9. KindedAt(d, step[0], pc[0])'
  <2>1. \A i : Serial(i)' <=> Serial(i)
    BY DEF Serial, HostFrame, workload
  <2>2. Serial(step[0])' <=> Serial(n)
    BY <2>1 DEF Serial
  <2> QED
    BY <1>4, <2>2 DEF KindedAt
<1>10. Reading(d, at, ph)'
  <2>1. UNCHANGED <<sync_steps, error, req, reqSeq>>
    BY DEF HostFrame, workload, rqst
  <2>2. Broken(d, at, ph)' <=> Broken(d, at, ph)
    BY <1>3, <2>1 DEF Broken
  <2>3. pc'[0] \notin {"status", "transport", "drain", "drained"}
    BY <1>4
  <2> HIDE DEF Broken
  <2>4. CASE mailbox' = mailbox
    BY <1>1, <1>3, <2>1, <2>2, <2>3, <2>4 DEF Reading, Launched
  <2>5. CASE ~error /\ req \notin {"fail", "wake"}
    BY <1>1, <1>3, <2>1, <2>2, <2>3, <2>5 DEF Reading, Launched
  <2> QED
    BY <2>4, <2>5
<1>11. Faulty'
  <2>1. UNCHANGED <<faults, error, req>>
    BY DEF HostFrame, workload, rqst
  <2>2. m # "result" /\ m # "failed" /\ m # "status_failed"
    OBVIOUS
  <2> QED
    BY <1>1, <1>3, <1>4, <2>1, <2>2 DEF Faulty, Ranks
<1>12. /\ pc[0] # "failed" /\ pc'[0] \notin {"verify", "verifying", "drained"}
       /\ pc[0] \notin {"transport", "drain"}
  BY <1>4
<1> QED
  BY <1>2, <1>3, <1>4, <1>5, <1>6, <1>7, <1>8, <1>9, <1>10, <1>11, <1>12, Rank0Step

LEMMA Begin0Keeps ==
    ASSUME NEW d \in 0..MaxStep, NEW at, NEW ph, IInv(d, at, ph), Begin(0)
    PROVE  IInv(d, at, ph)'
<1> DEFINE i == step[0]
           n == step[0] + 1
           m == CASE ~Real(n) -> "dummy" [] Serial(n) -> "sync" [] OTHER -> "prepare"
           ops == <<Op("stage", n)>>
           k == 0
           c == recorded["done0"]
           t == Enqueued(d, at, ph, Tp(0))
<1>1. /\ Shape /\ Dummies(d) /\ d \in Nat /\ MaxStep \in Nat /\ i \in Nat /\ 0 \in Ranks /\ 1 \in Ranks
      /\ MainAt0(d, i, pc[0], Enqueued(d, at, ph, Main(0))) /\ Transfers(d, i, pc[0], c, t)
      /\ Counted(d, i, pc[0], {"sync", "prepare"}, {"status_failed", "failed"}, Launched)
      /\ Owned(d) /\ Served(d) /\ Recorded(d) /\ Reading(d, at, ph)
      /\ step \in [Ranks -> Contents] /\ recorded \in [Events -> Nat] /\ c \in Nat /\ Launched \in Nat
      /\ pc \in [Ranks -> Labels]
  BY Of0 DEF Launched
<1>2. /\ pc[0] = "idle" /\ i < MaxStep /\ step' = [step EXCEPT ![0] = n]
      /\ pc' = [pc EXCEPT ![0] = m] /\ queue' = On(Main(0), ops)
      /\ HostFrame /\ UNCHANGED <<recorded, verify, digest, finished, conn, rqst>>
  BY DEF Begin, Goto, HostFrame
<1>3. n \in Steps /\ n \in Contents /\ n = i + 1 /\ step'[0] = n /\ step'[1] = step[1]
      /\ step' \in [Ranks -> Contents]
  <2>1. n \in Steps /\ n \in Contents
    BY <1>1, <1>2 DEF Steps, Contents
  <2> QED
    BY <1>1, <1>2, <2>1
<1>4. /\ m = "dummy" => n <= d
      /\ m # "dummy" => n > d
      /\ m = "sync" => Serial(n)
      /\ m \in {"dummy", "sync", "prepare"}
  BY <1>1, <1>3 DEF Dummies, Real, Serial
<1>5. Enqueued(d, at, ph, Main(0)) = Base(d, Main(0), n)
  BY <1>1, <1>2 DEF MainAt0, Resting
<1>6. Base(d, Main(0), n) \in Int /\ Size(d, Main(0), n) \in {6, 7}
  <2>1. n \in Nat
    BY <1>1
  <2> HIDE DEF n
  <2>2. /\ Base(d, Main(0), n) = IF n > d THEN 6 * d + 7 * (n - d - 1) ELSE 6 * (n - 1)
        /\ Size(d, Main(0), n) = IF n > d THEN 7 ELSE 6
    BY <1>1, <2>1, Bases
  <2> QED
    BY <1>1, <2>1, <2>2
<1>7. /\ ops \in Seq(Ops) /\ Len(ops) = 1
      /\ \A j \in 1..Len(ops) : ops[j] = Script(d, Main(0), n)[k + j]
  <2>1. ops \in Seq(Ops)
    <3>1. 0 \in 0..MaxStep /\ "done1" \in Events
      BY StepAssumption DEF Events
    <3> HIDE DEF n
    <3> QED
      BY <1>3, <3>1, Enqueuing
  <2>2. Script(d, Main(0), n) = MainScript0(d, n)
    BY Scripts
  <2>3. MainScript0(d, n)[1] = Op("stage", n)
    <3> HIDE DEF n
    <3>1. CASE n > d
      BY <3>1 DEF MainScript0
    <3>2. CASE ~(n > d)
      BY <3>2 DEF MainScript0
    <3> QED
      BY <3>1, <3>2
  <2> HIDE DEF n
  <2> QED
    BY <2>1, <2>2, <2>3
<1> HIDE DEF m
<1>8. /\ Enqueued(d, at, ph, Main(0)) = Base(d, Main(0), n) + k
      /\ k \in Nat /\ k + Len(ops) <= Size(d, Main(0), n)
  BY <1>5, <1>6, <1>7
<1>9. MainAt0(d, n, m, Base(d, Main(0), n) + k + Len(ops))
  <2>1. Base(d, Main(0), n) + k + Len(ops) = Base(d, Main(0), n) + 1
    BY <1>6, <1>7
  <2>2. MainAt0(d, n, m, Base(d, Main(0), n) + 1)
    BY <1>4 DEF MainAt0, Resting
  <2> QED
    BY <2>1, <2>2
<1>10. Counted(d, n, m, {"sync", "prepare"}, {"status_failed", "failed"}, Launched)
  BY <1>1, <1>2, <1>4 DEF Counted
<1>11. Transfers(d, n, m, c, t)
  BY <1>1, <1>2, <1>4 DEF Transfers, Counted
<1>12. KindedAt(d, n, m)
  BY <1>1, <1>4 DEF KindedAt
<1>13. pc'[0] = m /\ pc'[1] = pc[1] /\ Begins(0)
  BY <1>1, <1>2, <1>3, <1>4 DEF Begins
<1>14. UNCHANGED <<active, records, completed, released, mailbox, enqueued, error, closed,
                   req, reqSeq, rows, faults, sync_steps, finished, recorded>>
  BY <1>2 DEF conn, rqst, HostFrame, workload
<1>15. Owned(d)'
  <2>1. finished = i /\ active = 0
    BY <1>1, <1>2 DEF Owned, Resting
  <2> QED
    BY <1>1, <1>3, <1>4, <1>13, <1>14, <2>1 DEF Owned, Resting
<1>16. Served(d)'
  BY <1>1, <1>2, <1>4, <1>13, <1>14 DEF Served, Launched
<1>17. Recorded(d)'
  <2>1. pc[0] \in AfterVerify /\ pc[0] \in Resting /\ m \notin AfterVerify /\ m \notin Resting
        /\ m \notin {"result", "failed"} /\ pc[0] \notin {"result", "failed"}
    BY <1>2, <1>4 DEF AfterVerify, Resting
  <2>2. \A j \in Steps : j < n <=> j < i \/ j = i
    BY <1>1 DEF Steps
  <2>3. \A j \in Steps : (j <= i => j <= n) /\ (j < i => j < n) /\ (j = i => j < n)
    BY <1>1 DEF Steps
  <2>4. /\ (\A j \in completed : j <= d \/ j <= reqSeq)'
        /\ (\A j \in Steps : j > d /\ j < reqSeq => j \in completed)'
    BY <1>1, <1>14 DEF Recorded
  <2>5. (\A j \in Steps : j <= d /\ (j < step[0] \/ (j = step[0] /\ pc[0] \in AfterVerify)) =>
            j \in completed)'
    BY <1>1, <1>3, <1>13, <1>14, <2>1, <2>2 DEF Recorded
  <2>6. (\A j \in Steps : j < step[0] \/ (j = step[0] /\ pc[0] \in Resting \cup {"result"}) =>
            j \in released)'
    BY <1>1, <1>3, <1>13, <1>14, <2>1, <2>2 DEF Recorded
  <2>7. released \subseteq Steps /\ records \subseteq Steps
    BY <1>1 DEF Shape
  <2>8. (\A j \in released : j < step[0] \/ (j = step[0] /\ pc[0] \in Resting \cup {"result", "failed"}))'
    BY <1>1, <1>3, <1>14, <2>3, <2>7 DEF Recorded
  <2>9. (\A j \in records : j <= step[0] /\ ~(j \in completed /\ j \in released))'
    BY <1>1, <1>3, <1>14, <2>3, <2>7 DEF Recorded
  <2> QED
    BY <2>4, <2>5, <2>6, <2>8, <2>9 DEF Recorded
<1>18. sync_steps => Enqueued(d, at, ph, Reader) >= 3 * (recorded'["input_ready"] - 1)
  BY <1>1, <1>14 DEF Reading, Launched
<1>19. Counted(d, n, m, {"sync", "prepare"}, {"status_failed", "failed"}, recorded'["input_ready"])
  BY <1>10, <1>14 DEF Launched
<1>20. /\ \A e \in Events \ {"input_ready"} : recorded'[e] = recorded[e]
       /\ recorded' \in [Events -> Nat]
       /\ active' \in Contents /\ records' \subseteq Steps /\ completed' \subseteq Steps
       /\ mailbox' \in Contents \cup {-1} /\ mailbox' = mailbox
  BY <1>1, <1>14 DEF Shape
<1>21. UNCHANGED <<verify, digest, finished, released, enqueued, error, closed, rqst>>
  BY <1>2, <1>14
<1>22. pc[0] \in {"idle", "prepare", "dummy"}
  BY <1>2
<1>23. m \in {"sync", "prepare", "dummy", "handoff", "forward"}
  BY <1>4
<1>24. Transfers(d, n, m, recorded["done0"], Enqueued(d, at, ph, Tp(0)))
  BY <1>11
<1> HIDE DEF n, ops, k, i, c, t
<1> QED
  BY <1>2, <1>3, <1>7, <1>8, <1>9, <1>12, <1>13, <1>15, <1>16, <1>17, <1>18, <1>19, <1>20, <1>21,
     <1>22, <1>23, <1>24, Grows0

LEMMA SignalDummy0Keeps ==
    ASSUME NEW d \in 0..MaxStep, NEW at, NEW ph, IInv(d, at, ph), SignalDummy(0)
    PROVE  IInv(d, at, ph)'
<1> DEFINE n == step[0]
           ops == <<Op("zero", 0), WriteValue(1)>>
           m == "forward"
           k == 1
           c == recorded["done0"]
           t == Enqueued(d, at, ph, Tp(0))
<1>1. /\ Shape /\ d \in Nat /\ MaxStep \in Nat /\ n \in Nat /\ n <= MaxStep /\ 0 \in Ranks
      /\ MainAt0(d, n, pc[0], Enqueued(d, at, ph, Main(0))) /\ Transfers(d, n, pc[0], c, t)
      /\ Counted(d, n, pc[0], {"sync", "prepare"}, {"status_failed", "failed"}, Launched)
      /\ Owned(d) /\ Served(d) /\ Recorded(d) /\ Reading(d, at, ph) /\ Faulty
      /\ KindedAt(d, n, pc[0])
      /\ step \in [Ranks -> Contents] /\ recorded \in [Events -> Nat] /\ c \in Nat
      /\ pc \in [Ranks -> Labels]
  BY Of0 DEF Launched
<1>2. /\ pc[0] = "dummy" /\ HostFrame
      /\ UNCHANGED <<recorded, step, verify, digest, finished, released, mailbox, enqueued, error,
                     closed, rqst>>
  BY DEF SignalDummy, HostFrame
<1>3. \/ /\ error /\ pc' = [pc EXCEPT ![0] = "failed"]
         /\ UNCHANGED <<queue, active, records, completed>>
      \/ /\ queue' = On(Main(0), ops) /\ active' = n /\ records' = records \cup {n}
         /\ completed' = completed \cup {n} /\ pc' = [pc EXCEPT ![0] = m]
  BY DEF SignalDummy, Goto
<1>4. CASE error /\ pc' = [pc EXCEPT ![0] = "failed"] /\ UNCHANGED <<queue, active, records, completed>>
  <2> DEFINE l == "failed"
  <2>1. faults # {}
    BY <1>1, <1>4 DEF Faulty
  <2>2. /\ l \in {"status_failed", "failed"} /\ Turns(n, l) /\ Erring(l)
        /\ pc' = [pc EXCEPT ![0] = l]
    BY <1>2, <1>4, <2>1 DEF Turns, Erring
  <2>3. UNCHANGED <<recorded, step, verify, digest, finished, active, records, completed,
                    released, mailbox, enqueued, closed, rqst>>
    BY <1>2, <1>4
  <2> HIDE DEF l
  <2> QED
    BY <1>2, <1>4, <2>2, <2>3, Halts0
<1>5. CASE /\ queue' = On(Main(0), ops) /\ active' = n /\ records' = records \cup {n}
           /\ completed' = completed \cup {n} /\ pc' = [pc EXCEPT ![0] = m]
  <2>1. n <= d /\ n >= 1 /\ n \in Steps /\ n \in Contents
    BY <1>1, <1>2 DEF KindedAt, Steps, Contents
  <2>2. Enqueued(d, at, ph, Main(0)) = Base(d, Main(0), n) + k
    BY <1>1, <1>2 DEF MainAt0, Resting
  <2>3. Base(d, Main(0), n) \in Int /\ Size(d, Main(0), n) = 6 /\ ~(n > d)
    <3>1. /\ Base(d, Main(0), n) = IF n > d THEN 6 * d + 7 * (n - d - 1) ELSE 6 * (n - 1)
          /\ Size(d, Main(0), n) = IF n > d THEN 7 ELSE 6
      BY <1>1, Bases
    <3> QED
      BY <1>1, <2>1, <3>1
  <2>4. /\ ops \in Seq(Ops) /\ Len(ops) = 2
        /\ \A j \in 1..Len(ops) : ops[j] = Script(d, Main(0), n)[k + j]
    <3>1. ops \in Seq(Ops)
      <4>1. 0 \in 0..MaxStep /\ "done1" \in Events
        BY StepAssumption DEF Events
      <4> QED
        BY <2>1, <4>1, Enqueuing
    <3>2. Script(d, Main(0), n) = MainScript0(d, n)
      BY Scripts
    <3>3. MainScript0(d, n)[2] = Op("zero", 0) /\ MainScript0(d, n)[3] = WriteValue(1)
      BY <2>3 DEF MainScript0
    <3> QED
      BY <3>1, <3>2, <3>3
  <2>5. k \in Nat /\ k + Len(ops) <= Size(d, Main(0), n)
    BY <2>3, <2>4
  <2>6. MainAt0(d, n, m, Base(d, Main(0), n) + k + Len(ops))
    <3>1. Base(d, Main(0), n) + k + Len(ops) = Base(d, Main(0), n) + 3
      BY <2>3, <2>4
    <3>2. MainAt0(d, n, m, Base(d, Main(0), n) + 3)
      BY <2>3 DEF MainAt0, Resting
    <3> QED
      BY <3>1, <3>2
  <2>7. Counted(d, n, m, {"sync", "prepare"}, {"status_failed", "failed"}, recorded'["input_ready"])
    BY <1>1, <1>2, <2>1 DEF Counted, Launched
  <2>8. Transfers(d, n, m, c, t)
    BY <1>1, <1>2, <2>1 DEF Transfers, Counted
  <2>9. KindedAt(d, n, m)
    BY <2>1 DEF KindedAt
  <2>10. pc'[0] = m /\ pc'[1] = pc[1]
    BY <1>1, <1>5 DEF Ranks
  <2>11. Stays(d, 0)
    <3>1. ~Serial(n)
      BY <2>1, <2>3, Of0 DEF Dummies, Real, Serial
    <3> QED
      BY <1>2, <2>3, <3>1 DEF Stays
  <2>12. UNCHANGED <<released, mailbox, enqueued, error, closed, req, reqSeq, rows, faults,
                     sync_steps, finished, recorded, step>>
    BY <1>2 DEF rqst, HostFrame, workload
  <2>13. Owned(d)'
    <3>1. finished = n - 1
      BY <1>1, <1>2 DEF Owned, Resting
    <3> QED
      BY <1>5, <2>3, <2>10, <2>12, <3>1 DEF Owned, Resting
  <2>14. Served(d)'
    <3>1. /\ ~(mailbox > 0) /\ mailbox # -1 /\ req # "stopped"
      BY <1>1, <1>2 DEF Served
    <3>2. reqSeq # 0 => reqSeq > d /\ reqSeq # n
      <4>1. reqSeq \in Nat
        BY <1>1 DEF Shape, Contents
      <4> QED
        BY <1>1, <2>1, <4>1 DEF Served
    <3>3. /\ (mailbox <= 0 => reqSeq = IF Launched = 0 THEN 0 ELSE d + Launched)
          /\ reqSeq = 0 => req \in {"get", "stopped"}
          /\ req \notin {"get", "wake", "stopped"} => reqSeq \in records \ completed
      BY <1>1 DEF Served
    <3>4. req \notin {"get", "wake", "stopped"} => reqSeq \in records' \ completed'
      BY <1>5, <3>2, <3>3
    <3> QED
      BY <2>12, <3>1, <3>2, <3>3, <3>4 DEF Served, Launched
  <2>15. Recorded(d)'
    <3>1. n \notin released
      BY <1>1, <1>2 DEF Recorded, Resting
    <3>2. /\ m \in AfterVerify /\ m \notin Resting \cup {"result", "failed"} /\ pc[0] \notin AfterVerify
          /\ pc[0] \notin Resting \cup {"result", "failed"}
      BY <1>2 DEF AfterVerify, Resting
    <3>3. /\ (\A j \in completed : j <= d \/ j <= reqSeq)'
          /\ (\A j \in Steps : j > d /\ j < reqSeq => j \in completed)'
      BY <1>1, <1>5, <2>1, <2>12 DEF Recorded
    <3>4. (\A j \in Steps : j <= d /\ (j < step[0] \/ (j = step[0] /\ pc[0] \in AfterVerify)) =>
              j \in completed)'
      BY <1>1, <1>5, <2>10, <2>12, <3>2 DEF Recorded
    <3>5. (\A j \in Steps : j < step[0] \/ (j = step[0] /\ pc[0] \in Resting \cup {"result"}) =>
              j \in released)'
      BY <1>1, <2>10, <2>12, <3>2 DEF Recorded
    <3>6. (\A j \in released : j < step[0] \/ (j = step[0] /\ pc[0] \in Resting \cup {"result", "failed"}))'
      BY <1>1, <2>10, <2>12, <3>2 DEF Recorded
    <3>7. (\A j \in records : j <= step[0] /\ ~(j \in completed /\ j \in released))'
      BY <1>1, <1>5, <2>12, <3>1 DEF Recorded
    <3> QED
      BY <3>3, <3>4, <3>5, <3>6, <3>7 DEF Recorded
  <2>16. sync_steps => Enqueued(d, at, ph, Reader) >= 3 * (recorded'["input_ready"] - 1)
    BY <1>1, <2>12 DEF Reading, Launched
  <2>17. /\ \A e \in Events \ {"input_ready"} : recorded'[e] = recorded[e]
         /\ recorded' \in [Events -> Nat] /\ step' \in [Ranks -> Contents]
         /\ step'[0] = n /\ step'[1] = step[1]
         /\ active' \in Contents /\ records' \subseteq Steps /\ completed' \subseteq Steps
         /\ mailbox' \in Contents \cup {-1} /\ mailbox' = mailbox
    BY <1>1, <1>5, <2>1, <2>12 DEF Shape
  <2>18. /\ UNCHANGED <<verify, digest, finished, released, enqueued, error, closed, rqst>>
         /\ pc[0] \in {"idle", "prepare", "dummy"}
         /\ m \in {"sync", "prepare", "dummy", "handoff", "forward"}
    BY <1>2
  <2>19. Transfers(d, n, m, recorded["done0"], Enqueued(d, at, ph, Tp(0)))
    BY <2>8
  <2> HIDE DEF n, ops, k, m, c, t
  <2> QED
    BY <1>2, <1>5, <2>1, <2>2, <2>4, <2>5, <2>6, <2>7, <2>9, <2>11, <2>13, <2>14, <2>15, <2>16,
       <2>17, <2>18, <2>19, Grows0
<1> QED
  BY <1>3, <1>4, <1>5

\* When rank 0 launches a step in a behaviour where steps are dispatched in turn,
\* the rows of the step before have been read.
LEMMA LaunchOf ==
    ASSUME NEW d \in 0..MaxStep, NEW at, NEW ph, IInv(d, at, ph), pc[0] = "prepare", ~error
    PROVE  /\ sync_steps => Enqueued(d, at, ph, Reader) >= 3 * Launched
           /\ req \notin {"fail", "wake"}
<1> DEFINE n == step[0]
<1>1. /\ Shape /\ Cursors(d, at, ph) /\ Device0(d, at, ph) /\ d \in Nat /\ n \in Nat
      /\ Counted(d, n, pc[0], {"sync", "prepare"}, {"status_failed", "failed"}, Launched)
      /\ Owned(d) /\ Served(d) /\ Reading(d, at, ph) /\ Faulty /\ KindedAt(d, n, pc[0])
  BY Of0 DEF Launched
<1>2. n > d /\ Launched = n - d - 1 /\ finished = n - 1
  BY <1>1 DEF KindedAt, Counted, Owned, Resting
<1>3. ASSUME sync_steps PROVE Enqueued(d, at, ph, Reader) >= 3 * Launched
  <2> DEFINE a == at[Main(0)]
             r == at[Reader]
  <2>1. /\ a \in Nat /\ ph[Main(0)] \in Nat /\ r \in Nat /\ ph[Reader] \in Nat
        /\ Main(0) \in Scripted /\ Reader \in Scripted /\ Len(queue[Reader]) \in Nat /\ r > d
    <3>1. Main(0) \in Scripted /\ Reader \in Scripted /\ Reader \in Streams
      BY StreamFacts
    <3>2. Len(queue[Reader]) \in Nat
      BY <1>1, <3>1, QueueFacts
    <3>3. r > d
      BY <1>1 DEF Device0
    <3> QED
      BY <1>1, <3>1, <3>2, <3>3, CursorFacts
  <2>2. n = d + 1 \/ n <= a
    <3>1. CASE n # d + 1
      <4>1. finished \in 1..finished
        BY <1>1, <1>2, <3>1
      <4>2. finished < a
        BY <1>1, <1>3, <4>1 DEF Device0
      <4> QED
        BY <1>1, <1>2, <2>1, <4>2
    <3> QED
      BY <3>1
  <2>3. r >= n
    <3>1. CASE n = d + 1
      BY <1>1, <2>1, <3>1
    <3>2. CASE n <= a
      <4>1. Clean
        BY DEF Clean
      <4>2. Producing(d, a, ph[Main(0)], at[D2H], at[Tp(0)], ph[Tp(0)], r, ph[Reader],
                      flag[0], output[0])
        BY <1>1, <4>1 DEF Device0
      <4>3. a > d
        BY <1>1, <1>2, <2>1, <3>2
      <4>4. r = a \/ r = a + 1
        BY <4>2, <4>3 DEF Producing
      <4> QED
        BY <1>1, <2>1, <3>2, <4>4
    <3> QED
      BY <2>2, <3>1, <3>2
  <2>4. Base(d, Reader, r) = 3 * (r - d - 1)
    BY <1>1, <2>1, Bases
  <2>5. Enqueued(d, at, ph, Reader) = 3 * (r - d - 1) + ph[Reader] + Len(queue[Reader])
    BY <2>4 DEF Enqueued, Executed
  <2> HIDE DEF a, r, n
  <2> QED
    BY <1>1, <1>2, <2>1, <2>3, <2>5
<1>4. req # "wake"
  BY <1>1 DEF Faulty
<1>5. req # "fail"
  <2> SUFFICES ASSUME req = "fail" PROVE FALSE
    OBVIOUS
  <2>1. sync_steps
    <3>1. faults # {}
      BY <1>1 DEF Faulty
    <3> QED
      BY <1>1, <3>1 DEF Shape
  <2>2. reqSeq # 0 /\ mailbox <= 0
    BY <1>1 DEF Served, Reading
  <2>3. reqSeq = d + Launched
    BY <1>1, <2>2 DEF Served
  <2>4. Enqueued(d, at, ph, Reader) \in {3 * (reqSeq - d) - 1, 3 * (reqSeq - d) - 2}
    BY <1>1, <2>2 DEF Reading, Broken
  <2> DEFINE e == Enqueued(d, at, ph, Reader)
             c == Launched
  <2>5. e \in {3 * c - 1, 3 * c - 2} /\ e >= 3 * c /\ c \in Nat
    BY <1>1, <1>2, <1>3, <2>1, <2>3, <2>4
  <2> HIDE DEF e, c
  <2> QED
    BY <2>5
<1> QED
  BY <1>3, <1>4, <1>5

LEMMA LaunchKeeps ==
    ASSUME NEW d \in 0..MaxStep, NEW at, NEW ph, IInv(d, at, ph), Launch
    PROVE  IInv(d, at, ph)'
<1> DEFINE n == step[0]
           ops == <<Record("input_ready")>>
           m == "handoff"
           k == 1
           c == recorded["done0"]
           t == Enqueued(d, at, ph, Tp(0))
<1>1. /\ Shape /\ d \in Nat /\ MaxStep \in Nat /\ n \in Nat /\ n <= MaxStep /\ 0 \in Ranks
      /\ MainAt0(d, n, pc[0], Enqueued(d, at, ph, Main(0))) /\ Transfers(d, n, pc[0], c, t)
      /\ Counted(d, n, pc[0], {"sync", "prepare"}, {"status_failed", "failed"}, Launched)
      /\ Owned(d) /\ Served(d) /\ Requests(d, at, ph) /\ Recorded(d) /\ Reading(d, at, ph) /\ Faulty
      /\ KindedAt(d, n, pc[0])
      /\ step \in [Ranks -> Contents] /\ recorded \in [Events -> Nat] /\ c \in Nat
      /\ pc \in [Ranks -> Labels]
  BY Of0 DEF Launched
<1>2. /\ pc[0] = "prepare" /\ HostFrame
      /\ UNCHANGED <<step, verify, digest, finished, completed, released, enqueued, closed, rqst>>
  BY DEF Launch, HostFrame
<1>3. mailbox = 0
  <2>1. ~(mailbox > 0) /\ mailbox # -1
    BY <1>1, <1>2 DEF Served
  <2>2. mailbox \in Nat \cup {-1}
    BY <1>1 DEF Shape, Contents
  <2> QED
    BY <2>1, <2>2
<1>4. \/ /\ error /\ pc' = [pc EXCEPT ![0] = Raise(n)]
         /\ UNCHANGED <<queue, recorded, active, records, mailbox, error>>
      \/ /\ ~error /\ active' = n /\ records' = records \cup {n}
         /\ recorded' = [recorded EXCEPT !["input_ready"] = @ + 1]
         /\ mailbox' = n /\ queue' = On(Main(0), ops) /\ pc' = [pc EXCEPT ![0] = m]
         /\ UNCHANGED error
  BY <1>3 DEF Launch, Goto
<1>5. CASE /\ error /\ pc' = [pc EXCEPT ![0] = Raise(n)]
           /\ UNCHANGED <<queue, recorded, active, records, mailbox, error>>
  <2> DEFINE l == Raise(n)
  <2>1. faults # {}
    BY <1>1, <1>5 DEF Faulty
  <2>2. /\ l \in {"status_failed", "failed"} /\ Turns(n, l) /\ Erring(l)
        /\ pc' = [pc EXCEPT ![0] = l]
    BY <1>2, <1>5, <2>1 DEF Turns, Erring, Raise
  <2>3. UNCHANGED <<recorded, step, verify, digest, finished, active, records, completed,
                    released, mailbox, enqueued, closed, rqst>>
    BY <1>2, <1>5
  <2> HIDE DEF l
  <2> QED
    BY <1>2, <1>5, <2>2, <2>3, Halts0
<1>6. CASE /\ ~error /\ active' = n /\ records' = records \cup {n}
           /\ recorded' = [recorded EXCEPT !["input_ready"] = @ + 1]
           /\ mailbox' = n /\ queue' = On(Main(0), ops) /\ pc' = [pc EXCEPT ![0] = m]
           /\ UNCHANGED error
  <2>1. n > d /\ n >= 1 /\ n \in Steps /\ n \in Contents
    BY <1>1, <1>2 DEF KindedAt, Steps, Contents
  <2>2. Enqueued(d, at, ph, Main(0)) = Base(d, Main(0), n) + k
    BY <1>1, <1>2 DEF MainAt0, Resting
  <2>3. Base(d, Main(0), n) \in Int /\ Size(d, Main(0), n) = 7
    <3>1. /\ Base(d, Main(0), n) = IF n > d THEN 6 * d + 7 * (n - d - 1) ELSE 6 * (n - 1)
          /\ Size(d, Main(0), n) = IF n > d THEN 7 ELSE 6
      BY <1>1, Bases
    <3> QED
      BY <1>1, <2>1, <3>1
  <2>4. /\ ops \in Seq(Ops) /\ Len(ops) = 1
        /\ \A j \in 1..Len(ops) : ops[j] = Script(d, Main(0), n)[k + j]
    <3>1. ops \in Seq(Ops)
      <4>1. 0 \in 0..MaxStep /\ "input_ready" \in Events
        BY StepAssumption DEF Events
      <4> QED
        BY <2>1, <4>1, Enqueuing
    <3>2. Script(d, Main(0), n) = MainScript0(d, n)
      BY Scripts
    <3>3. MainScript0(d, n)[2] = Record("input_ready")
      BY <2>1 DEF MainScript0
    <3> QED
      BY <3>1, <3>2, <3>3
  <2>5. k \in Nat /\ k + Len(ops) <= Size(d, Main(0), n)
    BY <2>3, <2>4
  <2>6. MainAt0(d, n, m, Base(d, Main(0), n) + k + Len(ops))
    <3>1. Base(d, Main(0), n) + k + Len(ops) = Base(d, Main(0), n) + 2
      BY <2>3, <2>4
    <3>2. MainAt0(d, n, m, Base(d, Main(0), n) + 2)
      BY <2>3 DEF MainAt0, Resting
    <3> QED
      BY <3>1, <3>2
  <2>7. Launched = n - d - 1 /\ Launched' = n - d /\ Launched' = recorded'["input_ready"]
    <3>1. Launched = n - d - 1
      BY <1>1, <1>2, <2>1 DEF Counted
    <3>2. Launched' = Launched + 1
      BY <1>1, <1>6 DEF Launched, Events
    <3> QED
      BY <1>1, <3>1, <3>2 DEF Launched
  <2>8. Counted(d, n, m, {"sync", "prepare"}, {"status_failed", "failed"}, recorded'["input_ready"])
    BY <1>1, <2>1, <2>7 DEF Counted
  <2>9. Transfers(d, n, m, c, t)
    BY <1>1, <1>2, <2>1 DEF Transfers, Counted
  <2>10. KindedAt(d, n, m)
    BY <2>1 DEF KindedAt
  <2>11. pc'[0] = m /\ pc'[1] = pc[1]
    BY <1>1, <1>6 DEF Ranks
  <2>12. Stays(d, 0)
    <3>1. {"prepare", "handoff"} \cap (AfterStatus \cup AfterDrained \cup AfterVerify) = {}
      BY DEF AfterStatus, AfterDrained, AfterVerify, Resting
    <3> QED
      BY <1>2, <2>11, <3>1 DEF Stays
  <2>13. UNCHANGED <<completed, released, enqueued, error, closed, req, reqSeq, rows, faults,
                     sync_steps, finished, step>>
    BY <1>2, <1>6 DEF rqst, HostFrame, workload
  <2>14. Owned(d)'
    <3>1. finished = n - 1
      BY <1>1, <1>2 DEF Owned, Resting
    <3> QED
      BY <1>6, <2>11, <2>13, <3>1 DEF Owned, Resting
  <2>15. /\ reqSeq = (IF Launched = 0 THEN 0 ELSE d + Launched) /\ reqSeq \in Nat
         /\ reqSeq < n
    <3>1. reqSeq = IF Launched = 0 THEN 0 ELSE d + Launched
      BY <1>1, <1>3 DEF Served
    <3> QED
      BY <1>1, <2>1, <2>7, <3>1
  <2>16. n \notin completed
    BY <1>1, <2>1, <2>15 DEF Recorded
  <2>17. Served(d)'
    <3>1. /\ mailbox' = n /\ n > 0 /\ ~(n <= 0) /\ n # -1
          /\ Launched' >= 1 /\ n = d + Launched'
          /\ reqSeq = IF Launched' = 1 THEN 0 ELSE n - 1
      <4> DEFINE a == Launched
                 b == Launched'
      <4>1. /\ mailbox' = n /\ n \in Nat /\ d \in Nat /\ n > d /\ a = n - d - 1 /\ b = n - d
            /\ reqSeq = IF a = 0 THEN 0 ELSE d + a
        BY <1>1, <1>6, <2>1, <2>7, <2>15
      <4> HIDE DEF a, b, n
      <4>2. /\ n > 0 /\ ~(n <= 0) /\ n # -1 /\ b >= 1 /\ n = d + b
            /\ reqSeq = IF b = 1 THEN 0 ELSE n - 1
        BY ONLY <4>1
      <4> QED
        BY <4>1, <4>2 DEF a, b
    <3>2. n \in records' \ completed'
      BY <1>6, <2>13, <2>16
    <3>3. req # "stopped"
      BY <1>1, <1>2 DEF Served
    <3>4. /\ reqSeq = 0 => req \in {"get", "stopped"}
          /\ reqSeq # 0 => reqSeq > d
          /\ req \notin {"get", "wake", "stopped"} => reqSeq \in records' \ completed'
      BY <1>1, <1>6, <2>13 DEF Served
    <3>5. req \notin {"stage", "notify"}
      <4> SUFFICES ASSUME req \in {"stage", "notify"} PROVE FALSE
        OBVIOUS
      <4>1. reqSeq # 0
        BY <3>4
      <4>2. enqueued = IF reqSeq = d + 1 THEN 0 ELSE reqSeq - 1
        BY <1>1 DEF Requests
      <4>3. n > d + 1 => enqueued = n - 1
        BY <1>1, <1>2 DEF Owned
      <4>4. reqSeq = n - 1 /\ n > d + 1
        BY <1>1, <2>1, <2>7, <2>15, <4>1
      <4> HIDE DEF n
      <4> QED
        BY <1>1, <4>1, <4>2, <4>3, <4>4
    <3> HIDE DEF n
    <3> QED
      BY <2>11, <2>13, <3>1, <3>2, <3>3, <3>4, <3>5 DEF Served, n
  <2>18. Recorded(d)'
    <3>1. /\ m \notin AfterVerify /\ m \notin Resting \cup {"result", "failed"} /\ pc[0] \notin AfterVerify
          /\ pc[0] \notin Resting \cup {"result", "failed"}
      BY <1>2 DEF AfterVerify, Resting
    <3>2. /\ (\A j \in completed : j <= d \/ j <= reqSeq)'
          /\ (\A j \in Steps : j > d /\ j < reqSeq => j \in completed)'
      BY <1>1, <2>13 DEF Recorded
    <3>3. (\A j \in Steps : j <= d /\ (j < step[0] \/ (j = step[0] /\ pc[0] \in AfterVerify)) =>
              j \in completed)'
      BY <1>1, <2>11, <2>13, <3>1 DEF Recorded
    <3>4. (\A j \in Steps : j < step[0] \/ (j = step[0] /\ pc[0] \in Resting \cup {"result"}) =>
              j \in released)'
      BY <1>1, <2>11, <2>13, <3>1 DEF Recorded
    <3>5. (\A j \in released : j < step[0] \/ (j = step[0] /\ pc[0] \in Resting \cup {"result", "failed"}))'
      BY <1>1, <2>11, <2>13, <3>1 DEF Recorded
    <3>6. (\A j \in records : j <= step[0] /\ ~(j \in completed /\ j \in released))'
      BY <1>1, <1>6, <2>13, <2>16 DEF Recorded
    <3> QED
      BY <3>2, <3>3, <3>4, <3>5, <3>6 DEF Recorded
  <2>19. req \notin {"fail", "wake"} /\ ~error
    BY <1>2, <1>6, LaunchOf
  <2>20. sync_steps => Enqueued(d, at, ph, Reader) >= 3 * (recorded'["input_ready"] - 1)
    <3>1. sync_steps => Enqueued(d, at, ph, Reader) >= 3 * Launched
      BY <1>2, <1>6, LaunchOf
    <3>2. recorded'["input_ready"] - 1 = Launched
      BY <1>1, <2>7
    <3> QED
      BY <3>1, <3>2
  <2>21. /\ \A e \in Events \ {"input_ready"} : recorded'[e] = recorded[e]
         /\ recorded' \in [Events -> Nat]
    <3>1. /\ recorded["input_ready"] \in Nat /\ "input_ready" \in Events
          /\ recorded \in [Events -> Nat]
          /\ recorded' = [recorded EXCEPT !["input_ready"] = @ + 1]
      BY <1>1, <1>6 DEF Events
    <3> QED
      BY ONLY <3>1
  <2>22. /\ step' \in [Ranks -> Contents] /\ step'[0] = n /\ step'[1] = step[1]
         /\ active' \in Contents /\ records' \subseteq Steps /\ completed' \subseteq Steps
         /\ mailbox' \in Contents \cup {-1} /\ completed \subseteq completed'
    BY <1>1, <1>6, <2>1, <2>13 DEF Shape
  <2>23. /\ UNCHANGED <<verify, digest, finished, released, enqueued, error, closed, rqst>>
         /\ pc[0] \in {"idle", "prepare", "dummy"}
         /\ m \in {"sync", "prepare", "dummy", "handoff", "forward"}
    BY <1>2, <1>6
  <2>25. queue' = On(Main(0), ops) /\ pc' = [pc EXCEPT ![0] = m] /\ HostFrame
    BY <1>2, <1>6
  <2>24. Transfers(d, n, m, recorded["done0"], Enqueued(d, at, ph, Tp(0)))
    BY <2>9
  <2> HIDE DEF n, ops, k, m, c, t
  <2> QED
    BY <2>1, <2>2, <2>4, <2>5, <2>6, <2>8, <2>10, <2>12, <2>14, <2>17, <2>18, <2>19,
       <2>20, <2>21, <2>22, <2>23, <2>24, <2>25, Grows0
<1> QED
  BY <1>4, <1>5, <1>6

LEMMA ReleaseRecordKeeps ==
    ASSUME NEW d \in 0..MaxStep, NEW at, NEW ph, IInv(d, at, ph), ReleaseRecord
    PROVE  IInv(d, at, ph)'
<1> DEFINE n == step[0]
           m == Outcome
           e == Enqueued(d, at, ph, Main(0))
           t == Enqueued(d, at, ph, Tp(0))
           c == recorded["done0"]
<1>1. /\ Shape /\ d \in Nat /\ n \in Nat /\ n <= MaxStep /\ 0 \in Ranks
      /\ MainAt0(d, n, pc[0], e) /\ Transfers(d, n, pc[0], c, t)
      /\ Counted(d, n, pc[0], {"sync", "prepare"}, {"status_failed", "failed"}, Launched)
      /\ Owned(d) /\ Served(d) /\ Recorded(d) /\ Reading(d, at, ph) /\ Faulty
      /\ KindedAt(d, n, pc[0]) /\ pc \in [Ranks -> Labels] /\ digest \in [Ranks -> Contents]
  BY Of0 DEF Launched
<1>2. /\ pc[0] = "released" /\ pc' = [pc EXCEPT ![0] = m] /\ HostFrame
      /\ released' = released \cup {active} /\ records' = Finalized(active, completed, released')
      /\ active' = 0
      /\ UNCHANGED <<queue, recorded, step, verify, digest, finished, completed, mailbox,
                     enqueued, error, closed, rqst>>
  BY DEF ReleaseRecord, Goto, HostFrame, gpu
<1>3. active = n /\ n >= 1 /\ n \in Steps
  BY <1>1, <1>2 DEF Owned, Resting, KindedAt, Steps
<1>4. /\ released' = released \cup {n}
      /\ records' = IF n \in completed THEN records \ {n} ELSE records
  BY <1>2, <1>3 DEF Finalized
<1>5. /\ m \in {"result", "failed"} /\ (m = "failed" <=> error) /\ (error => faults # {})
      /\ error \in BOOLEAN
  BY <1>1 DEF Outcome, Faulty, Shape
<1> HIDE DEF m
<1>6. pc'[0] = m /\ pc'[1] = pc[1] /\ m \in Labels
  BY <1>1, <1>2, <1>5 DEF Ranks, Labels
<1>7. UNCHANGED <<queue, recorded, step, completed, mailbox, enqueued, error, closed, req, reqSeq,
                  rows, faults, sync_steps, kind, finished>>
  BY <1>2 DEF rqst, HostFrame, workload
<1>8. /\ MainAt0(d, n, m, e)
      /\ Counted(d, n, m, {"sync", "prepare"}, {"status_failed", "failed"}, Launched)
      /\ Transfers(d, n, m, c, t) /\ KindedAt(d, n, m)
  <2>1. MainAt0(d, n, m, e)
    <3>1. e = Base(d, Main(0), n + 1)
      BY <1>1, <1>2 DEF MainAt0, Resting
    <3>2. /\ Base(d, Main(0), n) = IF n > d THEN 6 * d + 7 * (n - d - 1) ELSE 6 * (n - 1)
      BY <1>1, Bases
    <3>3. Base(d, Main(0), n + 1) =
            IF n + 1 > d THEN 6 * d + 7 * ((n + 1) - d - 1) ELSE 6 * ((n + 1) - 1)
      BY <1>1, Sizes DEF Base
    <3>4. Base(d, Main(0), n) + 1 <= e /\ e <= Base(d, Main(0), n + 1)
      BY <1>1, <3>1, <3>2, <3>3
    <3> HIDE DEF e
    <3> QED
      BY <1>5, <3>1, <3>4 DEF MainAt0, Resting
  <2>2. Counted(d, n, m, {"sync", "prepare"}, {"status_failed", "failed"}, Launched)
    BY <1>1, <1>2, <1>5 DEF Counted
  <2>3. Transfers(d, n, m, c, t)
    BY <1>1, <1>2, <1>5 DEF Transfers, Counted
  <2>4. KindedAt(d, n, m)
    BY <1>3, <1>5 DEF KindedAt
  <2> QED
    BY <2>1, <2>2, <2>3, <2>4
<1>9. Stays(d, 0) \/ GivesUp
  <2>1. {"released", "result"} \subseteq AfterStatus \cap AfterDrained \cap AfterVerify
    BY DEF AfterStatus, AfterDrained, AfterVerify, Resting
  <2>2. CASE m = "failed"
    BY <1>6, <1>7, <2>2 DEF GivesUp
  <2>3. CASE m = "result"
    BY <1>2, <1>6, <1>7, <2>1, <2>3 DEF Stays
  <2> QED
    BY <1>5, <2>2, <2>3
<1>10. Clean' => Clean
  BY <1>5, <1>6, <1>7 DEF Clean
<1>11. Owned(d)'
  BY <1>1, <1>2, <1>5, <1>6, <1>7 DEF Owned, Resting
<1>12. Served(d)'
  <2>1. ~(mailbox > 0) /\ mailbox # -1 /\ req # "stopped"
    BY <1>1, <1>2 DEF Served
  <2>2. req \notin {"get", "wake", "stopped"} => reqSeq \in records' \ completed
    BY <1>1, <1>4 DEF Served
  <2>3. /\ (mailbox <= 0 => reqSeq = IF Launched = 0 THEN 0 ELSE d + Launched)
        /\ reqSeq = 0 => req \in {"get", "stopped"}
        /\ reqSeq # 0 => reqSeq > d
    BY <1>1 DEF Served
  <2> QED
    BY <1>7, <2>1, <2>2, <2>3 DEF Served, Launched
<1>13. Reading(d, at, ph)'
  <2>1. Enqueued(d, at, ph, Reader)' = Enqueued(d, at, ph, Reader)
    BY <1>7 DEF Enqueued, Executed
  <2>2. pc'[0] \notin {"status", "transport", "drain", "drained"}
    BY <1>5, <1>6
  <2>3. Broken(d, at, ph)' <=> Broken(d, at, ph)
    BY <1>7, <2>1 DEF Broken
  <2> HIDE DEF Broken
  <2> QED
    BY <1>1, <1>7, <2>1, <2>2, <2>3 DEF Reading, Launched
<1>14. Recorded(d)'
  <2>1. pc[0] \in AfterVerify /\ pc[0] \notin Resting \cup {"result", "failed"}
    BY <1>2 DEF AfterVerify, Resting
  <2>2. /\ (\A j \in completed : j <= d \/ j <= reqSeq)'
        /\ (\A j \in Steps : j > d /\ j < reqSeq => j \in completed)'
    BY <1>1, <1>7 DEF Recorded
  <2>3. (\A j \in Steps : j <= d /\ (j < step[0] \/ (j = step[0] /\ pc[0] \in AfterVerify)) =>
            j \in completed)'
    BY <1>1, <1>7, <2>1 DEF Recorded
  <2>4. (\A j \in Steps : j < step[0] \/ (j = step[0] /\ pc[0] \in Resting \cup {"result"}) =>
            j \in released)'
    BY <1>1, <1>4, <1>7 DEF Recorded
  <2>5. (\A j \in released : j < step[0] \/ (j = step[0] /\ pc[0] \in Resting \cup {"result", "failed"}))'
    BY <1>1, <1>4, <1>5, <1>6, <1>7, <2>1 DEF Recorded
  <2>6. (\A j \in records : j <= step[0] /\ ~(j \in completed /\ j \in released))'
    BY <1>1, <1>4, <1>7 DEF Recorded
  <2> QED
    BY <2>2, <2>3, <2>4, <2>5, <2>6 DEF Recorded
<1>15. Faulty'
  <2>1. Idle(Error)' = Idle(Error)
    BY <1>7 DEF Idle
  <2> QED
    BY <1>1, <1>5, <1>6, <1>7, <2>1 DEF Faulty, Ranks
<1>16. ConnectorTyped
  <2>1. 0 \in Contents
    BY StepAssumption DEF Contents
  <2> QED
    BY <1>1, <1>2, <1>3, <1>4, <2>1 DEF Shape, ConnectorTyped
<1>17. /\ UNCHANGED <<queue, recorded, step, verify, completed, enqueued, error, rqst>>
       /\ finished' = finished
       /\ m \notin {"verify", "verifying", "drained"} /\ pc[0] \notin {"transport", "drain", "failed"}
  BY <1>2, <1>5, <1>7
<1>18. /\ MainAt0(d, step[0], m, Enqueued(d, at, ph, Main(0)))
       /\ Counted(d, step[0], m, {"sync", "prepare"}, {"status_failed", "failed"},
                  recorded["input_ready"])
       /\ Transfers(d, step[0], m, recorded["done0"], Enqueued(d, at, ph, Tp(0)))
       /\ KindedAt(d, step[0], m)
  BY <1>8 DEF Launched
<1> HIDE DEF n, e, t, c
<1> QED
  BY <1>2, <1>6, <1>9, <1>10, <1>11, <1>12, <1>13, <1>14, <1>15, <1>16, <1>17, <1>18, Goes0

\* Rank 0 at rest, or coming to rest.
LEMMA Rests0 ==
    ASSUME NEW d \in 0..MaxStep, NEW at, NEW ph, IInv(d, at, ph), HostFrame,
           UNCHANGED <<queue, recorded, step, verify, digest, active, records, completed, released,
                       enqueued, error, rqst>>,
           NEW m \in Resting, pc' = [pc EXCEPT ![0] = m],
           \/ pc[0] = "result" /\ finished' = step[0] /\ Finish(d, at, finished')
           \/ pc[0] \in Resting /\ finished' = finished,
           \/ mailbox' = mailbox
           \/ mailbox = 0 /\ mailbox' = -1,
           mailbox' = -1 \/ req = "stopped" => m \in {"closing", "closed"},
           closed' \in BOOLEAN, m = "idle" \/ step[0] >= 1
    PROVE  IInv(d, at, ph)'
<1> DEFINE n == step[0]
           e == Enqueued(d, at, ph, Main(0))
           t == Enqueued(d, at, ph, Tp(0))
           c == recorded["done0"]
<1>1. /\ Shape /\ d \in Nat /\ n \in Nat /\ n <= MaxStep /\ 0 \in Ranks
      /\ MainAt0(d, n, pc[0], e) /\ Transfers(d, n, pc[0], c, t)
      /\ Counted(d, n, pc[0], {"sync", "prepare"}, {"status_failed", "failed"}, Launched)
      /\ Owned(d) /\ Served(d) /\ Recorded(d) /\ Reading(d, at, ph) /\ Faulty
      /\ KindedAt(d, n, pc[0]) /\ pc \in [Ranks -> Labels] /\ digest \in [Ranks -> Contents]
      /\ step \in [Ranks -> Contents]
  BY Of0 DEF Launched
<1>2. pc[0] \in Resting \cup {"result"}
  OBVIOUS
<1>3. /\ pc'[0] = m /\ pc'[1] = pc[1] /\ m \in Labels
  BY <1>1 DEF Ranks, Labels, Resting
<1>4. UNCHANGED <<queue, recorded, step, active, records, completed, released, enqueued, error, req,
                  reqSeq, rows, faults, sync_steps, kind>>
  BY DEF rqst, HostFrame, workload
<1>5. Base(d, Main(0), n + 1) \in Int
  <2>1. Base(d, Main(0), n + 1) =
            IF n + 1 > d THEN 6 * d + 7 * ((n + 1) - d - 1) ELSE 6 * ((n + 1) - 1)
    BY <1>1, Sizes DEF Base
  <2> QED
    BY <1>1, <2>1
<1>6. MainAt0(d, n, m, e)
  <2>1. e = Base(d, Main(0), n + 1)
    BY <1>1, <1>2 DEF MainAt0, Resting
  <2> HIDE DEF e
  <2> QED
    BY <1>5, <2>1 DEF MainAt0, Resting
<1>7. Counted(d, n, m, {"sync", "prepare"}, {"status_failed", "failed"}, Launched)
  BY <1>1, <1>2 DEF Counted, Resting
<1>8. Transfers(d, n, m, c, t)
  BY <1>1, <1>2 DEF Transfers, Counted, Resting
<1>9. KindedAt(d, n, m)
  BY <1>1 DEF KindedAt, Resting
<1>10. Stays(d, 0)
  <2>1. Resting \cup {"result"} \subseteq AfterStatus \cap AfterDrained \cap AfterVerify
    BY DEF AfterStatus, AfterDrained, AfterVerify, Resting
  <2> QED
    BY <1>2, <1>3, <1>4, <2>1 DEF Stays
<1>11. Clean' => Clean
  BY <1>3, <1>4 DEF Clean, Resting
<1>12. finished' = n
  BY <1>1 DEF Owned
<1>13. Owned(d)'
  BY <1>1, <1>2, <1>3, <1>4, <1>12 DEF Owned, Resting
<1>14. mailbox <= 0 /\ mailbox' <= 0 /\ (mailbox' = -1 => m \in {"closing", "closed"})
       /\ (req = "stopped" => m \in {"closing", "closed"}) /\ mailbox' \in Contents \cup {-1} /\ ~(mailbox' > 0)
  <2>1. mailbox \in Nat \cup {-1} /\ 0 \in Contents /\ mailbox \in Contents \cup {-1}
    BY <1>1, StepAssumption DEF Shape, Contents
  <2>2. ~(mailbox > 0)
    BY <1>1, <1>2 DEF Served, Resting
  <2> QED
    BY <2>1, <2>2
<1>15. Served(d)'
  <2>1. /\ (mailbox <= 0 => reqSeq = IF Launched = 0 THEN 0 ELSE d + Launched)
        /\ reqSeq = 0 => req \in {"get", "stopped"}
        /\ reqSeq # 0 => reqSeq > d
        /\ req \notin {"get", "wake", "stopped"} => reqSeq \in records \ completed
    BY <1>1 DEF Served
  <2>2. ~(mailbox' > 0)
    BY <1>14
  <2> QED
    BY <1>3, <1>4, <1>14, <2>1, <2>2 DEF Served, Launched
<1>16. Reading(d, at, ph)'
  <2>1. Enqueued(d, at, ph, Reader)' = Enqueued(d, at, ph, Reader)
    BY <1>4 DEF Enqueued, Executed
  <2>2. pc'[0] \notin {"status", "transport", "drain", "drained"}
    BY <1>3 DEF Resting
  <2>3. Broken(d, at, ph)' <=> Broken(d, at, ph)
    BY <1>4, <2>1 DEF Broken
  <2> HIDE DEF Broken
  <2> QED
    BY <1>1, <1>4, <1>14, <2>1, <2>2, <2>3 DEF Reading, Launched
<1>17. Recorded(d)'
  <2>1. pc[0] \in AfterVerify /\ pc'[0] \in Resting
    BY <1>2, <1>3 DEF AfterVerify
  <2>2. /\ (\A j \in completed : j <= d \/ j <= reqSeq)'
        /\ (\A j \in Steps : j > d /\ j < reqSeq => j \in completed)'
    BY <1>1, <1>4 DEF Recorded
  <2>3. (\A j \in Steps : j <= d /\ (j < step[0] \/ (j = step[0] /\ pc[0] \in AfterVerify)) =>
            j \in completed)'
    BY <1>1, <1>4, <2>1 DEF Recorded
  <2>4. (\A j \in Steps : j < step[0] \/ (j = step[0] /\ pc[0] \in Resting \cup {"result"}) =>
            j \in released)'
    BY <1>1, <1>2, <1>4 DEF Recorded
  <2>5. (\A j \in released : j < step[0] \/ (j = step[0] /\ pc[0] \in Resting \cup {"result", "failed"}))'
    BY <1>1, <1>4, <2>1 DEF Recorded
  <2>6. (\A j \in records : j <= step[0] /\ ~(j \in completed /\ j \in released))'
    BY <1>1, <1>4 DEF Recorded
  <2> QED
    BY <2>2, <2>3, <2>4, <2>5, <2>6 DEF Recorded
<1>18. Faulty'
  <2>1. Idle(Error)' = Idle(Error) /\ pc'[0] \notin {"result", "failed", "status_failed"}
    BY <1>3, <1>4 DEF Idle, Resting
  <2> QED
    BY <1>1, <1>3, <1>4, <2>1 DEF Faulty, Ranks
<1>19. ConnectorTyped
  BY <1>1, <1>4, <1>12, <1>14 DEF Shape, Ranks, ConnectorTyped
<1>20. /\ m \notin {"verify", "verifying", "drained"}
       /\ pc[0] \notin {"transport", "drain", "failed"}
       /\ (finished' = finished \/ Finish(d, at, finished'))
  BY <1>2 DEF Resting
<1>21. /\ MainAt0(d, step[0], m, Enqueued(d, at, ph, Main(0)))
       /\ Counted(d, step[0], m, {"sync", "prepare"}, {"status_failed", "failed"},
                  recorded["input_ready"])
       /\ Transfers(d, step[0], m, recorded["done0"], Enqueued(d, at, ph, Tp(0)))
       /\ KindedAt(d, step[0], m)
  BY <1>6, <1>7, <1>8, <1>9 DEF Launched
<1> HIDE DEF n, e, t, c
<1> QED
  BY <1>3, <1>10, <1>11, <1>13, <1>14, <1>15, <1>16, <1>17, <1>18, <1>19, <1>20, <1>21, Goes0

LEMMA ResultKeeps ==
    ASSUME NEW d \in 0..MaxStep, NEW at, NEW ph, IInv(d, at, ph), Result
    PROVE  IInv(d, at, ph)'
<1> DEFINE n == step[0]
           e == Enqueued(d, at, ph, Main(0))
           m == "idle"
<1>1. /\ Shape /\ Cursors(d, at, ph) /\ Device0(d, at, ph) /\ d \in Nat /\ n \in Nat
      /\ Main(0) \in Scripted /\ MainAt0(d, n, pc[0], e) /\ Served(d) /\ Owned(d) /\ n <= MaxStep
  BY Of0
<1>2. /\ pc[0] = "result" /\ (sync_steps => Idle(Main(0))) /\ finished' = n
      /\ pc' = [pc EXCEPT ![0] = m] /\ m \in Resting /\ HostFrame
      /\ UNCHANGED <<queue, recorded, step, verify, digest, active, records, completed, released,
                     mailbox, enqueued, error, closed, rqst>>
  BY DEF Result, Goto, HostFrame, gpu, conn, Resting
<1>3. Finish(d, at, n)
  <2> SUFFICES ASSUME sync_steps, NEW j \in 1..n
               PROVE  j < at[Main(0)] /\ got[0][j] = Val(d, j)
    BY DEF Finish
  <2>1. e = Base(d, Main(0), n + 1) + 0
    <3>1. e = Base(d, Main(0), n + 1)
      BY <1>1, <1>2 DEF MainAt0
    <3>2. Base(d, Main(0), n + 1) =
            IF n + 1 > d THEN 6 * d + 7 * ((n + 1) - d - 1) ELSE 6 * ((n + 1) - 1)
      BY <1>1, Sizes DEF Base
    <3> HIDE DEF e
    <3> QED
      BY <1>1, <3>1, <3>2
  <2>2. 0 < Size(d, Main(0), n + 1)
    <3>1. Size(d, Main(0), n + 1) = IF n + 1 > d THEN 7 ELSE 6
      BY <1>1, Sizes DEF Size
    <3> QED
      BY <3>1
  <2>3. n + 1 \in Nat \ {0} /\ 0 \in Nat /\ Idle(Main(0))
    BY <1>1, <1>2
  <2> DEFINE o == n + 1
  <2> HIDE DEF n
  <2>4. o \in Nat \ {0} /\ e = Base(d, Main(0), o) + 0 /\ 0 < Size(d, Main(0), o)
    BY <2>1, <2>2, <2>3
  <2> HIDE DEF o
  <2>5. at[Main(0)] = o
    BY <1>1, <2>3, <2>4, IdleIn
  <2>6. at[Main(0)] = n + 1
    BY <2>5 DEF o
  <2>7. Clean
    BY <1>2 DEF Clean
  <2>8. Consumption(d, got[0], at[Main(0)], Consumed0(ph[Main(0)]))
    BY <1>1, <2>7 DEF Device0
  <2>9. j \in Steps /\ j < n + 1
    BY <1>1, StepAssumption DEF Steps
  <2> QED
    BY <2>6, <2>8, <2>9 DEF Consumption
<1>4. /\ mailbox' = mailbox /\ mailbox' # -1 /\ req # "stopped" /\ closed' \in BOOLEAN
  BY <1>1, <1>2 DEF Served, Shape
<1>5. m = "idle"
  OBVIOUS
<1>6. Finish(d, at, finished') /\ finished' = step[0]
  BY <1>2, <1>3
<1> HIDE DEF m, n, e
<1> QED
  BY <1>2, <1>4, <1>5, <1>6, Rests0

LEMMA CloseKeeps ==
    ASSUME NEW d \in 0..MaxStep, NEW at, NEW ph, IInv(d, at, ph), Close
    PROVE  IInv(d, at, ph)'
<1> DEFINE m == "closing"
<1>1. /\ pc[0] = "idle" /\ step[0] = MaxStep /\ mailbox = 0 /\ mailbox' = -1 /\ closed' = TRUE
      /\ pc' = [pc EXCEPT ![0] = m] /\ m \in Resting /\ m \in {"closing", "closed"} /\ HostFrame
      /\ UNCHANGED <<queue, recorded, step, verify, digest, finished, active, records, completed,
                     released, enqueued, error, rqst>>
  BY DEF Close, Goto, HostFrame, gpu, Resting
<1>2. pc[0] \in Resting /\ finished' = finished /\ closed' \in BOOLEAN /\ step[0] >= 1
  BY <1>1, StepAssumption DEF Resting
<1> HIDE DEF m
<1> QED
  BY <1>1, <1>2, Rests0

LEMMA JoinKeeps ==
    ASSUME NEW d \in 0..MaxStep, NEW at, NEW ph, IInv(d, at, ph), Join
    PROVE  IInv(d, at, ph)'
<1> DEFINE m == "closed"
<1>1. /\ pc[0] = "closing" /\ pc' = [pc EXCEPT ![0] = m] /\ m \in Resting
      /\ m \in {"closing", "closed"} /\ HostFrame
      /\ UNCHANGED <<queue, recorded, step, verify, digest, finished, active, records, completed,
                     released, mailbox, enqueued, error, closed, rqst>>
  BY DEF Join, Goto, HostFrame, gpu, conn, Resting
<1>2. Shape /\ KindedAt(d, step[0], pc[0])
  BY Of0
<1>3. /\ pc[0] \in Resting /\ finished' = finished /\ closed' \in BOOLEAN /\ step[0] >= 1
      /\ mailbox' = mailbox
  BY <1>1, <1>2 DEF Resting, Shape, KindedAt
<1> HIDE DEF m
<1> QED
  BY <1>1, <1>3, Rests0

\* Every step of the model thread of rank 0 keeps the invariant.
LEMMA Host0Keeps ==
    ASSUME NEW d \in 0..MaxStep, NEW at, NEW ph, IInv(d, at, ph), Host(0)
    PROVE  IInv(d, at, ph)'
<1>1. \/ Begin(0) \/ SyncMain(0) \/ Transfer(0) \/ Drain(0) \/ Verify(0)
      \/ SignalDummy(0) \/ Forward(0) \/ Release(0) \/ Owner
  BY DEF Host
<1>2. CASE Owner
  <2>1. \/ Launch \/ Handoff \/ Ready \/ ReleaseRecord \/ Result \/ Close \/ Join
    BY <1>2 DEF Owner
  <2> QED
    BY <2>1, LaunchKeeps, HandoffKeeps, ReadyKeeps, ReleaseRecordKeeps, ResultKeeps, CloseKeeps,
       JoinKeeps
<1> QED
  BY <1>1, <1>2, Begin0Keeps, SyncMain0Keeps, Transfer0Keeps, Drain0Keeps, Verify0Keeps,
     SignalDummy0Keeps, Forward0Keeps, Release0Keeps

-----------------------------------------------------------------------------
(* The rendezvous.                                                         *)

\* Two ranks that have not been through the rendezvous that leads to the labels, and
\* go through it together, are in the same step.
LEMMA SameStep ==
    ASSUME NEW labels, step[0] \in Steps, step[1] \in Steps, pc[0] \notin labels, pc[1] \notin labels,
           Together(step[0], labels), Together(step[1], labels)
    PROVE  step[0] = step[1]
BY DEF Together, Past, Steps

LEMMA MeetingThreads ==
    ASSUME NEW d \in 0..MaxStep, NEW at, NEW ph, IInv(d, at, ph), HostFrame,
           UNCHANGED <<queue, recorded, step, finished, conn, rqst>>, NEW m,
           Meeting(step[0], m), pc'[0] = m, pc'[1] = m,
           Serialize /\ m = "failed" => faults # {}
    PROVE  Threads(d, at, ph)' /\ (Clean' => Clean)
<1>1. /\ Shape /\ d \in Nat /\ step[0] \in Nat /\ Owned(d) /\ Served(d) /\ Requests(d, at, ph)
      /\ Reading(d, at, ph) /\ Recorded(d) /\ Faulty /\ KindedAt(d, step[0], pc[0])
  BY Of0
<1>2. /\ pc[0] \in {"status", "status_failed", "drained", "verifying"}
      /\ m \in {"transport", "verify", "forward", "failed"}
      /\ pc[0] = "status_failed" => m = "failed"
      /\ m = "transport" => pc[0] = "status" /\ Serial(step[0])
  BY DEF Meeting
<1>3. step[0] > d
  BY <1>1, <1>2 DEF KindedAt
<1>4. /\ UNCHANGED <<active, records, completed, released, mailbox, enqueued, error, closed,
                     req, reqSeq, rows, faults, sync_steps, kind, step, recorded, finished>>
      /\ Idle(Error)' = Idle(Error) /\ Idle(Reader)' = Idle(Reader)
      /\ \A s : Enqueued(d, at, ph, s)' = Enqueued(d, at, ph, s)
  BY DEF conn, rqst, HostFrame, workload, Idle, Enqueued, Executed
<1>5. Owned(d)'
  BY <1>1, <1>2, <1>4 DEF Owned, Resting
<1>6. Served(d)'
  BY <1>1, <1>2, <1>4 DEF Served, Launched
<1>7. Requests(d, at, ph)'
  BY <1>1, <1>4 DEF Requests
<1>8. Reading(d, at, ph)'
  <2>1. (pc[0] \in {"status", "transport", "drain", "drained"} /\ Serial(step[0]) =>
          step[0] \in completed /\ req = "get" /\ mailbox = 0 /\ Idle(Reader))'
    BY <1>1, <1>2, <1>4 DEF Reading
  <2>2. Broken(d, at, ph)' <=> Broken(d, at, ph)
    BY <1>4 DEF Broken
  <2> HIDE DEF Broken
  <2> QED
    BY <1>1, <1>4, <2>1, <2>2 DEF Reading, Launched
<1>9. Recorded(d)'
  <2>1. pc[0] \notin Resting \cup {"result", "failed"} /\ pc'[0] \notin Resting \cup {"result"}
    BY <1>2 DEF Resting
  <2>2. /\ (\A j \in completed : j <= d \/ j <= reqSeq)'
        /\ (\A j \in Steps : j > d /\ j < reqSeq => j \in completed)'
    BY <1>1, <1>4 DEF Recorded
  <2>3. (\A j \in Steps : j <= d /\ (j < step[0] \/ (j = step[0] /\ pc[0] \in AfterVerify)) =>
            j \in completed)'
    BY <1>1, <1>3, <1>4 DEF Recorded
  <2>4. (\A j \in Steps : j < step[0] \/ (j = step[0] /\ pc[0] \in Resting \cup {"result"}) =>
            j \in released)'
    BY <1>1, <1>4, <2>1 DEF Recorded
  <2>5. (\A j \in released : j < step[0] \/ (j = step[0] /\ pc[0] \in Resting \cup {"result", "failed"}))'
    BY <1>1, <1>4, <2>1 DEF Recorded
  <2>6. (\A j \in records : j <= step[0] /\ ~(j \in completed /\ j \in released))'
    BY <1>1, <1>4 DEF Recorded
  <2> QED
    BY <2>2, <2>3, <2>4, <2>5, <2>6 DEF Recorded
<1>10. Faulty'
  BY <1>1, <1>2, <1>4 DEF Faulty, Ranks
<1>11. Clean' => Clean
  BY <1>2, <1>4 DEF Clean
<1> QED
  BY <1>5, <1>6, <1>7, <1>8, <1>9, <1>10, <1>11 DEF Threads

LEMMA MeetingRanked ==
    ASSUME NEW d \in 0..MaxStep, NEW at, NEW ph, IInv(d, at, ph), HostFrame,
           UNCHANGED <<recorded, step, digest>>, NEW m, step[0] = step[1],
           Meeting(step[0], m), pc'[0] = m, pc'[1] = m,
           verify'[0] = verify'[1], m = "verify" => verify'[0] > 0
    PROVE  Ranked(d, at, ph)'
<1> DEFINE n == step[0]
<1>1. /\ Shape /\ Ranked(d, at, ph) /\ \A j : Serial(j)' <=> Serial(j)
  BY DEF IInv, HostFrame, workload, Serial
<1>2. Ranks = {0, 1} /\ n \in Nat /\ d \in Nat /\ step'[0] = n /\ step'[1] = n /\ step[1] = n
  BY Of0 DEF Ranks
<1>3. /\ m \in {"transport", "verify", "forward", "failed"}
      /\ m = "transport" => pc[1] = "status"
      /\ m = "verify" => pc[0] = "drained" /\ pc[1] = "drained"
      /\ m = "forward" => \/ pc[0] = "drained" /\ pc[1] = "drained"
                          \/ pc[0] = "verifying" /\ pc[1] = "verifying"
      /\ m = "failed" => pc[1] = "status" \/ pc[1] = "verifying"
      /\ pc[1] \in {"status", "drained", "verifying"}
      /\ pc[1] = "verifying" => pc[0] = "verifying"
  BY DEF Meeting
<1>4. \A r \in Ranks : pc[r] = "drained" => at[Tp(r)] > n
  BY <1>1, <1>2 DEF Ranked
<1>5. \A j \in Steps : Serial(j) =>
          /\ \A r, t \in Ranks : Past(r, j, AfterDrained) => at[Tp(t)] > j
          /\ Past(1, j, AfterStatus) /\ ~BroadcastDone(at, ph, j) =>
                step[0] = j /\ pc[0] \in {"transport", "drain"}
  BY <1>1 DEF Ranked
<1>6. \A r \in Ranks : \A j \in Steps : \A labels :
          Past(r, j, labels)' <=> n > j \/ (n = j /\ m \in labels)
  BY <1>2 DEF Past
<1>7. (pc[0] # "failed" /\ pc[1] # "failed" =>
          /\ \A j \in Steps : Serial(j) => Together(j, AfterStatus) /\ Together(j, AfterDrained)
          /\ verify[0] > 0 => \A j \in Steps : j > d => Together(j, AfterVerify))'
  <2>1. \A j \in Steps : /\ Together(j, AfterStatus)' /\ Together(j, AfterDrained)'
                         /\ Together(j, AfterVerify)'
    BY <1>2 DEF Together, Past
  <2> QED
    BY <2>1
<1>8. ASSUME NEW j \in Steps, Serial(j)', NEW r \in Ranks, NEW t \in Ranks, Past(r, j, AfterDrained)'
      PROVE  at[Tp(t)] > j
  <2>1. Serial(j) /\ (n > j \/ (n = j /\ m \in AfterDrained))
    BY <1>1, <1>6, <1>8
  <2>2. CASE n > j
    <3>1. Past(0, j, AfterDrained)
      BY <2>2 DEF Past
    <3> QED
      BY <1>2, <1>5, <2>1, <3>1
  <2>3. CASE n = j /\ m \in AfterDrained
    <3>1. "transport" \notin AfterDrained /\ "failed" \notin AfterDrained /\ "verifying" \in AfterDrained
      BY DEF AfterDrained, AfterVerify, Resting
    <3>2. CASE pc[0] = "drained" /\ pc[1] = "drained"
      BY <1>2, <1>4, <2>3, <3>2
    <3>3. CASE pc[0] = "verifying" /\ pc[1] = "verifying"
      <4>1. Past(0, j, AfterDrained)
        BY <2>3, <3>1, <3>3 DEF Past
      <4> QED
        BY <1>2, <1>5, <2>1, <4>1
    <3> QED
      BY <1>3, <2>3, <3>1, <3>2, <3>3
  <2> QED
    BY <2>1, <2>2, <2>3
<1>9. ASSUME NEW j \in Steps, Serial(j)', Past(1, j, AfterStatus)', ~BroadcastDone(at, ph, j)
      PROVE  n = j /\ m \in {"transport", "drain"}
  <2>1. Serial(j) /\ (n > j \/ (n = j /\ m \in AfterStatus)) /\ j \in Nat
    BY <1>1, <1>2, <1>6, <1>9 DEF Steps
  <2>2. ~(n > j)
    <3> SUFFICES ASSUME n > j PROVE FALSE
      OBVIOUS
    <3>1. Past(1, j, AfterStatus)
      BY <1>2 DEF Past
    <3> QED
      BY <1>2, <1>5, <1>9, <2>1, <3>1
  <2>3. "failed" \notin AfterStatus /\ "verifying" \in AfterStatus
    BY DEF AfterStatus, AfterDrained, AfterVerify, Resting
  <2>4. ASSUME pc[0] = "drained" /\ pc[1] = "drained" PROVE FALSE
    <3>1. at[Tp(1)] > j
      BY <1>2, <1>4, <2>1, <2>2, <2>4
    <3> QED
      BY <1>9, <3>1 DEF BroadcastDone
  <2>5. ASSUME pc[0] = "verifying" /\ pc[1] = "verifying" PROVE FALSE
    <3>1. Past(1, j, AfterStatus)
      BY <1>2, <2>1, <2>2, <2>3, <2>5 DEF Past
    <3> QED
      BY <1>5, <1>9, <2>1, <2>5, <3>1
  <2> QED
    BY <1>3, <2>1, <2>2, <2>3, <2>4, <2>5
<1>10. (pc[1] = "failed" /\ Serial(step[1]) =>
            recorded["done1"] + d < step[1] \/ at[Tp(1)] > step[1])'
  <2> SUFFICES ASSUME m = "failed", Serial(n)
               PROVE  recorded["done1"] + d < n \/ at[Tp(1)] > n
    BY <1>1, <1>2
  <2>1. /\ Transfers(d, step[1], pc[1], recorded["done1"], Enqueued(d, at, ph, Tp(1)))
        /\ KindedAt(d, step[1], pc[1]) /\ recorded["done1"] \in Nat
    BY Of1
  <2>2. CASE pc[1] = "status"
    <3>1. n > d
      BY <1>2, <2>1, <2>2 DEF KindedAt
    <3>2. recorded["done1"] = n - d - 1
      BY <1>2, <2>1, <2>2, <3>1 DEF Transfers, Counted
    <3> HIDE DEF n
    <3> QED
      BY <1>2, <2>1, <3>2
  <2>3. CASE pc[1] = "verifying"
    <3>1. n \in Steps
      BY <1>2, <2>1, <2>3, Of0 DEF KindedAt, Steps
    <3>2. Past(1, n, AfterDrained)
      BY <1>2, <2>3 DEF Past, AfterDrained
    <3> QED
      BY <1>2, <1>5, <3>1, <3>2
  <2> QED
    BY <1>3, <2>2, <2>3
<1>11. (step[1] > d /\ (pc[1] # "sync" \/ step[1] > d + 1) => (Serialize => at[Main(1)] > d))'
  BY <1>1, <1>2, <1>3 DEF Ranked
<1>12. /\ (\A r \in Ranks : pc[r] \in {"verify", "verifying"} => verify[r] > 0)'
       /\ (\A r \in Ranks : pc[r] = "drained" => at[Tp(r)] > step[r])'
       /\ (Clean /\ Serialize => \A r \in Ranks : pc[r] = "verifying" => digest[r] = step[r])'
  BY <1>2, <1>3
<1>13. (\A j \in Steps : Serial(j) =>
          /\ \A r, t \in Ranks : Past(r, j, AfterDrained) => at[Tp(t)] > j
          /\ Past(1, j, AfterStatus) /\ ~BroadcastDone(at, ph, j) =>
                step[0] = j /\ pc[0] \in {"transport", "drain"})'
  <2>1. \A j : BroadcastDone(at, ph, j)' <=> BroadcastDone(at, ph, j)
    BY DEF BroadcastDone
  <2> QED
    BY <1>2, <1>8, <1>9, <2>1
<1> QED
  BY <1>7, <1>10, <1>11, <1>12, <1>13 DEF Ranked

LEMMA MeetingKeeps ==
    ASSUME NEW d \in 0..MaxStep, NEW at, NEW ph, IInv(d, at, ph), HostFrame,
           UNCHANGED <<queue, recorded, step, digest, finished, conn, rqst>>, NEW m,
           step[0] = step[1], Meeting(step[0], m), pc' = [r \in Ranks |-> m],
           verify' \in [Ranks -> 0..VerifySteps],
           verify'[0] = verify'[1], m = "verify" => verify'[0] > 0,
           Serialize /\ m = "failed" => faults # {}
    PROVE  IInv(d, at, ph)'
<1> DEFINE n == step[0]
<1>1. /\ Shape /\ Queues(d, at, ph) /\ d \in Nat /\ n \in Nat /\ n <= MaxStep
      /\ MainAt0(d, n, pc[0], Enqueued(d, at, ph, Main(0)))
      /\ Counted(d, n, pc[0], {"sync", "prepare"}, {"status_failed", "failed"},
                 recorded["input_ready"])
      /\ Transfers(d, n, pc[0], recorded["done0"], Enqueued(d, at, ph, Tp(0)))
      /\ KindedAt(d, n, pc[0])
  BY Of0
<1>2. /\ MainAt1(d, n, pc[1], Enqueued(d, at, ph, Main(1)))
      /\ Transfers(d, n, pc[1], recorded["done1"], Enqueued(d, at, ph, Tp(1)))
      /\ KindedAt(d, n, pc[1])
  BY Of1
<1>3. /\ pc[0] \in {"status", "status_failed", "drained", "verifying"}
      /\ pc[1] \in {"status", "drained", "verifying"}
      /\ m \in {"transport", "verify", "forward", "failed"}
      /\ pc[0] = "status_failed" => m = "failed"
      /\ m = "transport" => pc[0] = "status" /\ pc[1] = "status"
      /\ m \in {"verify", "forward"} => pc[0] \in {"drained", "verifying"}
                                        /\ pc[1] \in {"drained", "verifying"}
  BY DEF Meeting
<1>4. pc'[0] = m /\ pc'[1] = m /\ m \in Labels /\ m \in Labels1
  BY <1>3 DEF Ranks, Labels, Labels1
<1>5. n > d /\ n >= 1
  BY <1>1, <1>3 DEF KindedAt
<1>6. Shape'
  BY <1>1, <1>4 DEF Shape, HostFrame, workload, conn, rqst
<1>7. /\ Queues(d, at, ph)' /\ Grown
      /\ \A s : Enqueued(d, at, ph, s)' = Enqueued(d, at, ph, s)
  BY <1>1, Same
<1>8. Mains(d, at, ph)'
  <2>1. /\ Base(d, Main(0), n) = 6 * d + 7 * (n - d - 1)
        /\ Base(d, Main(1), n) = 5 * d + 4 * (n - d - 1)
    BY <1>1, <1>5, Bases
  <2>2. /\ Base(d, Main(0), n + 1) = 6 * d + 7 * ((n + 1) - d - 1)
        /\ Base(d, Main(1), n + 1) = 5 * d + 4 * ((n + 1) - d - 1)
    BY <1>1, <1>5, Sizes DEF Base
  <2>3. MainAt0(d, n, m, Enqueued(d, at, ph, Main(0)))
    BY <1>1, <1>3, <1>5, <2>1, <2>2 DEF MainAt0, Resting
  <2>4. MainAt1(d, n, m, Enqueued(d, at, ph, Main(1)))
    BY <1>1, <1>2, <1>3, <1>5, <2>1, <2>2 DEF MainAt1
  <2>5. /\ Enqueued(d, at, ph, Main(0))' = Enqueued(d, at, ph, Main(0))
        /\ Enqueued(d, at, ph, Main(1))' = Enqueued(d, at, ph, Main(1))
        /\ step'[0] = n /\ step'[1] = n
    BY <1>7
  <2> HIDE DEF n
  <2>6. (MainAt0(d, step[0], pc[0], Enqueued(d, at, ph, Main(0))))'
    BY <1>4, <2>3, <2>5
  <2>7. (MainAt1(d, step[1], pc[1], Enqueued(d, at, ph, Main(1))))'
    BY <1>4, <2>4, <2>5
  <2> QED
    BY <2>6, <2>7 DEF Mains
<1>9. Counts(d, at, ph)'
  <2>1. /\ Counted(d, n, m, {"sync", "prepare"}, {"status_failed", "failed"},
                   recorded["input_ready"])
        /\ Transfers(d, n, m, recorded["done0"], Enqueued(d, at, ph, Tp(0)))
        /\ Transfers(d, n, m, recorded["done1"], Enqueued(d, at, ph, Tp(1)))
    BY <1>1, <1>2, <1>3, <1>5 DEF Counted, Transfers
  <2>2. /\ Enqueued(d, at, ph, Tp(0))' = Enqueued(d, at, ph, Tp(0))
        /\ Enqueued(d, at, ph, Tp(1))' = Enqueued(d, at, ph, Tp(1))
        /\ step'[0] = n /\ step'[1] = n
    BY <1>7
  <2> HIDE DEF n
  <2>3. /\ (Counted(d, step[0], pc[0], {"sync", "prepare"}, {"status_failed", "failed"},
                   recorded["input_ready"]))'
        /\ (Transfers(d, step[0], pc[0], recorded["done0"], Enqueued(d, at, ph, Tp(0))))'
        /\ (Transfers(d, step[1], pc[1], recorded["done1"], Enqueued(d, at, ph, Tp(1))))'
    BY <1>4, <2>1, <2>2
  <2> QED
    BY <2>3 DEF Counts, Ranks, Done
<1>10. Kinded(d)'
  BY <1>3, <1>4, <1>5 DEF Kinded, KindedAt, Ranks
<1>11. Ranked(d, at, ph)'
  BY <1>4, MeetingRanked
<1>12. Threads(d, at, ph)' /\ (Clean' => Clean)
  BY <1>4, MeetingThreads
<1> QED
  BY <1>6, <1>7, <1>8, <1>9, <1>10, <1>11, <1>12, HostStep

LEMMA MeetingOf ==
    ASSUME NEW d \in 0..MaxStep, NEW at, NEW ph, IInv(d, at, ph)
    PROVE  /\ Shape /\ Faulty /\ Ranked(d, at, ph) /\ verify[0] = verify[1]
           /\ pc[0] # "failed" /\ pc[1] # "failed" =>
                /\ \A n \in Steps : Serial(n) => Together(n, AfterStatus) /\ Together(n, AfterDrained)
                /\ verify[0] > 0 => \A n \in Steps : n > d => Together(n, AfterVerify)
           /\ pc[0] \in {"verify", "verifying"} => verify[0] > 0
           /\ KindedAt(d, step[0], pc[0]) /\ KindedAt(d, step[1], pc[1])
           /\ pc[0] # "idle" => step[0] \in Steps
           /\ pc[1] # "idle" => step[1] \in Steps
           /\ verify \in [Ranks -> 0..VerifySteps] /\ VerifySteps \in Nat
<1>1. /\ Shape /\ Faulty /\ KindedAt(d, step[0], pc[0]) /\ step[0] \in Nat /\ step[0] <= MaxStep
      /\ 0 \in Ranks /\ MaxStep \in Nat
  BY Of0
<1>2. KindedAt(d, step[1], pc[1]) /\ step[1] \in Nat /\ step[1] <= MaxStep
  BY Of1
<1>3. Ranked(d, at, ph)
  BY DEF IInv
<1>4. /\ verify[0] = verify[1]
      /\ pc[0] # "failed" /\ pc[1] # "failed" =>
           /\ \A n \in Steps : Serial(n) => Together(n, AfterStatus) /\ Together(n, AfterDrained)
           /\ verify[0] > 0 => \A n \in Steps : n > d => Together(n, AfterVerify)
      /\ pc[0] \in {"verify", "verifying"} => verify[0] > 0
  BY <1>1, <1>3 DEF Ranked
<1>5. /\ pc[0] # "idle" => step[0] \in Steps
      /\ pc[1] # "idle" => step[1] \in Steps
  BY <1>1, <1>2 DEF KindedAt, Steps
<1>6. verify \in [Ranks -> 0..VerifySteps] /\ VerifySteps \in Nat
  BY <1>1, StepAssumption DEF Shape
<1> QED
  BY <1>1, <1>2, <1>3, <1>4, <1>5, <1>6

LEMMA GatherStatusKeeps ==
    ASSUME NEW d \in 0..MaxStep, NEW at, NEW ph, IInv(d, at, ph), GatherStatus
    PROVE  IInv(d, at, ph)'
<1>1. /\ pc[0] \in {"status", "status_failed"} /\ pc[1] = "status" /\ HostFrame
      /\ UNCHANGED <<queue, recorded, step, verify, digest, finished, conn, rqst>>
      /\ pc' = IF pc[0] = "status" /\ step[0] = step[1]
                 THEN [r \in Ranks |-> "transport"] ELSE [r \in Ranks |-> "failed"]
  BY DEF GatherStatus, HostFrame, gpu
<1>2. /\ Faulty /\ Serial(step[0]) /\ Serial(step[1]) /\ step[0] \in Steps /\ step[1] \in Steps
      /\ \A n \in Steps : Serial(n) => Together(n, AfterStatus)
      /\ verify[0] = verify[1] /\ verify \in [Ranks -> 0..VerifySteps]
  BY <1>1, MeetingOf DEF KindedAt
<1>3. step[0] = step[1]
  <2>1. pc[0] \notin AfterStatus /\ pc[1] \notin AfterStatus
    BY <1>1 DEF AfterStatus, AfterDrained, AfterVerify, Resting
  <2>2. Together(step[0], AfterStatus) /\ Together(step[1], AfterStatus)
    BY <1>2
  <2> QED
    BY <1>2, <2>1, <2>2, SameStep
<1> DEFINE m == IF pc[0] = "status" THEN "transport" ELSE "failed"
<1>4. /\ pc' = [r \in Ranks |-> m] /\ m \in {"transport", "failed"} /\ m # "verify"
      /\ m = "transport" => pc[0] = "status"
      /\ m = "failed" => faults # {}
  BY <1>1, <1>2, <1>3 DEF Faulty
<1> HIDE DEF m
<1>5. Meeting(step[0], m)
  BY <1>1, <1>2, <1>4 DEF Meeting
<1>6. verify' \in [Ranks -> 0..VerifySteps] /\ verify'[0] = verify'[1]
  BY <1>1, <1>2
<1> QED
  BY <1>1, <1>3, <1>4, <1>5, <1>6, MeetingKeeps

LEMMA GatherDrainedKeeps ==
    ASSUME NEW d \in 0..MaxStep, NEW at, NEW ph, IInv(d, at, ph), GatherDrained
    PROVE  IInv(d, at, ph)'
<1>1. /\ pc[0] = "drained" /\ pc[1] = "drained" /\ HostFrame
      /\ UNCHANGED <<queue, recorded, step, verify, digest, finished, conn, rqst>>
      /\ pc' = IF step[0] = step[1] THEN [r \in Ranks |-> Transferred(r)]
                                    ELSE [r \in Ranks |-> "failed"]
  BY DEF GatherDrained, HostFrame, gpu, Ranks
<1>2. /\ Serial(step[0]) /\ Serial(step[1]) /\ step[0] \in Steps /\ step[1] \in Steps
      /\ \A n \in Steps : Serial(n) => Together(n, AfterDrained)
      /\ verify[0] = verify[1] /\ verify \in [Ranks -> 0..VerifySteps]
  BY <1>1, MeetingOf DEF KindedAt
<1>3. step[0] = step[1]
  <2>1. "drained" \notin AfterDrained
    BY DEF AfterDrained, AfterVerify, Resting
  <2>2. Together(step[0], AfterDrained) /\ Together(step[1], AfterDrained)
    BY <1>2
  <2> QED
    BY <1>1, <1>2, <2>1, <2>2, SameStep
<1> DEFINE m == IF verify[0] > 0 THEN "verify" ELSE "forward"
<1>4. /\ pc' = [r \in Ranks |-> m] /\ m \in {"verify", "forward"} /\ m # "failed"
      /\ m = "verify" => verify[0] > 0
  BY <1>1, <1>2, <1>3 DEF Transferred, Ranks
<1> HIDE DEF m
<1>5. Meeting(step[0], m)
  BY <1>1, <1>2, <1>4 DEF Meeting
<1>6. verify' \in [Ranks -> 0..VerifySteps] /\ verify'[0] = verify'[1] /\ verify' = verify
  BY <1>1, <1>2
<1> QED
  BY <1>1, <1>3, <1>4, <1>5, <1>6, MeetingKeeps

LEMMA GatherVerifyKeeps ==
    ASSUME NEW d \in 0..MaxStep, NEW at, NEW ph, IInv(d, at, ph), GatherVerify
    PROVE  IInv(d, at, ph)'
<1>1. /\ pc[0] = "verifying" /\ pc[1] = "verifying" /\ HostFrame
      /\ UNCHANGED <<queue, recorded, step, digest, finished, conn, rqst>>
      /\ \/ /\ digest[0] = digest[1] /\ step[0] = step[1] /\ pc' = [r \in Ranks |-> "forward"]
            /\ verify' = [r \in Ranks |-> verify[r] - 1]
         \/ /\ ~(digest[0] = digest[1] /\ step[0] = step[1])
            /\ pc' = [r \in Ranks |-> "failed"] /\ verify' = verify
  BY DEF GatherVerify, HostFrame, gpu, Ranks
<1>2. /\ step[0] > d /\ step[1] > d /\ step[0] \in Steps /\ step[1] \in Steps /\ Faulty
      /\ \A n \in Steps : n > d => Together(n, AfterVerify) /\ Shape
      /\ verify[0] = verify[1] /\ verify \in [Ranks -> 0..VerifySteps] /\ verify[0] > 0
      /\ VerifySteps \in Nat /\ Ranked(d, at, ph)
  BY <1>1, MeetingOf DEF KindedAt
<1>3. step[0] = step[1]
  <2>1. "verifying" \notin AfterVerify
    BY DEF AfterVerify, Resting
  <2>2. Together(step[0], AfterVerify) /\ Together(step[1], AfterVerify)
    BY <1>2
  <2> QED
    BY <1>1, <1>2, <2>1, <2>2, SameStep
<1> DEFINE m == IF digest[0] = digest[1] THEN "forward" ELSE "failed"
<1>4. /\ pc' = [r \in Ranks |-> m] /\ m \in {"forward", "failed"} /\ m # "verify"
      /\ m = "failed" => digest[0] # digest[1]
  BY <1>1, <1>3
<1>5. verify' \in [Ranks -> 0..VerifySteps] /\ verify'[0] = verify'[1]
  <2>1. CASE verify' = verify
    BY <1>2, <2>1
  <2>2. CASE verify' = [r \in Ranks |-> verify[r] - 1]
    <3>1. \A r \in Ranks : verify[r] \in 0..VerifySteps /\ verify[r] > 0
      BY <1>2 DEF Ranks
    <3>2. \A r \in Ranks : verify[r] - 1 \in 0..VerifySteps
      BY <1>2, <3>1
    <3>3. verify'[0] = verify[0] - 1 /\ verify'[1] = verify[1] - 1
      BY <2>2 DEF Ranks
    <3> QED
      BY <1>2, <2>2, <3>2, <3>3
  <2> QED
    BY <1>1, <2>1, <2>2
<1>6. Serialize /\ m = "failed" => faults # {}
  <2> SUFFICES ASSUME Serialize, m = "failed", faults = {} PROVE FALSE
    OBVIOUS
  <2>1. Clean
    BY <1>2 DEF Clean, Faulty
  <2>2. \A r \in Ranks : digest[r] = step[r]
    BY <1>1, <1>2, <2>1 DEF Ranked, Ranks
  <2> QED
    BY <1>3, <1>4, <2>2 DEF Ranks
<1> HIDE DEF m
<1>7. Meeting(step[0], m)
  BY <1>1, <1>4 DEF Meeting
<1> QED
  BY <1>1, <1>3, <1>4, <1>5, <1>6, <1>7, MeetingKeeps

LEMMA RendezvousKeeps ==
    ASSUME NEW d \in 0..MaxStep, NEW at, NEW ph, IInv(d, at, ph), Rendezvous
    PROVE  IInv(d, at, ph)'
BY GatherStatusKeeps, GatherDrainedKeeps, GatherVerifyKeeps DEF Rendezvous

-----------------------------------------------------------------------------
(* The request thread.                                                     *)

\* A step of the request thread.
LEMMA RequestStep ==
    ASSUME NEW d \in 0..MaxStep, NEW at, NEW ph, IInv(d, at, ph), HostFrame,
           UNCHANGED <<pc, step, verify, digest, finished>>, Shape', Queues(d, at, ph)', Grown,
           Clean' => Clean,
           \A e \in Events \ {"d2h_done"} : recorded'[e] = recorded[e],
           \A s \in Streams \ {D2H, Reader, Error} :
              Enqueued(d, at, ph, s)' = Enqueued(d, at, ph, s),
           Owned(d)', Served(d)', Requests(d, at, ph)', Reading(d, at, ph)', Recorded(d)', Faulty'
    PROVE  IInv(d, at, ph)'
<1>1. /\ Mains(d, at, ph) /\ Counts(d, at, ph) /\ Kinded(d) /\ Ranked(d, at, ph)
  BY DEF IInv
<1>2. /\ \A r \in Ranks : /\ Enqueued(d, at, ph, Main(r))' = Enqueued(d, at, ph, Main(r))
                          /\ Enqueued(d, at, ph, Tp(r))' = Enqueued(d, at, ph, Tp(r))
                          /\ recorded'[Done(r)] = recorded[Done(r)]
      /\ recorded'["input_ready"] = recorded["input_ready"] /\ 0 \in Ranks /\ 1 \in Ranks
      /\ recorded'["done1"] = recorded["done1"]
  BY DEF Ranks, Streams, D2H, Reader, Error, Main, Tp, Done, Events
<1>3. Mains(d, at, ph)'
  <2>1. MainAt0(d, step[0], pc[0], Enqueued(d, at, ph, Main(0)))'
    BY <1>1, <1>2 DEF Mains
  <2>2. MainAt1(d, step[1], pc[1], Enqueued(d, at, ph, Main(1)))'
    BY <1>1, <1>2 DEF Mains
  <2> QED
    BY <2>1, <2>2 DEF Mains
<1>4. Counts(d, at, ph)'
  <2>1. Counted(d, step[0], pc[0], {"sync", "prepare"}, {"status_failed", "failed"},
                recorded["input_ready"])'
    BY <1>1, <1>2 DEF Counts
  <2>2. ASSUME NEW r \in Ranks
        PROVE  Transfers(d, step[r], pc[r], recorded[Done(r)], Enqueued(d, at, ph, Tp(r)))'
    <3>1. Transfers(d, step[r], pc[r], recorded[Done(r)], Enqueued(d, at, ph, Tp(r)))
      BY <1>1 DEF Counts
    <3>2. Done(r)' = Done(r)
      BY DEF Done
    <3> QED
      BY <1>2, <3>1, <3>2
  <2> QED
    BY <2>1, <2>2 DEF Counts
<1>5. Kinded(d)'
  BY <1>1 DEF Kinded, KindedAt, Serial, HostFrame, workload
<1>6. Ranked(d, at, ph)'
  <2>1. \A n : Serial(n)' <=> Serial(n)
    BY DEF Serial, HostFrame, workload
  <2>2. \A r \in Ranks, n \in Steps : \A labels : Past(r, n, labels)' <=> Past(r, n, labels)
    BY DEF Past
  <2>3. /\ (verify[0] = verify[1])'
        /\ (\A r \in Ranks : pc[r] \in {"verify", "verifying"} => verify[r] > 0)'
        /\ (\A r \in Ranks : pc[r] = "drained" => at[Tp(r)] > step[r])'
    BY <1>1 DEF Ranked
  <2>4. (pc[0] # "failed" /\ pc[1] # "failed" =>
          /\ \A n \in Steps : Serial(n) => Together(n, AfterStatus) /\ Together(n, AfterDrained)
          /\ verify[0] > 0 => \A n \in Steps : n > d => Together(n, AfterVerify))'
    BY <1>1, <1>2, <2>1, <2>2 DEF Ranked, Together
  <2>5. (\A n \in Steps : Serial(n) =>
          /\ \A r, t \in Ranks : Past(r, n, AfterDrained) => at[Tp(t)] > n
          /\ Past(1, n, AfterStatus) /\ ~BroadcastDone(at, ph, n) =>
                step[0] = n /\ pc[0] \in {"transport", "drain"})'
    BY <1>1, <1>2, <2>1, <2>2 DEF Ranked, BroadcastDone
  <2>6. (pc[1] = "failed" /\ Serial(step[1]) =>
            recorded["done1"] + d < step[1] \/ at[Tp(1)] > step[1])'
    <3>1. Serial(step[1])' <=> Serial(step[1])
      BY DEF Serial, HostFrame, workload
    <3> QED
      BY <1>1, <1>2, <3>1 DEF Ranked
  <2>7. (step[1] > d /\ (pc[1] # "sync" \/ step[1] > d + 1) => (Serialize => at[Main(1)] > d))'
    BY <1>1 DEF Ranked
  <2>8. (Clean /\ Serialize => \A r \in Ranks : pc[r] = "verifying" => digest[r] = step[r])'
    BY <1>1 DEF Ranked
  <2> QED
    BY <2>3, <2>4, <2>5, <2>6, <2>7, <2>8 DEF Ranked
<1>7. Threads(d, at, ph)' /\ finished' = finished
  BY DEF Threads
<1> QED
  BY <1>3, <1>4, <1>5, <1>6, <1>7, HostStep

\* What the steps of the request thread start from.
LEMMA OfR ==
    ASSUME NEW d \in 0..MaxStep, NEW at, NEW ph, IInv(d, at, ph)
    PROVE  /\ Shape /\ Cursors(d, at, ph) /\ Queues(d, at, ph) /\ Device0(d, at, ph)
           /\ Owned(d) /\ Served(d) /\ Requests(d, at, ph) /\ Reading(d, at, ph) /\ Recorded(d)
           /\ Faulty /\ d \in Nat /\ MaxStep \in Nat
           /\ reqSeq \in Nat /\ reqSeq <= MaxStep /\ Launched \in Nat
           /\ mailbox \in Nat \cup {-1} /\ mailbox <= MaxStep
           /\ step[0] \in Nat /\ recorded["d2h_done"] \in Nat
           /\ recorded \in [Events -> Nat]
           /\ Counted(d, step[0], pc[0], {"sync", "prepare"}, {"status_failed", "failed"}, Launched)
           /\ KindedAt(d, step[0], pc[0])
           /\ D2H \in Scripted /\ Reader \in Scripted /\ 0 \in Contents
<1>1. /\ Shape /\ Cursors(d, at, ph) /\ Queues(d, at, ph) /\ Device0(d, at, ph)
      /\ Owned(d) /\ Served(d) /\ Requests(d, at, ph) /\ Reading(d, at, ph) /\ Recorded(d)
      /\ Faulty /\ d \in Nat /\ MaxStep \in Nat /\ step[0] \in Nat
      /\ recorded["d2h_done"] \in Nat /\ recorded["input_ready"] \in Nat
      /\ recorded \in [Events -> Nat]
      /\ Counted(d, step[0], pc[0], {"sync", "prepare"}, {"status_failed", "failed"},
                 recorded["input_ready"])
      /\ KindedAt(d, step[0], pc[0])
  BY Of0
<1>2. /\ reqSeq \in Nat /\ reqSeq <= MaxStep /\ mailbox \in Nat \cup {-1} /\ mailbox <= MaxStep
      /\ 0 \in Contents
  BY <1>1 DEF Shape, Contents
<1>3. D2H \in Scripted /\ Reader \in Scripted
  BY StreamFacts
<1> QED
  BY <1>1, <1>2, <1>3 DEF Launched

\* A step of the request thread that enqueues nothing.
LEMMA RequestGoes ==
    ASSUME NEW d \in 0..MaxStep, NEW at, NEW ph, IInv(d, at, ph), HostFrame,
           UNCHANGED <<queue, recorded, pc, step, verify, digest, finished, active, released, closed>>,
           RequestTyped,
           Owned(d)', Served(d)', Requests(d, at, ph)', Reading(d, at, ph)', Recorded(d)', Faulty'
    PROVE  IInv(d, at, ph)'
<1>1. Shape /\ Queues(d, at, ph)
  BY OfR
<1>2. Shape'
  BY <1>1 DEF Shape, HostFrame, workload, RequestTyped
<1>3. /\ Queues(d, at, ph)' /\ Grown
      /\ \A s : Enqueued(d, at, ph, s)' = Enqueued(d, at, ph, s)
  BY <1>1, Same
<1>4. Clean' => Clean
  BY <1>1 DEF Clean, Shape, RequestTyped
<1> QED
  BY <1>2, <1>3, <1>4, RequestStep

LEMMA NotServing ==
    ASSUME NEW d \in 0..MaxStep, NEW at, NEW ph, IInv(d, at, ph), req # "get" \/ mailbox # 0
    PROVE  Serving = FALSE
BY OfR DEF Reading, Serving

LEMMA GetKeeps ==
    ASSUME NEW d \in 0..MaxStep, NEW at, NEW ph, IInv(d, at, ph), Get
    PROVE  IInv(d, at, ph)'
<1>1. /\ Shape /\ Owned(d) /\ Served(d) /\ Requests(d, at, ph) /\ Reading(d, at, ph)
      /\ Recorded(d) /\ Faulty /\ d \in Nat /\ reqSeq \in Nat /\ Launched \in Nat
      /\ mailbox \in Nat \cup {-1} /\ 0 \in Contents /\ Device0(d, at, ph) /\ mailbox <= MaxStep
      /\ MaxStep \in Nat /\ recorded["d2h_done"] \in Nat
  BY OfR
<1>2. /\ req = "get" /\ mailbox # 0 /\ mailbox' = 0 /\ HostFrame
      /\ UNCHANGED <<queue, recorded, pc, step, verify, digest, finished, active, released, closed,
                     records, completed, enqueued, error, rows, sync_steps, faults, kind>>
      /\ \/ mailbox = -1 /\ req' = "stopped" /\ reqSeq' = reqSeq
         \/ mailbox # -1 /\ req' = "stage" /\ reqSeq' = mailbox
  BY DEF Get, HostFrame, gpu, hosts, workload
<1>3. RequestTyped
  BY <1>1, <1>2 DEF Shape, Requesting, RequestTyped
<1>4. Owned(d)'
  BY <1>1, <1>2 DEF Owned
<1>5. Launched' = Launched /\ \A s : Enqueued(d, at, ph, s)' = Enqueued(d, at, ph, s)
  BY <1>2 DEF Launched, Enqueued, Executed
<1>6. Faulty'
  <2>1. Idle(Error)' = Idle(Error)
    BY <1>2 DEF Idle
  <2> QED
    BY <1>1, <1>2, <2>1 DEF Faulty
<1>7. ~Serving'
  BY <1>2, NotServing DEF Serving, Serial
<1>8. CASE mailbox = -1
  <2>1. Served(d)'
    BY <1>1, <1>2, <1>5, <1>8 DEF Served
  <2>2. Requests(d, at, ph)'
    BY <1>1, <1>2, <1>5, <1>8 DEF Requests
  <2>3. Reading(d, at, ph)'
    <3>1. Broken(d, at, ph)' <=> Broken(d, at, ph)
      BY <1>2, <1>5, <1>8 DEF Broken
    <3> HIDE DEF Broken
    <3> QED
      BY <1>1, <1>2, <1>5, <1>7, <1>8, <3>1 DEF Reading, Serving
  <2>4. Recorded(d)'
    BY <1>1, <1>2, <1>8 DEF Recorded
  <2> QED
    BY <1>2, <1>3, <1>4, <1>6, <2>1, <2>2, <2>3, <2>4, RequestGoes
<1>9. CASE mailbox # -1
  <2> DEFINE n == mailbox
  <2>1. /\ n \in Nat /\ n > 0 /\ req' = "stage" /\ reqSeq' = n /\ n <= MaxStep
    BY <1>1, <1>2, <1>9
  <2>2. /\ Launched >= 1 /\ n = d + Launched /\ n \in records \ completed /\ n > d
        /\ reqSeq = IF n = d + 1 THEN 0 ELSE n - 1
    BY <1>1, <2>1 DEF Served
  <2>3. Served(d)'
    BY <1>1, <1>2, <1>5, <2>1, <2>2 DEF Served
  <2>4. at[D2H] >= n /\ at[D2H] \in Nat /\ at[Reader] \in Nat
    <3>1. at[D2H] \in Nat /\ at[D2H] > d /\ at[Reader] \in Nat
      BY OfR, StreamFacts, CursorFacts DEF Device0
    <3>2. reqSeq # 0 => at[D2H] = reqSeq + 1
      BY <1>1, <1>2 DEF Requests
    <3> HIDE DEF n
    <3> QED
      BY <1>1, <2>1, <2>2, <3>1, <3>2
  <2>5. Requests(d, at, ph)'
    <3>1. /\ enqueued = reqSeq /\ recorded["d2h_done"] = (IF reqSeq = 0 THEN 0 ELSE reqSeq - d)
          /\ Enqueued(d, at, ph, D2H) = 3 * recorded["d2h_done"]
      BY <1>1, <1>2 DEF Requests
    <3>2. /\ enqueued = IF n = d + 1 THEN 0 ELSE n - 1
          /\ recorded["d2h_done"] = n - d - 1
      BY <1>1, <2>1, <2>2, <3>1
    <3> HIDE DEF n
    <3> QED
      BY <1>1, <1>2, <1>5, <2>1, <2>2, <2>4, <3>1, <3>2 DEF Requests
  <2>6. Enqueued(d, at, ph, Reader) = 3 * (n - d - 1) /\ at[Reader] = n
    <3>1. CASE reqSeq = 0
      <4>1. n = d + 1
        BY <1>1, <2>1, <2>2, <3>1
      <4>2. Enqueued(d, at, ph, Reader) = 0
        BY <1>1, <3>1 DEF Reading
      <4>3. at[Reader] > d
        BY <1>1 DEF Device0
      <4>4. Base(d, Reader, at[Reader]) = 3 * (at[Reader] - d - 1)
        BY <1>1, <2>4, <4>3, Bases
      <4>5. ph[Reader] \in Nat /\ Len(queue[Reader]) \in Nat
        BY OfR, StreamFacts, CursorFacts, QueueFacts
      <4> HIDE DEF n
      <4> QED
        BY <1>1, <2>4, <4>1, <4>2, <4>3, <4>4, <4>5 DEF Enqueued, Executed
    <3>2. CASE reqSeq # 0
      <4>1. Enqueued(d, at, ph, Reader) = 3 * (reqSeq - d) /\ at[Reader] = reqSeq + 1
        BY <1>1, <1>2, <2>1, <3>2 DEF Reading
      <4>2. reqSeq = n - 1
        BY <2>2, <3>2
      <4> HIDE DEF n
      <4> QED
        BY <1>1, <2>1, <4>1, <4>2
    <3> QED
      BY <3>1, <3>2
  <2>7. Reading(d, at, ph)'
    <3>1. reqSeq' # 0 /\ req' = "stage" /\ reqSeq' = n
      BY <2>1
    <3>2. (sync_steps => Enqueued(d, at, ph, Reader) >= 3 * (Launched - 1))'
      BY <1>1, <1>2, <1>5 DEF Reading
    <3>3. /\ Enqueued(d, at, ph, Reader)' = 3 * (reqSeq' - d - 1) /\ at[Reader] = reqSeq'
      BY <1>5, <2>6, <3>1
    <3> QED
      BY <1>7, <3>1, <3>2, <3>3 DEF Reading, Serving
  <2>8. Recorded(d)'
    <3>1. reqSeq <= n
      BY <1>1, <2>1, <2>2
    <3>2. (\A m \in completed : m <= d \/ m <= reqSeq)'
      BY <1>1, <1>2, <2>1, <3>1 DEF Recorded, Steps, Shape
    <3>3. (\A m \in Steps : m > d /\ m < reqSeq => m \in completed)'
      <4> SUFFICES ASSUME NEW m \in Steps, m > d, m < n PROVE m \in completed
        BY <1>2, <2>1
      <4>1. n # d + 1 /\ reqSeq = n - 1 /\ reqSeq # 0
        BY <1>1, <2>1, <2>2 DEF Steps
      <4>2. CASE m < reqSeq
        BY <1>1, <4>2 DEF Recorded
      <4>3. CASE m = reqSeq
        BY <1>1, <1>2, <2>1, <4>1, <4>3 DEF Reading
      <4> QED
        BY <1>1, <2>1, <4>1, <4>2, <4>3 DEF Steps
    <3>4. /\ (\A m \in Steps : m <= d /\ (m < step[0] \/ (m = step[0] /\ pc[0] \in AfterVerify)) =>
                m \in completed)'
          /\ (\A m \in Steps : m < step[0] \/ (m = step[0] /\ pc[0] \in Resting \cup {"result"}) =>
                m \in released)'
          /\ (\A m \in released : m < step[0] \/ (m = step[0] /\ pc[0] \in Resting \cup {"result", "failed"}))'
          /\ (\A m \in records : m <= step[0] /\ ~(m \in completed /\ m \in released))'
      BY <1>1, <1>2 DEF Recorded
    <3> QED
      BY <3>2, <3>3, <3>4 DEF Recorded
  <2> QED
    BY <1>2, <1>3, <1>4, <1>6, <2>3, <2>5, <2>7, <2>8, RequestGoes
<1> QED
  BY <1>8, <1>9

LEMMA NotifyKeeps ==
    ASSUME NEW d \in 0..MaxStep, NEW at, NEW ph, IInv(d, at, ph), Notify
    PROVE  IInv(d, at, ph)'
<1>1. /\ Shape /\ Owned(d) /\ Served(d) /\ Requests(d, at, ph) /\ Reading(d, at, ph)
      /\ Recorded(d) /\ Faulty /\ d \in Nat /\ reqSeq \in Nat /\ Launched \in Nat
      /\ mailbox \in Nat \cup {-1} /\ step[0] \in Nat
      /\ Counted(d, step[0], pc[0], {"sync", "prepare"}, {"status_failed", "failed"}, Launched)
  BY OfR
<1>2. /\ req = "notify" /\ req' = "sync" /\ enqueued' = reqSeq /\ HostFrame
      /\ UNCHANGED <<queue, recorded, pc, step, verify, digest, finished, active, released, closed,
                     records, completed, error, mailbox, reqSeq, rows, sync_steps, faults, kind>>
  BY DEF Notify, HostFrame, gpu, hosts, workload
<1>3. RequestTyped
  BY <1>1, <1>2 DEF Shape, Requesting, RequestTyped
<1>4. Launched' = Launched /\ \A s : Enqueued(d, at, ph, s)' = Enqueued(d, at, ph, s)
  BY <1>2 DEF Launched, Enqueued, Executed
<1>5. /\ reqSeq # 0 /\ reqSeq > d /\ reqSeq = d + Launched /\ enqueued # reqSeq
      /\ ~(mailbox > 0)
  <2>1. reqSeq # 0 /\ reqSeq > d /\ ~(mailbox > 0)
    BY <1>1, <1>2 DEF Served
  <2>2. reqSeq = d + Launched
    BY <1>1, <2>1 DEF Served
  <2>3. enqueued # reqSeq
    BY <1>1, <1>2, <2>1 DEF Requests
  <2> QED
    BY <2>1, <2>2, <2>3
<1>6. Owned(d)'
  <2> SUFFICES /\ (pc[0] \notin {"sync", "prepare", "handoff", "dummy", "status_failed", "failed"}
                       /\ step[0] > d => reqSeq = step[0])
               /\ (pc[0] \in {"sync", "prepare"} /\ step[0] > d + 1 => reqSeq = step[0] - 1)
    BY <1>1, <1>2 DEF Owned
  <2>1. ASSUME pc[0] \notin {"sync", "prepare", "handoff", "dummy", "status_failed", "failed"},
               step[0] > d
        PROVE  reqSeq = step[0]
    BY <1>1, <1>5, <2>1 DEF Counted
  <2>2. ASSUME pc[0] \in {"sync", "prepare"}, step[0] > d + 1
        PROVE  reqSeq = step[0] - 1
    BY <1>1, <1>5, <2>2 DEF Counted
  <2> QED
    BY <2>1, <2>2
<1>7. Served(d)'
  BY <1>1, <1>2, <1>4, <1>5 DEF Served
<1>8. Requests(d, at, ph)'
  BY <1>1, <1>2, <1>4, <1>5 DEF Requests
<1>9. Reading(d, at, ph)'
  <2>1. ~Serving'
    BY <1>2, NotServing DEF Serving, Serial
  <2> QED
    BY <1>1, <1>2, <1>4, <1>5, <2>1 DEF Reading, Serving
<1>10. Recorded(d)'
  BY <1>1, <1>2 DEF Recorded
<1>11. Faulty'
  <2>1. Idle(Error)' = Idle(Error)
    BY <1>2 DEF Idle
  <2> QED
    BY <1>1, <1>2, <2>1 DEF Faulty
<1> QED
  BY <1>2, <1>3, <1>6, <1>7, <1>8, <1>9, <1>10, <1>11, RequestGoes

LEMMA SyncCopiesKeeps ==
    ASSUME NEW d \in 0..MaxStep, NEW at, NEW ph, IInv(d, at, ph), SyncCopies
    PROVE  IInv(d, at, ph)'
<1>1. /\ Shape /\ Owned(d) /\ Served(d) /\ Requests(d, at, ph) /\ Reading(d, at, ph)
      /\ Recorded(d) /\ Faulty /\ d \in Nat /\ reqSeq \in Nat /\ Device0(d, at, ph)
      /\ recorded["d2h_done"] \in Nat
  BY OfR
<1>2. /\ req = "sync" /\ req' = "plan" /\ fired["d2h_done"] = recorded["d2h_done"] /\ HostFrame
      /\ UNCHANGED <<queue, recorded, pc, step, verify, digest, finished, active, released, closed,
                     records, completed, error, mailbox, enqueued, reqSeq, rows, sync_steps, faults,
                     kind>>
  BY DEF SyncCopies, HostFrame, gpu, hosts, workload, conn
<1>3. RequestTyped
  BY <1>1, <1>2 DEF Shape, Requesting, RequestTyped
<1>4. Launched' = Launched /\ \A s : Enqueued(d, at, ph, s)' = Enqueued(d, at, ph, s)
  BY <1>2 DEF Launched, Enqueued, Executed
<1>5. reqSeq # 0 /\ at[D2H] = reqSeq + 1
  <2>1. reqSeq # 0
    BY <1>1, <1>2 DEF Served
  <2>2. recorded["d2h_done"] = reqSeq - d
    BY <1>1, <1>2, <2>1 DEF Requests
  <2>3. fired["d2h_done"] = at[D2H] - d - 1 /\ at[D2H] \in Nat
    BY <1>1, OfR, StreamFacts, CursorFacts DEF Device0, Fires
  <2> QED
    BY <1>1, <1>2, <2>1, <2>2, <2>3
<1>6. Owned(d)'
  BY <1>1, <1>2 DEF Owned
<1>7. Served(d)'
  BY <1>1, <1>2, <1>4 DEF Served
<1>8. Requests(d, at, ph)'
  BY <1>1, <1>2, <1>4, <1>5 DEF Requests
<1>9. Reading(d, at, ph)'
  <2>1. ~Serving'
    BY <1>2, NotServing DEF Serving, Serial
  <2> QED
    BY <1>1, <1>2, <1>4, <1>5, <2>1 DEF Reading, Serving
<1>10. Recorded(d)'
  BY <1>1, <1>2 DEF Recorded
<1>11. Faulty'
  <2>1. Idle(Error)' = Idle(Error)
    BY <1>2 DEF Idle
  <2> QED
    BY <1>1, <1>2, <2>1 DEF Faulty
<1> QED
  BY <1>2, <1>3, <1>6, <1>7, <1>8, <1>9, <1>10, <1>11, RequestGoes

LEMMA PlanKeeps ==
    ASSUME NEW d \in 0..MaxStep, NEW at, NEW ph, IInv(d, at, ph), Plan
    PROVE  IInv(d, at, ph)'
<1>1. /\ Shape /\ Owned(d) /\ Served(d) /\ Requests(d, at, ph) /\ Reading(d, at, ph)
      /\ Recorded(d) /\ Faulty /\ d \in Nat /\ reqSeq \in Nat /\ Device0(d, at, ph)
      /\ recorded["d2h_done"] \in Nat
  BY OfR
<1>2. reqSeq # 0 /\ reqSeq \in records /\ reqSeq > d
  BY <1>1 DEF Plan, Served
<1>3. /\ req = "plan" /\ req' = "produce" /\ rows' = pinned /\ HostFrame
      /\ UNCHANGED <<queue, recorded, pc, step, verify, digest, finished, active, released, closed,
                     records, completed, error, mailbox, enqueued, reqSeq, sync_steps, faults,
                     kind>>
  BY <1>2 DEF Plan, HostFrame, gpu, hosts, workload, conn
<1>4. RequestTyped
  BY <1>1, <1>3 DEF Shape, Requesting, RequestTyped
<1>5. Launched' = Launched /\ \A s : Enqueued(d, at, ph, s)' = Enqueued(d, at, ph, s)
  BY <1>3 DEF Launched, Enqueued, Executed
<1>6. rows' = reqSeq
  <2>1. at[D2H] = reqSeq + 1 /\ Enqueued(d, at, ph, D2H) = 3 * (reqSeq - d)
    BY <1>1, <1>2, <1>3 DEF Requests
  <2>2. ph[D2H] \in Nat /\ Len(queue[D2H]) \in Nat /\ at[D2H] \in Nat
    <3>1. Shape /\ Cursors(d, at, ph) /\ D2H \in Scripted /\ d \in 0..MaxStep
      BY OfR
    <3> QED
      BY ONLY <3>1, CursorFacts, QueueFacts
  <2>3. Base(d, D2H, at[D2H]) = 3 * (at[D2H] - d - 1)
    BY <1>1, <1>2, <2>1, <2>2, Bases
  <2>4. ph[D2H] = 0
    <3>1. Base(d, D2H, at[D2H]) + ph[D2H] + Len(queue[D2H]) = 3 * (reqSeq - d)
      BY <2>1 DEF Enqueued, Executed
    <3>2. Base(d, D2H, at[D2H]) = 3 * (reqSeq - d) /\ 3 * (reqSeq - d) \in Int
      BY <1>1, <2>1, <2>3
    <3> QED
      BY <2>2, <3>1, <3>2
  <2>5. pinned = IF ph[D2H] >= 2 THEN at[D2H] ELSE IF at[D2H] = d + 1 THEN 0 ELSE at[D2H] - 1
    BY <1>1 DEF Device0, Copying
  <2> QED
    BY <1>1, <1>2, <1>3, <2>1, <2>4, <2>5
<1>7. Owned(d)'
  BY <1>1, <1>3 DEF Owned
<1>8. Served(d)'
  BY <1>1, <1>3, <1>5 DEF Served
<1>9. Requests(d, at, ph)'
  BY <1>1, <1>2, <1>3, <1>5, <1>6 DEF Requests
<1>10. Reading(d, at, ph)'
  <2>1. ~Serving'
    BY <1>3, NotServing DEF Serving, Serial
  <2> QED
    BY <1>1, <1>2, <1>3, <1>5, <2>1 DEF Reading, Serving
<1>11. Recorded(d)'
  BY <1>1, <1>3 DEF Recorded
<1>12. Faulty'
  <2>1. Idle(Error)' = Idle(Error)
    BY <1>3 DEF Idle
  <2> QED
    BY <1>1, <1>3, <2>1 DEF Faulty
<1> QED
  BY <1>3, <1>4, <1>7, <1>8, <1>9, <1>10, <1>11, <1>12, RequestGoes

LEMMA CompleteKeeps ==
    ASSUME NEW d \in 0..MaxStep, NEW at, NEW ph, IInv(d, at, ph), Complete
    PROVE  IInv(d, at, ph)'
<1> DEFINE n == reqSeq
<1>1. /\ Shape /\ Cursors(d, at, ph) /\ Owned(d) /\ Served(d) /\ Requests(d, at, ph)
      /\ Reading(d, at, ph) /\ Recorded(d) /\ Faulty /\ d \in Nat /\ n \in Nat
      /\ Launched \in Nat /\ Reader \in Scripted
  BY OfR
<1>2. req = "complete" /\ Idle(Reader) /\ n \in records \ completed /\ n # 0 /\ n > d
  BY <1>1 DEF Complete, Served
<1>3. /\ req' = "get" /\ completed' = completed \cup {n}
      /\ records' = (IF n \in released THEN records \ {n} ELSE records) /\ HostFrame
      /\ UNCHANGED <<queue, recorded, pc, step, verify, digest, finished, active, released, closed,
                     error, mailbox, enqueued, reqSeq, rows, sync_steps, faults, kind>>
  BY <1>2 DEF Complete, HostFrame, gpu, hosts, workload, Finalized
<1>4. RequestTyped
  BY <1>1, <1>2, <1>3 DEF Shape, Requesting, RequestTyped
<1>5. Launched' = Launched /\ \A s : Enqueued(d, at, ph, s)' = Enqueued(d, at, ph, s)
  BY <1>3 DEF Launched, Enqueued, Executed
<1>6. Enqueued(d, at, ph, Reader) = 3 * (n - d) /\ at[Reader] = n + 1
  <2>1. Enqueued(d, at, ph, Reader) = 3 * (n - d)
    BY <1>1, <1>2 DEF Reading
  <2>2. Base(d, Reader, n + 1) = 3 * (n - d) /\ Size(d, Reader, n + 1) = 3
    BY <1>1, <1>2, NextBases
  <2>3. /\ n + 1 \in Nat \ {0} /\ 0 \in Nat /\ 0 < Size(d, Reader, n + 1)
        /\ Enqueued(d, at, ph, Reader) = Base(d, Reader, n + 1) + 0
    BY <1>1, <2>1, <2>2
  <2> QED
    BY <1>1, <1>2, <2>1, <2>3, IdleIn
<1>7. Owned(d)'
  BY <1>1, <1>3 DEF Owned
<1>8. Served(d)'
  <2>1. mailbox > 0 => mailbox # n /\ mailbox \in records' \ completed'
    <3>1. mailbox > 0 => n = mailbox - 1 /\ mailbox \in records \ completed /\ mailbox \in Nat
      BY <1>1, <1>2, OfR DEF Served
    <3> HIDE DEF n
    <3>2. mailbox > 0 => mailbox # n
      BY <1>1, <3>1
    <3> QED
      BY <1>3, <3>1, <3>2 DEF n
  <2> QED
    BY <1>1, <1>2, <1>3, <1>5, <2>1 DEF Served
<1>9. Requests(d, at, ph)'
  BY <1>1, <1>2, <1>3, <1>5 DEF Requests
<1>10. Reading(d, at, ph)'
  <2>1. ~Serving'
    BY <1>2, <1>3, NotServing DEF Serving, Serial
  <2>2. (sync_steps => Enqueued(d, at, ph, Reader) >= 3 * (Launched - 1))'
    BY <1>1, <1>3, <1>5 DEF Reading
  <2>3. /\ Enqueued(d, at, ph, Reader)' = 3 * (reqSeq' - d) /\ at[Reader] = reqSeq' + 1
        /\ reqSeq' \in completed' /\ reqSeq' # 0 /\ req' = "get"
    BY <1>2, <1>3, <1>5, <1>6
  <2> QED
    BY <2>1, <2>2, <2>3 DEF Reading, Serving
<1>11. Recorded(d)'
  <2>1. (\A m \in completed : m <= d \/ m <= reqSeq)'
    BY <1>1, <1>3 DEF Recorded
  <2>2. (\A m \in Steps : m > d /\ m < reqSeq => m \in completed)'
    BY <1>1, <1>3 DEF Recorded
  <2>3. (\A m \in Steps : m <= d /\ (m < step[0] \/ (m = step[0] /\ pc[0] \in AfterVerify)) =>
            m \in completed)'
    BY <1>1, <1>3 DEF Recorded
  <2>4. (\A m \in Steps : m < step[0] \/ (m = step[0] /\ pc[0] \in Resting \cup {"result"}) =>
            m \in released)'
    BY <1>1, <1>3 DEF Recorded
  <2>5. (\A m \in released : m < step[0] \/ (m = step[0] /\ pc[0] \in Resting \cup {"result", "failed"}))'
    BY <1>1, <1>3 DEF Recorded
  <2>6. (\A m \in records : m <= step[0] /\ ~(m \in completed /\ m \in released))'
    BY <1>1, <1>3 DEF Recorded
  <2> QED
    BY <2>1, <2>2, <2>3, <2>4, <2>5, <2>6 DEF Recorded
<1>12. Faulty'
  <2>1. Idle(Error)' = Idle(Error)
    BY <1>3 DEF Idle
  <2> QED
    BY <1>1, <1>3, <2>1 DEF Faulty
<1> QED
  BY <1>3, <1>4, <1>7, <1>8, <1>9, <1>10, <1>11, <1>12, RequestGoes

LEMMA FailKeeps ==
    ASSUME NEW d \in 0..MaxStep, NEW at, NEW ph, IInv(d, at, ph), Fail
    PROVE  IInv(d, at, ph)'
<1>1. /\ Shape /\ Owned(d) /\ Served(d) /\ Requests(d, at, ph) /\ Reading(d, at, ph)
      /\ Recorded(d) /\ Faulty /\ d \in Nat /\ reqSeq \in Nat
  BY OfR
<1>2. /\ req = "fail" /\ error' = TRUE /\ HostFrame
      /\ req' = IF active # 0 /\ reqSeq = active THEN "wake" ELSE "get"
      /\ UNCHANGED <<queue, recorded, pc, step, verify, digest, finished, active, released, closed,
                     records, completed, mailbox, enqueued, reqSeq, rows, sync_steps, faults,
                     kind>>
  BY DEF Fail, Woken, HostFrame, gpu, hosts, workload
<1>3. RequestTyped
  BY <1>1, <1>2 DEF Shape, Requesting, RequestTyped
<1>4. Launched' = Launched /\ \A s : Enqueued(d, at, ph, s)' = Enqueued(d, at, ph, s)
  BY <1>2 DEF Launched, Enqueued, Executed
<1>5. reqSeq # 0
  BY <1>1, <1>2 DEF Served
<1>6. Owned(d)'
  BY <1>1, <1>2 DEF Owned
<1>7. Served(d)'
  BY <1>1, <1>2, <1>4 DEF Served
<1>8. Requests(d, at, ph)'
  BY <1>1, <1>2, <1>4, <1>5 DEF Requests
<1>9. Reading(d, at, ph)'
  <2>1. ~Serving'
    BY <1>2, NotServing DEF Serving, Serial
  <2>2. Broken(d, at, ph)' <=> Broken(d, at, ph)
    BY <1>2, <1>4 DEF Broken
  <2> HIDE DEF Broken
  <2>3. mailbox <= 0 /\ Broken(d, at, ph)
    BY <1>1, <1>2, <1>5 DEF Reading
  <2>4. (sync_steps => Enqueued(d, at, ph, Reader) >= 3 * (Launched - 1))'
    BY <1>1, <1>2, <1>4 DEF Reading
  <2> QED
    BY <1>2, <1>5, <2>1, <2>2, <2>3, <2>4 DEF Reading, Serving
<1>10. Recorded(d)'
  BY <1>1, <1>2 DEF Recorded
<1>11. Faulty'
  <2>1. Idle(Error)' = Idle(Error)
    BY <1>2 DEF Idle
  <2>2. active # 0 => pc[0] # "result"
    BY <1>1 DEF Owned
  <2> QED
    BY <1>1, <1>2, <2>1, <2>2 DEF Faulty
<1> QED
  BY <1>2, <1>3, <1>6, <1>7, <1>8, <1>9, <1>10, <1>11, RequestGoes

\* A step of the request thread that enqueues operations of step reqSeq on stream s.
LEMMA RequestPushes ==
    ASSUME NEW d \in 0..MaxStep, NEW at, NEW ph, IInv(d, at, ph), HostFrame,
           UNCHANGED <<pc, step, verify, digest, finished, active, records, completed, released,
                       mailbox, enqueued, error, closed, reqSeq, rows>>,
           recorded' \in [Events -> Nat],
           \A e \in Events \ {"d2h_done"} : recorded'[e] = recorded[e],
           NEW s \in {D2H, Reader}, NEW ops \in Seq(Ops), queue' = On(s, ops),
           reqSeq > d, Enqueued(d, at, ph, s) = 3 * (reqSeq - d - 1), Len(ops) <= 3,
           \A i \in 1..Len(ops) : ops[i] = Script(d, s, reqSeq)[i],
           req' \in Requesting \ {"stage", "stopped"}, req # "get",
           req' # "wake", req' = "fail" => faults # {},
           req' = "notify" => ~(mailbox > 0),
           req' \notin {"get", "wake", "stopped"} => reqSeq \in records \ completed,
           recorded'["d2h_done"] = reqSeq - d,
           Enqueued(d, at, ph, D2H)' = 3 * recorded'["d2h_done"],
           Requests(d, at, ph)', Reading(d, at, ph)'
    PROVE  IInv(d, at, ph)'
<1>1. /\ Shape /\ Cursors(d, at, ph) /\ Queues(d, at, ph) /\ Owned(d) /\ Served(d)
      /\ Recorded(d) /\ Faulty /\ d \in Nat /\ reqSeq \in Nat /\ reqSeq <= MaxStep
  BY OfR
<1>2. s \in Scripted /\ reqSeq \in Steps
  BY <1>1, OfR DEF Steps
<1>3. Base(d, s, reqSeq) = 3 * (reqSeq - d - 1) /\ Size(d, s, reqSeq) = 3
  <2>1. Size(d, s, reqSeq) = 3
    BY <1>1, StreamFacts DEF Size, RealSize, D2H, Reader, Main
  <2> QED
    BY <1>1, <2>1, Bases
<1>4. /\ Enqueued(d, at, ph, s) = Base(d, s, reqSeq) + 0 /\ 0 \in Nat
      /\ 0 + Len(ops) <= Size(d, s, reqSeq) /\ Len(ops) \in Nat
      /\ \A i \in 1..Len(ops) : ops[i] = Script(d, s, reqSeq)[0 + i]
  <2>1. \A i \in 1..Len(ops) : ops[i] = Script(d, s, reqSeq)[i] /\ 0 + i = i
    OBVIOUS
  <2>2. Len(ops) \in Nat /\ Len(ops) <= 3
    OBVIOUS
  <2> QED
    BY <1>1, <1>3, <2>1, <2>2
<1>5. /\ Queues(d, at, ph)' /\ Grown
      /\ \A t \in Streams \ {s} : /\ queue'[t] = queue[t]
                                  /\ Enqueued(d, at, ph, t)' = Enqueued(d, at, ph, t)
                                  /\ Idle(t)' = Idle(t)
  <2>1. /\ d \in 0..MaxStep /\ Shape /\ Cursors(d, at, ph) /\ Queues(d, at, ph) /\ s \in Scripted
        /\ reqSeq \in Steps /\ ops \in Seq(Ops) /\ queue' = On(s, ops)
    BY <1>1, <1>2
  <2> QED
    BY ONLY <2>1, <1>4, Push
<1>6. Shape'
  BY <1>1, <1>5 DEF Shape, HostFrame, workload, Grown
<1>7. Clean' => Clean
  BY DEF Clean
<1>8. Launched' = Launched
  BY DEF Launched, Events
<1>9. Owned(d)'
  BY <1>1 DEF Owned
<1>10. Served(d)'
  <2>1. mailbox > 0 => req' \notin {"stage", "notify"}
    OBVIOUS
  <2> QED
    BY <1>1, <1>8, <2>1 DEF Served
<1>11. Recorded(d)'
  BY <1>1 DEF Recorded
<1>12. Faulty'
  <2>1. Idle(Error)' = Idle(Error) /\ faults' = faults
    BY <1>5, StreamFacts DEF HostFrame, workload, Error, D2H, Reader, Streams
  <2> QED
    BY <1>1, <2>1 DEF Faulty
<1>13. \A t \in Streams \ {D2H, Reader, Error} :
          Enqueued(d, at, ph, t)' = Enqueued(d, at, ph, t)
  BY <1>5
<1> QED
  BY <1>5, <1>6, <1>7, <1>9, <1>10, <1>11, <1>12, <1>13, RequestStep

LEMMA StageCopiesKeeps ==
    ASSUME NEW d \in 0..MaxStep, NEW at, NEW ph, IInv(d, at, ph), StageCopies
    PROVE  IInv(d, at, ph)'
<1> DEFINE n == reqSeq
           ops == <<Await("input_ready", n - d), Op("copy", 0), Record("d2h_done")>>
<1>1. /\ Shape /\ Served(d) /\ Requests(d, at, ph) /\ Reading(d, at, ph) /\ d \in Nat
      /\ n \in Nat /\ n <= MaxStep /\ Launched \in Nat /\ recorded["d2h_done"] \in Nat
      /\ recorded \in [Events -> Nat] /\ Cursors(d, at, ph) /\ Queues(d, at, ph) /\ MaxStep \in Nat
      /\ D2H \in Scripted
  BY OfR
<1>2. /\ req = "stage" /\ req' = "notify" /\ HostFrame
      /\ queue' = On(D2H, <<WaitEvent("input_ready"), Op("copy", 0), Record("d2h_done")>>)
      /\ recorded' = [recorded EXCEPT !["d2h_done"] = @ + 1]
      /\ UNCHANGED <<pc, step, verify, digest, finished, active, records, completed, released,
                     mailbox, enqueued, error, closed, reqSeq, rows>>
  BY DEF StageCopies, HostFrame, hosts, conn
<1>3. /\ n # 0 /\ n > d /\ ~(mailbox > 0) /\ n = d + Launched /\ n \in records \ completed
  <2>1. n # 0 /\ n > d /\ ~(mailbox > 0) /\ n \in records \ completed
    BY <1>1, <1>2 DEF Served
  <2>2. mailbox <= 0
    BY <2>1, OfR
  <2> QED
    BY <1>1, <2>1, <2>2 DEF Served
<1>4. queue' = On(D2H, ops)
  <2>1. recorded["input_ready"] = n - d
    BY <1>1, <1>3 DEF Launched
  <2> QED
    BY <1>2, <2>1 DEF WaitEvent, Await
<1>5. /\ recorded["d2h_done"] = n - d - 1 /\ recorded'["d2h_done"] = n - d
      /\ recorded' \in [Events -> Nat]
      /\ \A e \in Events \ {"d2h_done"} : recorded'[e] = recorded[e]
      /\ recorded'["input_ready"] = recorded["input_ready"]
  <2>1. recorded["d2h_done"] = n - d - 1
    BY <1>1, <1>2, <1>3 DEF Requests
  <2>2. "d2h_done" \in Events /\ "input_ready" \in Events
    BY DEF Events
  <2>3. recorded'["d2h_done"] = n - d
    BY <1>1, <1>2, <2>1, <2>2
  <2> QED
    BY <1>1, <1>2, <2>1, <2>2, <2>3
<1>6. Enqueued(d, at, ph, D2H) = 3 * (n - d - 1)
  BY <1>1, <1>5 DEF Requests
<1>7. /\ ops \in Seq(Ops) /\ Len(ops) = 3
      /\ \A i \in 1..Len(ops) : ops[i] = Script(d, D2H, n)[i]
  <2>1. ops \in Seq(Ops)
    <3>1. n \in Steps /\ n - d \in 0..MaxStep /\ "d2h_done" \in Events
      BY <1>1, <1>3 DEF Steps, Events
    <3> HIDE DEF n
    <3> QED
      BY <3>1, Enqueuing
  <2>2. Script(d, D2H, n) = ops
    BY Scripts DEF CopyScript
  <2> QED
    BY <2>1, <2>2
<1>8. /\ Enqueued(d, at, ph, D2H)' = 3 * (n - d)
      /\ Enqueued(d, at, ph, Reader)' = Enqueued(d, at, ph, Reader)
  <2>1. Base(d, D2H, n) = 3 * (n - d - 1) /\ Size(d, D2H, n) = 3 /\ n \in Steps
    <3>1. Size(d, D2H, n) = 3
      BY <1>1, <1>3 DEF Size, RealSize, D2H, Main
    <3> QED
      BY <1>1, <1>3, <3>1, Bases DEF Steps
  <2>2. /\ Enqueued(d, at, ph, D2H) = Base(d, D2H, n) + 0 /\ 0 \in Nat
        /\ 0 + Len(ops) <= Size(d, D2H, n)
        /\ \A i \in 1..Len(ops) : ops[i] = Script(d, D2H, n)[0 + i]
    BY <1>1, <1>6, <1>7, <2>1
  <2>3. /\ d \in 0..MaxStep /\ Shape /\ Cursors(d, at, ph) /\ Queues(d, at, ph) /\ D2H \in Scripted
        /\ n \in Steps /\ ops \in Seq(Ops) /\ queue' = On(D2H, ops)
    BY <1>1, <1>4, <1>7, <2>1
  <2> HIDE DEF n, ops
  <2>4. /\ Enqueued(d, at, ph, D2H)' = Base(d, D2H, n) + 0 + Len(ops)
        /\ \A t \in Streams \ {D2H} : Enqueued(d, at, ph, t)' = Enqueued(d, at, ph, t)
    BY ONLY <2>2, <2>3, Push
  <2>5. Reader \in Streams \ {D2H} /\ n \in Nat
    BY <1>1 DEF Streams, D2H, Reader
  <2> QED
    BY <1>1, <1>7, <2>1, <2>4, <2>5
<1>9. Requests(d, at, ph)'
  <2>1. n' = n /\ recorded'["d2h_done"] = n - d
    BY <1>2, <1>5
  <2>2. /\ enqueued = (IF n = d + 1 THEN 0 ELSE n - 1) /\ at[D2H] >= n
    BY <1>1, <1>2, <1>3 DEF Requests
  <2> QED
    BY <1>2, <1>3, <1>5, <1>8, <2>1, <2>2 DEF Requests
<1>10. Reading(d, at, ph)'
  <2>1. ~Serving'
    BY <1>2, NotServing DEF Serving, Serial, HostFrame, workload
  <2>2. Launched' = Launched /\ sync_steps' = sync_steps
    BY <1>2, <1>5 DEF Launched, HostFrame, workload
  <2>3. (sync_steps => Enqueued(d, at, ph, Reader) >= 3 * (Launched - 1))'
    BY <1>1, <1>8, <2>2 DEF Reading
  <2>4. Enqueued(d, at, ph, Reader)' = 3 * (reqSeq' - d - 1) /\ at[Reader] = reqSeq'
    BY <1>1, <1>2, <1>3, <1>8 DEF Reading
  <2> QED
    BY <1>2, <1>3, <2>1, <2>3, <2>4 DEF Reading, Serving
<1>11. D2H \in {D2H, Reader} /\ req' \in Requesting \ {"stage", "stopped"} /\ req # "get"
       /\ req' \notin {"wake", "fail"} /\ Len(ops) <= 3
  BY <1>2, <1>7 DEF Requesting
<1>12. /\ reqSeq > d /\ Enqueued(d, at, ph, D2H) = 3 * (reqSeq - d - 1)
       /\ \A i \in 1..Len(ops) : ops[i] = Script(d, D2H, reqSeq)[i]
       /\ reqSeq \in records \ completed /\ recorded'["d2h_done"] = reqSeq - d
       /\ Enqueued(d, at, ph, D2H)' = 3 * recorded'["d2h_done"]
  BY <1>3, <1>5, <1>6, <1>7, <1>8
<1> HIDE DEF n, ops
<1> QED
  BY <1>2, <1>3, <1>4, <1>5, <1>7, <1>9, <1>10, <1>11, <1>12, RequestPushes

\* The reader is given operations ops of the step it serves, all of them or not.
LEMMA ReadsKeep ==
    ASSUME NEW d \in 0..MaxStep, NEW at, NEW ph, IInv(d, at, ph), HostFrame, req = "produce",
           UNCHANGED <<recorded, hosts, conn, reqSeq, rows>>, NEW ops, queue' = On(Reader, ops),
           \/ ops = <<WaitValue(0), Op("gather", rows), WriteValue(1)>> /\ req' = "complete"
           \/ /\ ops \in {<<WaitValue(0), Op("gather", rows)>>, <<WaitValue(0)>>}
              /\ req' = "fail" /\ faults # {}
    PROVE  IInv(d, at, ph)'
<1> DEFINE n == reqSeq
           l == Len(ops)
<1>1. /\ Shape /\ Served(d) /\ Requests(d, at, ph) /\ Reading(d, at, ph) /\ d \in Nat
      /\ n \in Nat /\ n <= MaxStep /\ Launched \in Nat /\ recorded["d2h_done"] \in Nat
      /\ recorded \in [Events -> Nat] /\ Cursors(d, at, ph) /\ Queues(d, at, ph) /\ MaxStep \in Nat
      /\ Reader \in Scripted /\ mailbox \in Nat \cup {-1}
  BY OfR
<1>2. /\ n # 0 /\ n > d /\ n \in records \ completed /\ rows = n
      /\ Enqueued(d, at, ph, Reader) = 3 * (n - d - 1) /\ at[Reader] = n
      /\ recorded["d2h_done"] = n - d /\ Enqueued(d, at, ph, D2H) = 3 * recorded["d2h_done"]
  <2>1. n # 0 /\ n > d /\ n \in records \ completed
    BY <1>1 DEF Served
  <2>2. /\ rows = n /\ recorded["d2h_done"] = n - d
        /\ Enqueued(d, at, ph, D2H) = 3 * recorded["d2h_done"]
    BY <1>1, <2>1 DEF Requests
  <2> QED
    BY <1>1, <2>1, <2>2 DEF Reading
<1>3. UNCHANGED <<pc, step, verify, digest, finished, active, records, completed, released,
                  mailbox, enqueued, error, closed, reqSeq, rows, recorded, sync_steps, kind>>
  BY DEF hosts, conn, HostFrame, workload
<1>4. /\ ops \in Seq(Ops) /\ l \in {1, 2, 3} /\ (l = 3 <=> req' = "complete")
      /\ \A i \in 1..l : ops[i] = Script(d, Reader, n)[i]
  <2>1. n \in Steps /\ 0 \in 0..MaxStep /\ "d2h_done" \in Events
    BY <1>1, <1>2 DEF Steps, Events
  <2>2. Script(d, Reader, n) = <<WaitValue(0), Op("gather", n), WriteValue(1)>>
    BY Scripts DEF ReadScript
  <2> HIDE DEF n
  <2>3. /\ <<WaitValue(0), Op("gather", n), WriteValue(1)>> \in Seq(Ops)
        /\ <<WaitValue(0), Op("gather", n)>> \in Seq(Ops) /\ <<WaitValue(0)>> \in Seq(Ops)
    BY <2>1, Enqueuing
  <2>4. CASE ops = <<WaitValue(0), Op("gather", n), WriteValue(1)>> /\ req' = "complete"
    BY <2>2, <2>3, <2>4
  <2>5. CASE ops = <<WaitValue(0), Op("gather", n)>> /\ req' = "fail"
    BY <2>2, <2>3, <2>5
  <2>6. CASE ops = <<WaitValue(0)>> /\ req' = "fail"
    BY <2>2, <2>3, <2>6
  <2> QED
    BY <1>2, <2>4, <2>5, <2>6
<1>5. /\ Enqueued(d, at, ph, Reader)' = 3 * (n - d - 1) + l
      /\ Enqueued(d, at, ph, D2H)' = Enqueued(d, at, ph, D2H)
  <2>1. Base(d, Reader, n) = 3 * (n - d - 1) /\ Size(d, Reader, n) = 3 /\ n \in Steps
    <3>1. Size(d, Reader, n) = 3
      BY <1>1, <1>2 DEF Size, RealSize, Reader, Main
    <3> QED
      BY <1>1, <1>2, <3>1, Bases DEF Steps
  <2>2. /\ Enqueued(d, at, ph, Reader) = Base(d, Reader, n) + 0 /\ 0 \in Nat
        /\ 0 + Len(ops) <= Size(d, Reader, n)
        /\ \A i \in 1..Len(ops) : ops[i] = Script(d, Reader, n)[0 + i]
    BY <1>1, <1>2, <1>4, <2>1
  <2>3. /\ d \in 0..MaxStep /\ Shape /\ Cursors(d, at, ph) /\ Queues(d, at, ph) /\ Reader \in Scripted
        /\ n \in Steps /\ ops \in Seq(Ops) /\ queue' = On(Reader, ops)
    BY <1>1, <1>4, <2>1
  <2> HIDE DEF n
  <2>4. /\ Enqueued(d, at, ph, Reader)' = Base(d, Reader, n) + 0 + Len(ops)
        /\ \A t \in Streams \ {Reader} : Enqueued(d, at, ph, t)' = Enqueued(d, at, ph, t)
    BY ONLY <2>2, <2>3, Push
  <2>5. D2H \in Streams \ {Reader} /\ n \in Nat
    BY <1>1 DEF Streams, D2H, Reader
  <2> QED
    BY <1>1, <1>4, <2>1, <2>4, <2>5
<1>6. Requests(d, at, ph)'
  <2>1. /\ enqueued = n /\ at[D2H] >= n /\ at[D2H] = n + 1
    BY <1>1, <1>2 DEF Requests
  <2> QED
    BY <1>2, <1>3, <1>5, <2>1 DEF Requests
<1>7. Reading(d, at, ph)'
  <2>1. ~Serving'
    BY <1>3, NotServing DEF Serving, Serial
  <2>2. (sync_steps => Enqueued(d, at, ph, Reader) >= 3 * (Launched - 1))'
    <3>1. sync_steps => Enqueued(d, at, ph, Reader) >= 3 * (Launched - 1)
      BY <1>1 DEF Reading
    <3>2. Launched' = Launched
      BY <1>3 DEF Launched
    <3> HIDE DEF n, l
    <3> QED
      BY <1>1, <1>2, <1>3, <1>4, <1>5, <3>1, <3>2
  <2>3. CASE req' = "complete"
    <3>1. Enqueued(d, at, ph, Reader)' = 3 * (reqSeq' - d)
      <4>1. l = 3 /\ reqSeq' = n
        BY <1>3, <1>4, <2>3
      <4> HIDE DEF n, l
      <4> QED
        BY <1>1, <1>5, <4>1
    <3> QED
      BY <1>2, <1>3, <2>1, <2>2, <2>3, <3>1 DEF Reading, Serving
  <2>4. CASE req' = "fail"
    <3>1. faults # {} /\ l \in {1, 2}
      BY <1>4, <2>4
    <3>2. mailbox <= 0
      <4>1. sync_steps => Enqueued(d, at, ph, Reader) >= 3 * (Launched - 1)
        BY <1>1 DEF Reading
      <4>2. sync_steps
        BY <1>1, <3>1 DEF Shape
      <4>3. mailbox > 0 => mailbox = d + Launched /\ n = mailbox - 1
        BY <1>1, <1>2 DEF Served
      <4> HIDE DEF n, l
      <4> QED
        BY <1>1, <1>2, <4>1, <4>2, <4>3
    <3>3. Broken(d, at, ph)'
      <4>1. Enqueued(d, at, ph, Reader)' \in {3 * (n - d) - 1, 3 * (n - d) - 2}
        <5> HIDE DEF n, l
        <5> QED
          BY <1>1, <1>5, <3>1
      <4> QED
        BY <1>3, <4>1 DEF Broken
    <3> HIDE DEF Broken
    <3> QED
      BY <1>2, <1>3, <2>1, <2>2, <2>4, <3>2, <3>3 DEF Reading, Serving
  <2> QED
    BY <2>3, <2>4
<1> DEFINE s == Reader
<1>8. /\ s \in {D2H, Reader} /\ req' \in Requesting \ {"stage", "stopped"} /\ req # "get"
      /\ req' # "wake" /\ (req' = "fail" => faults # {}) /\ Len(ops) <= 3
      /\ (req' = "notify" => ~(mailbox > 0))
  BY <1>4 DEF Requesting
<1>9. /\ reqSeq > d /\ Enqueued(d, at, ph, s) = 3 * (reqSeq - d - 1)
      /\ (\A i \in 1..Len(ops) : ops[i] = Script(d, s, reqSeq)[i])
      /\ ops \in Seq(Ops) /\ queue' = On(s, ops) /\ recorded'["d2h_done"] = reqSeq - d
      /\ (req' \notin {"get", "wake", "stopped"} => reqSeq \in records \ completed)
      /\ Enqueued(d, at, ph, D2H)' = 3 * recorded'["d2h_done"]
  BY <1>2, <1>3, <1>4, <1>5
<1>10. recorded' \in [Events -> Nat] /\ (\A e \in Events \ {"d2h_done"} : recorded'[e] = recorded[e])
  BY <1>1, <1>3
<1>11. d \in 0..MaxStep /\ IInv(d, at, ph) /\ HostFrame
  OBVIOUS
<1>12. UNCHANGED <<pc, step, verify, digest, finished, active, records, completed, released,
                   mailbox, enqueued, error, closed, reqSeq, rows>>
  BY <1>3
<1> HIDE DEF n, l, s
<1> QED
  BY ONLY <1>6, <1>7, <1>8, <1>9, <1>10, <1>11, <1>12, RequestPushes

LEMMA WakeKeeps ==
    ASSUME NEW d \in 0..MaxStep, NEW at, NEW ph, IInv(d, at, ph), Wake
    PROVE  IInv(d, at, ph)'
<1>1. /\ Shape /\ Queues(d, at, ph) /\ Owned(d) /\ Served(d) /\ Requests(d, at, ph)
      /\ Reading(d, at, ph) /\ Recorded(d) /\ Faulty /\ d \in Nat /\ reqSeq \in Nat
  BY OfR
<1>2. /\ req = "wake" /\ req' = "get" /\ queue' = Wakeup /\ HostFrame
      /\ UNCHANGED <<recorded, pc, step, verify, digest, finished, active, records, completed,
                     released, mailbox, enqueued, error, closed, reqSeq, rows, sync_steps, kind,
                     faults>>
  BY DEF Wake, HostFrame, hosts, conn, workload
<1>3. /\ Queues(d, at, ph)' /\ Grown
      /\ \A t \in Streams \ {Error} : /\ queue'[t] = queue[t]
                                      /\ Enqueued(d, at, ph, t)' = Enqueued(d, at, ph, t)
                                      /\ Idle(t)' = Idle(t)
  BY <1>1, <1>2, PushError
<1>4. Shape'
  BY <1>1, <1>2, <1>3 DEF Shape, Grown, Requesting, HostFrame, workload
<1>5. Clean' => Clean
  BY <1>2 DEF Clean
<1>6. /\ Enqueued(d, at, ph, D2H)' = Enqueued(d, at, ph, D2H)
      /\ Enqueued(d, at, ph, Reader)' = Enqueued(d, at, ph, Reader)
      /\ Launched' = Launched
  <2>1. D2H \in Streams \ {Error} /\ Reader \in Streams \ {Error}
    BY DEF Streams, D2H, Reader, Error
  <2> QED
    BY <1>2, <1>3, <2>1 DEF Launched
<1>7. error /\ pc[0] # "result"
  BY <1>1, <1>2 DEF Faulty
<1>8. reqSeq # 0
  BY <1>1, <1>2 DEF Served
<1>9. Owned(d)'
  BY <1>1, <1>2 DEF Owned
<1>10. Served(d)'
  BY <1>1, <1>2, <1>6 DEF Served
<1>11. Requests(d, at, ph)'
  BY <1>1, <1>2, <1>6, <1>8 DEF Requests
<1>12. Reading(d, at, ph)'
  <2>1. ~Serving'
    BY <1>2, NotServing DEF Serving, Serial
  <2>2. Broken(d, at, ph)' <=> Broken(d, at, ph)
    BY <1>2, <1>6 DEF Broken
  <2> HIDE DEF Broken
  <2>3. mailbox <= 0 /\ Broken(d, at, ph)
    BY <1>1, <1>2, <1>8 DEF Reading
  <2>4. (sync_steps => Enqueued(d, at, ph, Reader) >= 3 * (Launched - 1))'
    BY <1>1, <1>2, <1>6 DEF Reading
  <2> QED
    BY <1>2, <1>7, <1>8, <2>1, <2>2, <2>3, <2>4 DEF Reading, Serving
<1>13. Recorded(d)'
  BY <1>1, <1>2 DEF Recorded
<1>14. Faulty'
  BY <1>1, <1>2, <1>7 DEF Faulty
<1>15. /\ \A e \in Events \ {"d2h_done"} : recorded'[e] = recorded[e]
       /\ \A t \in Streams \ {D2H, Reader, Error} :
             Enqueued(d, at, ph, t)' = Enqueued(d, at, ph, t)
  BY <1>2, <1>3
<1> QED
  BY <1>2, <1>3, <1>4, <1>5, <1>9, <1>10, <1>11, <1>12, <1>13, <1>14, <1>15, RequestStep

LEMMA RequestKeeps ==
    ASSUME NEW d \in 0..MaxStep, NEW at, NEW ph, IInv(d, at, ph), Request \/ ReadFails
    PROVE  IInv(d, at, ph)'
<1>1. CASE Produce
  <2> DEFINE ops == <<WaitValue(0), Op("gather", rows), WriteValue(1)>>
  <2>1. /\ HostFrame /\ req = "produce" /\ req' = "complete" /\ queue' = On(Reader, ops)
        /\ UNCHANGED <<recorded, hosts, conn, reqSeq, rows>>
        /\ ops = <<WaitValue(0), Op("gather", rows), WriteValue(1)>>
    BY <1>1 DEF Produce, HostFrame
  <2> HIDE DEF ops
  <2> QED
    BY <2>1, ReadsKeep
<1>2. CASE ReadFails
  <2>1. /\ HostFrame /\ req = "produce" /\ req' = "fail" /\ faults # {}
        /\ UNCHANGED <<recorded, hosts, conn, reqSeq, rows>>
    BY <1>2 DEF ReadFails, HostFrame
  <2>2. PICK o \in {<<>>, <<Op("gather", rows)>>} : queue' = On(Reader, <<WaitValue(0)>> \o o)
    BY <1>2 DEF ReadFails
  <2> DEFINE ops == <<WaitValue(0)>> \o o
  <2>3. ops \in {<<WaitValue(0), Op("gather", rows)>>, <<WaitValue(0)>>}
    <3>1. rows \in 0..(MaxStep + 1) /\ 0 \in 0..(MaxStep + 1)
      BY OfR, StepAssumption DEF Shape, Contents
    <3>2. WaitValue(0) \in Ops /\ Op("gather", rows) \in Ops
      BY <3>1 DEF WaitValue, Op, Ops, Moves
    <3>3. CASE o = <<>>
      BY <3>2, <3>3
    <3>4. CASE o = <<Op("gather", rows)>>
      BY <3>2, <3>4, Pair
    <3> QED
      BY <2>2, <3>3, <3>4
  <2>4. queue' = On(Reader, ops)
    BY <2>2
  <2> HIDE DEF ops
  <2> QED
    BY <2>1, <2>3, <2>4, ReadsKeep
<1> QED
  BY <1>1, <1>2, GetKeeps, StageCopiesKeeps, NotifyKeeps, SyncCopiesKeeps, PlanKeeps, CompleteKeeps,
     FailKeeps, WakeKeeps DEF Request

-----------------------------------------------------------------------------
(* The invariant holds at first and is kept.                               *)

LEMMA StoppedKeeps ==
    ASSUME NEW d \in 0..MaxStep, NEW at, NEW ph, IInv(d, at, ph), UNCHANGED vars
    PROVE  IInv(d, at, ph)'
<1>1. /\ HostFrame /\ UNCHANGED <<workload, recorded, hosts, conn, rqst>> /\ queue' = queue
      /\ error' = error /\ pc' = pc /\ finished' = finished
  BY DEF vars, gpu, HostFrame, workload, hosts, conn, rqst
<1>2. Shape /\ Cursors(d, at, ph) /\ Queues(d, at, ph)
  BY DEF IInv
<1>3. /\ Queues(d, at, ph)' /\ Grown /\ \A s : Idle(s)' = Idle(s)
      /\ \A s : Enqueued(d, at, ph, s)' = Enqueued(d, at, ph, s)
  BY <1>1, <1>2, Same
<1>4. Shape'
  BY <1>1, <1>2 DEF Shape, HostFrame, workload, hosts, conn, rqst
<1>5. Follows(d, at, ph, at, ph)
  <2>1. \A s \in Scripted : at[s] \in Nat /\ ph[s] \in Nat
    BY <1>2, CursorFacts
  <2> QED
    BY <1>3, <2>1 DEF Follows
<1>6. Clean' => Clean
  BY <1>1 DEF Clean
<1>7. /\ Mains(d, at, ph)' /\ Counts(d, at, ph)' /\ Kinded(d)' /\ Ranked(d, at, ph)'
      /\ Owned(d)' /\ Served(d)' /\ Requests(d, at, ph)' /\ Reading(d, at, ph)'
      /\ Recorded(d)' /\ Faulty'
  BY <1>1, <1>5, HostsKept
<1>8. Threads(d, at, ph)'
  BY <1>7 DEF Threads
<1> QED
  BY <1>1, <1>3, <1>4, <1>6, <1>7, <1>8, HostStep

LEMMA Kept == Inv /\ [Next]_vars => Inv'
<1> SUFFICES ASSUME NEW d \in 0..MaxStep, NEW at, NEW ph, IInv(d, at, ph), [Next]_vars
             PROVE  \E a, p : IInv(d, a, p)'
  BY DEF Inv
<1>1. CASE \E s \in Streams : Device(s)
  BY <1>1, DeviceKeeps
<1>2. CASE Collective
  BY <1>2, CollectiveKeeps
<1>3. CASE \E r \in Ranks : Host(r)
  <2>1. Host(0) \/ Host(1)
    BY <1>3 DEF Ranks
  <2>2. IInv(d, at, ph)'
    BY <2>1, Host0Keeps, Host1Keeps
  <2> QED
    BY <2>2
<1>4. CASE Rendezvous \/ HandoffTimeout \/ Request \/ ReadFails
  <2>1. IInv(d, at, ph)'
    BY <1>4, RendezvousKeeps, HandoffTimeoutKeeps, RequestKeeps
  <2> QED
    BY <2>1
<1>5. CASE Stopped \/ UNCHANGED vars
  <2>1. IInv(d, at, ph)'
    BY <1>5, StoppedKeeps DEF Stopped
  <2> QED
    BY <2>1
<1> QED
  BY <1>1, <1>2, <1>3, <1>4, <1>5 DEF Next

\* A set of numbers has a least one.
LEMMA Least ==
    ASSUME NEW T \in SUBSET Nat, T # {}
    PROVE  \E n \in T : \A m \in T : n <= m
<1>1. \A m, n \in Nat : <<m, n>> \in OpToRel(<, Nat) <=> m < n
  BY ZenonT(30) DEF OpToRel
<1>2. PICK n \in T : \A m \in T : ~(<<m, n>> \in OpToRel(<, Nat))
  BY NatLessThanWellFounded, WFMin, Zenon
<1>3. \A m \in T : ~(m < n)
  BY <1>1, <1>2, Zenon
<1> QED
  BY <1>3

\* A workload begins with dummy steps and goes on with real ones.
LEMMA Prefix ==
    ASSUME kind \in Workloads
    PROVE  \E d \in 0..MaxStep : Dummies(d)
<1>1. MaxStep \in Nat \ {0}
  BY StepAssumption
<1>2. \A n \in Steps \ {1} : ~Real(n) => ~Real(n-1)
  BY DEF Workloads, Real
<1> DEFINE T == {m \in 0..MaxStep : \A n \in Steps : n > m => Real(n)}
<1>3. T \in SUBSET Nat /\ MaxStep \in T
  BY <1>1 DEF Steps
<1>4. PICK d \in T : \A m \in T : d <= m
  <2> HIDE DEF T
  <2> QED
    BY <1>3, Least
<1>5. d \in 0..MaxStep /\ \A n \in Steps : n > d => Real(n)
  BY <1>4
<1>6. d # 0 => ~Real(d)
  <2> SUFFICES ASSUME d # 0, Real(d) PROVE FALSE
    OBVIOUS
  <2>1. d - 1 \in 0..MaxStep /\ d \in Nat
    BY <1>1, <1>5
  <2>2. \A n \in Steps : n > d - 1 => n = d \/ n > d
    BY <1>1, <1>5 DEF Steps
  <2>3. d - 1 \in T
    BY <1>5, <2>1, <2>2
  <2>4. d <= d - 1
    BY <1>4, <2>3
  <2> QED
    BY <2>1, <2>4
<1> DEFINE U == {m \in 0..d : m < d /\ Real(d - m)}
<1>7. U = {}
  <2> SUFFICES ASSUME U # {} PROVE FALSE
    OBVIOUS
  <2>1. U \in SUBSET Nat
    BY <1>1, <1>5
  <2>2. PICK u \in U : \A m \in U : u <= m
    <3> HIDE DEF U
    <3> QED
      BY <2>1, Least
  <2>3. u \in 0..d /\ u < d /\ Real(d - u) /\ d \in Nat /\ d <= MaxStep
    BY <1>1, <1>5, <2>2
  <2>4. u # 0
    BY <1>6, <2>3
  <2>5. u - 1 \in 0..d /\ u - 1 < d
    BY <2>3, <2>4
  <2>6. ~Real(d - (u - 1))
    <3>1. u - 1 \in U => u <= u - 1
      BY <2>2
    <3>2. u - 1 \notin U
      BY <2>3, <3>1
    <3> QED
      BY <2>5, <3>2
  <2>7. d - (u - 1) \in Steps \ {1} /\ d - (u - 1) - 1 = d - u
    BY <1>1, <2>3, <2>4 DEF Steps
  <2> QED
    BY <1>2, <2>3, <2>6, <2>7
<1>8. ASSUME NEW n \in Steps, n <= d PROVE ~Real(n)
  <2>1. d - n \in 0..d /\ d - n < d /\ d - (d - n) = n
    BY <1>1, <1>5, <1>8 DEF Steps
  <2> QED
    BY <1>7, <2>1
<1>9. \A n \in Steps : n \in Nat
  BY <1>1 DEF Steps
<1> QED
  BY <1>1, <1>5, <1>8, <1>9 DEF Dummies

LEMMA StartsShape == ASSUME Init PROVE Shape
<1> USE StepAssumption DEF Init
<1>1. 0 \in Contents /\ -1 \in Contents \cup {-1} /\ VerifySteps \in 0..VerifySteps /\ 0 \in Nat
  BY DEF Contents
<1>2. /\ sync_steps \in Dispatch /\ faults \in Faults /\ kind \in Workloads
      /\ (faults # {} => sync_steps) /\ busy \subseteq Streams
  OBVIOUS
<1>3. queue \in [Streams -> Seq(Ops)]
  <2>1. <<>> \in Seq(Ops)
    OBVIOUS
  <2> QED
    BY <2>1
<1>4. /\ recorded \in [Events -> Nat] /\ fired \in [Events -> Nat] /\ flag \in [Ranks -> {0, 1}]
      /\ inputs \in Contents /\ pinned \in Contents /\ output \in [Ranks -> Contents]
  BY <1>1
<1>5. got \in [Ranks -> [Steps -> Contents \cup {-1}]]
  BY <1>1
<1>6. pc \in [Ranks -> Labels] /\ pc[1] \in Labels1
  BY DEF Labels, Labels1, Ranks
<1>7. /\ step \in [Ranks -> Contents] /\ verify \in [Ranks -> 0..VerifySteps]
      /\ digest \in [Ranks -> Contents] /\ finished \in Contents
  BY <1>1
<1>8. /\ active \in Contents /\ enqueued \in Contents /\ reqSeq \in Contents
      /\ rows \in Contents /\ mailbox \in Contents \cup {-1}
      /\ records \subseteq Steps /\ completed \subseteq Steps /\ released \subseteq Steps
      /\ error \in BOOLEAN /\ closed \in BOOLEAN /\ req \in Requesting
  BY <1>1 DEF Requesting
<1> QED
  BY <1>2, <1>3, <1>4, <1>5, <1>6, <1>7, <1>8 DEF Shape

LEMMA Starts == Init => Inv
<1> SUFFICES ASSUME Init PROVE Inv
  OBVIOUS
<1>1. Shape /\ MaxStep \in Nat \ {0} /\ kind \in Workloads
  BY StartsShape, StepAssumption DEF Init
<1>2. PICK d \in 0..MaxStep : Dummies(d)
  BY <1>1, Prefix
<1> DEFINE at == [s \in Streams |-> IF s \in {Main(0), Main(1), Error} THEN 1 ELSE d + 1]
           ph == [s \in Streams |-> 0]
<1>3. d \in Nat /\ d <= MaxStep
  BY <1>1
<1>4. /\ at[Main(0)] = 1 /\ at[Main(1)] = 1 /\ at[Tp(0)] = d + 1 /\ at[Tp(1)] = d + 1
      /\ at[D2H] = d + 1 /\ at[Reader] = d + 1
      /\ \A s \in Streams : ph[s] = 0
      /\ ph[Main(0)] = 0 /\ ph[Main(1)] = 0 /\ ph[Tp(0)] = 0 /\ ph[Tp(1)] = 0 /\ ph[D2H] = 0
      /\ ph[Reader] = 0
      /\ \A r \in Ranks : at[Tp(r)] = d + 1
  BY StreamFacts DEF Ranks
<1>5. at \in [Streams -> 1..(MaxStep + 1)] /\ ph \in [Streams -> 0..6]
  BY <1>1, <1>3
<1> HIDE DEF at, ph
<1>6. \A s \in Streams : queue[s] = <<>> /\ Len(queue[s]) = 0 /\ Idle(s)
  BY DEF Init, Idle
<1>7. /\ \A e \in Events : recorded[e] = 0 /\ fired[e] = 0
      /\ recorded["input_ready"] = 0 /\ recorded["d2h_done"] = 0
      /\ recorded["done0"] = 0 /\ recorded["done1"] = 0
      /\ fired["input_ready"] = 0 /\ fired["d2h_done"] = 0
      /\ fired["done0"] = 0 /\ fired["done1"] = 0
      /\ \A r \in Ranks : recorded[Done(r)] = 0
  BY DEF Init, Events, Done
<1>8. /\ \A r \in Ranks : /\ flag[r] = 0 /\ output[r] = 0 /\ pc[r] = "idle" /\ step[r] = 0
                          /\ verify[r] = VerifySteps /\ digest[r] = 0
                          /\ \A n \in Steps : got[r][n] = -1
      /\ 0 \in Ranks /\ 1 \in Ranks
  BY DEF Init, Ranks
<1>9. /\ busy = {} /\ inputs = 0 /\ pinned = 0 /\ finished = 0 /\ active = 0 /\ records = {}
      /\ completed = {} /\ released = {} /\ mailbox = 0 /\ enqueued = 0 /\ error = FALSE
      /\ closed = FALSE /\ req = "get" /\ reqSeq = 0 /\ rows = 0
  BY DEF Init
<1>10. Cursors(d, at, ph)
  <2>1. ASSUME NEW s \in Scripted PROVE ph[s] < Size(d, s, at[s])
    <3>1. ph[s] = 0 /\ RealSize(s) \in {3, 4, 7}
      BY <1>4, SizesOf DEF Scripted
    <3>2. CASE s \in {Main(0), Main(1)}
      BY <1>3, <1>4, <3>1, <3>2, Sizes DEF Size
    <3>3. CASE s \notin {Main(0), Main(1)}
      BY <1>3, <1>4, <3>1, <3>3, StreamFacts DEF Size
    <3> QED
      BY <3>2, <3>3
  <2> QED
    BY <1>5, <2>1 DEF Cursors
<1>11. Queues(d, at, ph)
  BY <1>6, StreamFacts DEF Queues
<1>12. Under
  BY <1>9 DEF Under
<1>13. /\ \A s \in Streams : Enqueued(d, at, ph, s) = Executed(d, at, ph, s) + 0
       /\ Executed(d, at, ph, Main(0)) = Base(d, Main(0), 1) + 0
       /\ Executed(d, at, ph, Main(1)) = Base(d, Main(1), 1) + 0
       /\ Executed(d, at, ph, Tp(0)) = Base(d, Tp(0), d + 1) + 0
       /\ Executed(d, at, ph, Tp(1)) = Base(d, Tp(1), d + 1) + 0
       /\ Executed(d, at, ph, D2H) = Base(d, D2H, d + 1) + 0
       /\ Executed(d, at, ph, Reader) = Base(d, Reader, d + 1) + 0
  BY <1>4, <1>6 DEF Enqueued, Executed
<1>14. /\ Base(d, Main(0), 1) = 0 /\ Base(d, Main(1), 1) = 0 /\ Base(d, Tp(0), d + 1) = 0
       /\ Base(d, Tp(1), d + 1) = 0 /\ Base(d, D2H, d + 1) = 0 /\ Base(d, Reader, d + 1) = 0
  <2>1. 1 > d <=> d = 0
    BY <1>3
  <2>2. /\ Base(d, Main(0), 1) = IF 1 > d THEN 6 * d + 7 * (1 - d - 1) ELSE 6 * (1 - 1)
        /\ Base(d, Main(1), 1) = IF 1 > d THEN 5 * d + 4 * (1 - d - 1) ELSE 5 * (1 - 1)
    BY <1>3, Bases
  <2>3. /\ \A r \in Ranks : Base(d, Tp(r), d + 1) = 4 * (d + 1 - d - 1)
        /\ Base(d, D2H, d + 1) = 3 * (d + 1 - d - 1) /\ Base(d, Reader, d + 1) = 3 * (d + 1 - d - 1)
    <3> DEFINE n == d + 1
    <3>1. n \in Nat /\ n > d
      BY <1>3
    <3> HIDE DEF n
    <3>2. /\ \A r \in Ranks : Base(d, Tp(r), n) = 4 * (n - d - 1)
          /\ Base(d, D2H, n) = 3 * (n - d - 1) /\ Base(d, Reader, n) = 3 * (n - d - 1)
      BY <1>3, <3>1, Bases
    <3> QED
      BY <3>2 DEF n
  <2> QED
    BY <1>3, <1>8, <2>1, <2>2, <2>3
<1>15. /\ Enqueued(d, at, ph, Main(0)) = 0 /\ Enqueued(d, at, ph, Main(1)) = 0
       /\ Enqueued(d, at, ph, Tp(0)) = 0 /\ Enqueued(d, at, ph, Tp(1)) = 0
       /\ Enqueued(d, at, ph, D2H) = 0 /\ Enqueued(d, at, ph, Reader) = 0
       /\ \A r \in Ranks : Enqueued(d, at, ph, Tp(r)) = 0
  BY <1>13, <1>14, StreamFacts DEF Ranks
<1>16. Device0(d, at, ph)
  <2>1. \A s \in {Tp(0), Tp(1), D2H, Reader} : at[s] > d
    BY <1>3, <1>4
  <2>2. Fires(d, at, ph)
    BY <1>3, <1>4, <1>7 DEF Fires
  <2>3. Copying(d, at[Main(0)], ph[Main(0)], at[D2H], ph[D2H], inputs, pinned)
    BY <1>3, <1>4, <1>9 DEF Copying
  <2>4. Sending(d, at[Main(0)], ph[Main(0)], at[D2H], at[Tp(0)], ph[Tp(0)])
    BY <1>3, <1>4 DEF Sending
  <2>5. Matched(at[Tp(0)], ph[Tp(0)], at[Tp(1)], ph[Tp(1)])
    BY <1>3, <1>4 DEF Matched
  <2>6. Producing(d, at[Main(0)], ph[Main(0)], at[D2H], at[Tp(0)], ph[Tp(0)],
                  at[Reader], ph[Reader], flag[0], output[0])
    BY <1>3, <1>4, <1>8 DEF Producing
  <2>7. Consumption(d, got[0], at[Main(0)], Consumed0(ph[Main(0)]))
    <3>1. \A m \in Steps : ~(m < 1)
      BY DEF Steps
    <3> QED
      BY <1>4, <1>8, <3>1 DEF Consumption, Consumed0
  <2>8. \A m \in 1..finished : m < at[Main(0)] /\ got[0][m] = Val(d, m)
    BY <1>9
  <2> QED
    BY <2>1, <2>2, <2>3, <2>4, <2>5, <2>6, <2>7, <2>8 DEF Device0
<1>17. Device1(d, at, ph)
  <2>1. Receiving(d, at[Main(1)], ph[Main(1)], at[Tp(1)], ph[Tp(1)], flag[1])
    BY <1>3, <1>4, <1>8 DEF Receiving
  <2>2. Received(d, at[Main(1)], ph[Main(1)], at[Tp(1)], ph[Tp(1)], output[1])
    BY <1>3, <1>4, <1>8 DEF Received
  <2>3. Consumption(d, got[1], at[Main(1)], Consumed1(d, at[Main(1)], ph[Main(1)]))
    <3>1. \A m \in Steps : ~(m < 1)
      BY DEF Steps
    <3> QED
      BY <1>4, <1>8, <3>1 DEF Consumption, Consumed1
  <2> QED
    BY <2>1, <2>2, <2>3 DEF Device1
<1>18. Mains(d, at, ph)
  <2>1. MainAt0(d, 0, "idle", 0)
    BY <1>14 DEF MainAt0, Resting
  <2>2. MainAt1(d, 0, "idle", 0)
    BY <1>14 DEF MainAt1
  <2> QED
    BY <1>8, <1>15, <2>1, <2>2 DEF Mains
<1>19. Counts(d, at, ph)
  BY <1>3, <1>7, <1>8, <1>15 DEF Counts, Counted, Transfers
<1>20. Kinded(d)
  BY <1>8 DEF Kinded, KindedAt
<1>21. \A r \in Ranks, n \in Steps : \A labels : ~Past(r, n, labels)
  <2>1. \A n \in Steps : n \in Nat /\ n > 0
    BY DEF Steps
  <2> QED
    BY <1>8, <2>1 DEF Past
<1>22. Ranked(d, at, ph)
  BY <1>3, <1>4, <1>8, <1>21 DEF Ranked, Together
<1>23. Owned(d) /\ Served(d)
  BY <1>3, <1>7, <1>8, <1>9 DEF Owned, Served, Resting, Launched
<1>24. Requests(d, at, ph) /\ Reading(d, at, ph)
  BY <1>3, <1>7, <1>8, <1>9, <1>15 DEF Requests, Reading, Launched
<1>25. Recorded(d)
  <2>1. \A n \in Steps : n \in Nat /\ n > 0
    BY DEF Steps
  <2> QED
    BY <1>8, <1>9, <2>1 DEF Recorded
<1>26. Faulty
  BY <1>6, <1>8, <1>9, StreamFacts DEF Faulty
<1>27. IInv(d, at, ph)
  BY <1>1, <1>2, <1>10, <1>11, <1>12, <1>16, <1>17, <1>18, <1>19, <1>20, <1>22, <1>23, <1>24,
     <1>25, <1>26 DEF IInv
<1> QED
  BY <1>27 DEF Inv

-----------------------------------------------------------------------------
(* What follows from the invariant.                                        *)

\* The parts that speak of no cursor.
LEMMA Fixed ==
    ASSUME NEW d \in 0..MaxStep, NEW at, NEW ph, IInv(d, at, ph)
    PROVE  /\ Shape /\ Dummies(d) /\ Cursors(d, at, ph) /\ Queues(d, at, ph) /\ Under
           /\ Device0(d, at, ph) /\ Device1(d, at, ph) /\ Mains(d, at, ph) /\ Counts(d, at, ph)
           /\ Kinded(d) /\ Ranked(d, at, ph) /\ Owned(d) /\ Served(d) /\ Requests(d, at, ph)
           /\ Reading(d, at, ph) /\ Recorded(d) /\ Faulty
           /\ d \in Nat /\ MaxStep \in Nat \ {0}
           /\ \A n \in Steps : n \in Nat /\ n >= 1 /\ n <= MaxStep /\ (Real(n) <=> n > d)
           /\ \A r \in Ranks : step[r] \in Nat /\ step[r] <= MaxStep
           /\ 0 \in Ranks /\ 1 \in Ranks
           /\ reqSeq \in Nat /\ reqSeq <= MaxStep /\ finished \in Nat /\ finished <= MaxStep
           /\ recorded \in [Events -> Nat] /\ fired \in [Events -> Nat]
<1>1. /\ Shape /\ Dummies(d) /\ Cursors(d, at, ph) /\ Queues(d, at, ph) /\ Under
      /\ Device0(d, at, ph) /\ Device1(d, at, ph) /\ Mains(d, at, ph) /\ Counts(d, at, ph)
      /\ Kinded(d) /\ Ranked(d, at, ph) /\ Owned(d) /\ Served(d) /\ Requests(d, at, ph)
      /\ Reading(d, at, ph) /\ Recorded(d) /\ Faulty
  BY DEF IInv
<1>2. d \in Nat /\ MaxStep \in Nat \ {0} /\ 0 \in Ranks /\ 1 \in Ranks
  BY StepAssumption DEF Ranks
<1>3. \A n \in Steps : n \in Nat /\ n >= 1 /\ n <= MaxStep /\ (Real(n) <=> n > d)
  BY <1>1, <1>2 DEF Steps, Dummies
<1>4. \A r \in Ranks : step[r] \in Nat /\ step[r] <= MaxStep
  <2>1. step \in [Ranks -> Contents]
    BY <1>1 DEF Shape
  <2> QED
    BY <1>2, <2>1 DEF Contents
<1>5. /\ reqSeq \in Nat /\ reqSeq <= MaxStep /\ finished \in Nat /\ finished <= MaxStep
      /\ recorded \in [Events -> Nat] /\ fired \in [Events -> Nat]
  BY <1>1, <1>2 DEF Shape, Contents
<1> QED
  BY <1>1, <1>2, <1>3, <1>4, <1>5

\* The host records no event more often than there are real steps.
LEMMA RecordedBounds ==
    ASSUME NEW d \in 0..MaxStep, NEW at, NEW ph, IInv(d, at, ph)
    PROVE  recorded \in [Events -> 0..MaxStep]
<1>1. /\ Counts(d, at, ph) /\ Requests(d, at, ph) /\ Served(d) /\ d \in Nat /\ MaxStep \in Nat
      /\ \A r \in Ranks : step[r] \in Nat /\ step[r] <= MaxStep
      /\ 0 \in Ranks /\ 1 \in Ranks
      /\ reqSeq \in Nat /\ reqSeq <= MaxStep /\ recorded \in [Events -> Nat]
  BY Fixed
<1>2. ASSUME NEW n \in Nat, n <= MaxStep, NEW l, NEW before, NEW unsure, NEW count,
             Counted(d, n, l, before, unsure, count)
      PROVE  count \in 0..MaxStep
  BY <1>1, <1>2 DEF Counted
<1>3. recorded["input_ready"] \in 0..MaxStep
  <2>1. Counted(d, step[0], pc[0], {"sync", "prepare"}, {"status_failed", "failed"},
                recorded["input_ready"])
    BY <1>1 DEF Counts
  <2> QED
    BY <1>1, <1>2, <2>1
<1>4. recorded["done0"] \in 0..MaxStep /\ recorded["done1"] \in 0..MaxStep
  <2>1. \A r \in Ranks :
           Counted(d, step[r], pc[r], {"sync", "prepare", "handoff", "ready", "status",
                   "status_failed", "transport"}, {"failed"}, recorded[Done(r)])
    BY <1>1 DEF Counts, Transfers
  <2>2. \A r \in Ranks : recorded[Done(r)] \in 0..MaxStep
    BY <1>1, <1>2, <2>1
  <2> QED
    BY <1>1, <2>2 DEF Done
<1>5. recorded["d2h_done"] \in 0..MaxStep
  <2>1. recorded["d2h_done"] \in Nat
    BY <1>1 DEF Events
  <2> QED
    BY <1>1, <2>1 DEF Requests, Served
<1> QED
  BY <1>1, <1>3, <1>4, <1>5 DEF Events

\* The main stream of rank 0 executes nothing behind the last step.
LEMMA LastStep ==
    ASSUME NEW d \in 0..MaxStep, NEW at, NEW ph, IInv(d, at, ph)
    PROVE  at[Main(0)] = MaxStep + 1 => ph[Main(0)] = 0
<1> SUFFICES ASSUME at[Main(0)] = MaxStep + 1, ph[Main(0)] # 0
             PROVE  FALSE
  OBVIOUS
<1> DEFINE n == step[0]
           k == ph[Main(0)]
           q == Len(queue[Main(0)])
           e == Enqueued(d, at, ph, Main(0))
<1>1. /\ d \in Nat /\ d <= MaxStep /\ MaxStep \in Nat /\ n \in Nat /\ n <= MaxStep
      /\ Shape /\ Cursors(d, at, ph) /\ Mains(d, at, ph) /\ Kinded(d)
  BY Fixed
<1>2. k \in Nat /\ q \in Nat /\ Main(0) \in Scripted
  BY <1>1, StreamFacts, CursorFacts, QueueFacts
<1>3. e = Base(d, Main(0), MaxStep + 1) + k + q
  BY DEF Enqueued, Executed
<1>4. Base(d, Main(0), MaxStep + 1) = 6 * d + 7 * (MaxStep - d)
  <2> DEFINE m == MaxStep + 1
  <2>1. m \in Nat /\ m > d /\ m - d - 1 = MaxStep - d
    BY <1>1
  <2> HIDE DEF m
  <2>2. Base(d, Main(0), m) = 6 * d + 7 * (m - d - 1)
    BY <1>1, <2>1, Bases
  <2> QED
    BY <2>1, <2>2 DEF m
<1>5. /\ Base(d, Main(0), n) = IF n > d THEN 6 * d + 7 * (n - d - 1) ELSE 6 * (n - 1)
      /\ Base(d, Main(0), n + 1) = IF n + 1 > d THEN 6 * d + 7 * (n + 1 - d - 1)
                                                ELSE 6 * (n + 1 - 1)
  <2> DEFINE m == n + 1
  <2>1. m \in Nat
    BY <1>1
  <2> HIDE DEF m, n
  <2>2. /\ Base(d, Main(0), n) = IF n > d THEN 6 * d + 7 * (n - d - 1) ELSE 6 * (n - 1)
        /\ Base(d, Main(0), m) = IF m > d THEN 6 * d + 7 * (m - d - 1) ELSE 6 * (m - 1)
    BY <1>1, <2>1, Bases
  <2> QED
    BY ONLY <1>1, <2>2 DEF m
<1>6. MainAt0(d, n, pc[0], e) /\ KindedAt(d, n, pc[0]) /\ pc[0] \in Labels
  <2>1. pc \in [Ranks -> Labels]
    BY <1>1 DEF Shape
  <2> QED
    BY <1>1, <2>1 DEF Mains, Kinded, Ranks
<1> HIDE DEF n, k, q, e
<1>7. e <= Base(d, Main(0), n + 1) \/ (n >= 1 /\ e <= Base(d, Main(0), n) + 5)
  BY <1>1, <1>5, <1>6 DEF MainAt0, KindedAt, Labels, Resting
<1> QED
  BY <1>1, <1>2, <1>3, <1>4, <1>5, <1>7 DEF k

LEMMA FiredBounds ==
    ASSUME NEW d \in 0..MaxStep, NEW at, NEW ph, IInv(d, at, ph)
    PROVE  fired \in [Events -> 0..MaxStep]
<1>1. /\ d \in Nat /\ MaxStep \in Nat /\ fired \in [Events -> Nat] /\ Fires(d, at, ph)
      /\ at[Main(0)] = MaxStep + 1 => ph[Main(0)] = 0
      /\ Cursors(d, at, ph)
  BY Fixed, LastStep DEF Device0
<1>2. \A s \in Streams : at[s] \in Nat /\ at[s] <= MaxStep + 1
  BY <1>1 DEF Cursors
<1>3. /\ at[Main(0)] \in Nat /\ at[Main(0)] <= MaxStep + 1 /\ at[Tp(0)] \in Nat
      /\ at[Tp(0)] <= MaxStep + 1 /\ at[Tp(1)] \in Nat /\ at[Tp(1)] <= MaxStep + 1
      /\ at[D2H] \in Nat /\ at[D2H] <= MaxStep + 1
  BY <1>2, StreamFacts
<1>4. /\ fired["d2h_done"] \in Nat /\ fired["done0"] \in Nat /\ fired["done1"] \in Nat
      /\ fired["input_ready"] \in Nat
  BY <1>1 DEF Events
<1>5. fired["d2h_done"] <= MaxStep /\ fired["done0"] <= MaxStep /\ fired["done1"] <= MaxStep
  BY <1>1, <1>3, <1>4 DEF Fires
<1>6. fired["input_ready"] <= MaxStep
  BY <1>1, <1>3, <1>4 DEF Fires
<1> QED
  BY <1>1, <1>4, <1>5, <1>6 DEF Events

\* At most the records of the step of rank 0 and of the one before are alive.
LEMMA TwoRecords ==
    ASSUME NEW d \in 0..MaxStep, NEW at, NEW ph, IInv(d, at, ph)
    PROVE  Cardinality(records) <= 2
<1> DEFINE n == step[0]
<1>1. /\ d \in Nat /\ n \in Nat /\ reqSeq \in Nat /\ Recorded(d) /\ Served(d)
      /\ \A m \in Steps : m \in Nat /\ m >= 1
      /\ KindedAt(d, n, pc[0]) /\ Launched \in Nat /\ records \subseteq Steps
      /\ mailbox \in Nat \cup {-1}
      /\ Counted(d, n, pc[0], {"sync", "prepare"}, {"status_failed", "failed"}, Launched)
  BY Fixed, OfR DEF Shape
<1>2. \A m \in records : m \in Steps /\ m <= n /\ (m < n => m \notin completed)
  <2>1. \A m \in Steps : m < n => m \in released
    BY <1>1 DEF Recorded
  <2>2. \A m \in records : m \in Steps /\ m <= n /\ ~(m \in completed /\ m \in released)
    BY <1>1 DEF Recorded
  <2> QED
    BY <2>1, <2>2
<1>3. \A m \in records : m < n => m > d /\ m >= reqSeq
  <2>1. /\ \A m \in Steps : m > d /\ m < reqSeq => m \in completed
        /\ \A m \in Steps : m <= d /\ m < n => m \in completed
    BY <1>1 DEF Recorded
  <2> QED
    BY <1>1, <1>2, <2>1
<1>4. n > d + 1 => reqSeq >= n - 1
  <2> SUFFICES ASSUME n > d + 1 PROVE reqSeq >= n - 1
    OBVIOUS
  <2>1. Launched \in {n - d - 1, n - d}
    BY <1>1 DEF Counted
  <2>2. CASE mailbox > 0
    BY <1>1, <2>1, <2>2 DEF Served
  <2>3. CASE mailbox <= 0
    BY <1>1, <2>1, <2>3 DEF Served
  <2> QED
    BY <1>1, <2>2, <2>3
<1>5. \A m \in records : m \in {n - 1, n}
  BY <1>1, <1>2, <1>3, <1>4
<1> HIDE DEF n
<1>6. records \subseteq {n - 1, n}
  BY <1>5
<1>7. IsFiniteSet({n - 1, n}) /\ Cardinality({n - 1, n}) <= 2
  <2>1. IsFiniteSet({n - 1}) /\ Cardinality({n - 1}) = 1
    BY FS_Singleton
  <2>2. {n - 1, n} = {n - 1} \cup {n} /\ n # n - 1
    BY <1>1
  <2>3. IsFiniteSet({n - 1} \cup {n}) /\ Cardinality({n - 1} \cup {n}) = 2
    BY <2>1, <2>2, FS_AddElement
  <2> QED
    BY <2>2, <2>3
<1>8. Cardinality(records) <= Cardinality({n - 1, n}) /\ IsFiniteSet(records)
  BY <1>6, <1>7, FS_Subset
<1> QED
  BY <1>7, <1>8, FS_CardinalityType

LEMMA Typed == ASSUME Inv PROVE TypeOK
<1>1. PICK d \in 0..MaxStep : \E a, p : IInv(d, a, p)
  BY DEF Inv
<1>2. PICK at, ph : IInv(d, at, ph)
  BY <1>1
<1>3. Shape
  BY <1>2, Fixed
<1>4. \A s \in Streams : \A i \in DOMAIN queue[s] : queue[s][i] \in Ops
  <2>1. \A s \in Streams : queue[s] \in Seq(Ops)
    BY <1>3 DEF Shape
  <2> QED
    BY <2>1
<1>5. recorded \in [Events -> 0..MaxStep] /\ fired \in [Events -> 0..MaxStep]
  BY <1>2, RecordedBounds, FiredBounds
<1>6. Cardinality(records) <= 2
  BY <1>2, TwoRecords
<1> QED
  BY <1>3, <1>4, <1>5, <1>6 DEF Shape, TypeOK, Requesting

-----------------------------------------------------------------------------
(* The theorems.                                                           *)

LEMMA Always == Spec => []Inv
<1> QED
  BY Starts, Kept, PTL DEF Spec

\* Every variable has its type and at most two metadata records are alive, for any
\* number of steps, of any kinds, and whatever reads fail or hand-offs time out.
THEOREM TypeCorrect == Spec => []TypeOK
<1>1. Inv => TypeOK
  BY Typed
<1> QED
  BY Always, <1>1, PTL

-----------------------------------------------------------------------------
(* The hand-off is safe.                                                   *)

LEMMA Accesses ==
    ASSUME NEW d \in 0..MaxStep, NEW at, NEW ph, IInv(d, at, ph), ~error, NEW s \in busy,
           NEW w, w = Writes(Head(queue[s]), s), NEW r, r = Reads(Head(queue[s]), s)
    PROVE  \/ s = Main(0) /\ Access0(d, at[s], ph[s], w, r)
           \/ s = Main(1) /\ Access1(d, at[s], ph[s], w, r)
           \/ s = Tp(0) /\ ph[s] = 2 /\ w = {} /\ r = {"output0"}
           \/ s = Tp(1) /\ ph[s] = 1 /\ w = {"output1"} /\ r = {}
           \/ s = D2H /\ ph[s] = 1 /\ w = {"pinned"} /\ r = {"inputs"}
           \/ s = Reader /\ ph[s] = 1 /\ w = {"output0"} /\ r = {}
<1> DEFINE o == Head(queue[s])
           n == at[s]
           k == ph[s]
<1>1. /\ Shape /\ Cursors(d, at, ph) /\ Queues(d, at, ph) /\ Under /\ Device0(d, at, ph)
      /\ Faulty /\ d \in Nat
  BY Fixed
<1>2. /\ s \in Streams /\ ~Idle(s) /\ o.op \in Moves /\ n = at[s] /\ k = ph[s] /\ o = Head(queue[s])
      /\ w = Writes(o, s) /\ r = Reads(o, s)
  BY <1>1 DEF Shape, Under, Moved
<1>3. at[Tp(0)] > d /\ at[Tp(1)] > d /\ at[D2H] > d /\ at[Reader] > d
  BY <1>1 DEF Device0
<1>4. s # Error
  BY <1>1, <1>2 DEF Faulty
<1>5. /\ \A e : Record(e).op \notin Moves
      /\ \A e, j : Await(e, j).op \notin Moves
      /\ \A v : WaitValue(v).op \notin Moves /\ WriteValue(v).op \notin Moves
      /\ \A a, v : Op(a, v).op = a
  BY OpFields DEF Moves
<1>6. Main(0)[2] = 0 /\ Main(1)[2] = 1 /\ Tp(0)[2] = 0 /\ Tp(1)[2] = 1 /\ Reader[2] = 0
  BY Seconds
<1> HIDE DEF o, n, k
<1>7. CASE s = Main(0)
  <2>1. /\ k \in 0..6 /\ k < (IF n > d THEN 7 ELSE 6) /\ Ops0(d, n, k, o)
        /\ n \in Nat
    BY <1>1, <1>2, <1>7, HeadMain0 DEF Steps
  <2>2. \/ k = 0 /\ o.op = "stage"
        \/ n <= d /\ k = 1 /\ o.op = "zero"
        \/ k = 4 /\ o.op = "consume"
    BY <1>1, <1>2, <1>5, <2>1 DEF Ops0
  <2> QED
    BY <1>2, <1>6, <1>7, <2>2 DEF Access0, Writes, Reads, Out
<1>8. CASE s = Main(1)
  <2>1. /\ k \in 0..4 /\ k < (IF n > d THEN 4 ELSE 5) /\ Ops1(d, n, k, o)
        /\ n \in Nat
    BY <1>1, <1>2, <1>8, HeadMain1 DEF Steps
  <2>2. \/ n <= d /\ k = 0 /\ o.op = "zero"
        \/ k = (IF n > d THEN 1 ELSE 3) /\ o.op = "consume"
    BY <1>1, <1>2, <1>5, <2>1 DEF Ops1
  <2> QED
    BY <1>2, <1>6, <1>8, <2>2 DEF Access1, Writes, Reads, Out
<1>9. CASE s = Tp(0)
  <2>1. /\ k \in 0..3
        /\ k = 0 => o = Await("d2h_done", n - d)
        /\ k = 1 => o = WaitValue(1)
        /\ k = 2 => o = Op("broadcast", n)
        /\ k = 3 => o = Record("done0")
    BY <1>1, <1>2, <1>3, <1>9, HeadTp0
  <2>2. k = 2 /\ o.op = "broadcast"
    BY <1>2, <1>5, <2>1
  <2> QED
    BY <1>2, <1>6, <1>9, <2>2 DEF Writes, Reads
<1>10. CASE s = Tp(1)
  <2>1. /\ k \in 0..3
        /\ k = 0 => o = WaitValue(0)
        /\ k = 1 => o = Op("broadcast", n)
        /\ k = 2 => o = WriteValue(1)
        /\ k = 3 => o = Record("done1")
    BY <1>1, <1>2, <1>3, <1>10, HeadTp1
  <2>2. k = 1 /\ o.op = "broadcast"
    BY <1>2, <1>5, <2>1
  <2> QED
    BY <1>2, <1>6, <1>10, <2>2 DEF Writes, Reads
<1>11. CASE s = D2H
  <2>1. /\ k \in 0..2
        /\ k = 0 => o = Await("input_ready", n - d)
        /\ k = 1 => o = Op("copy", 0)
        /\ k = 2 => o = Record("d2h_done")
    BY <1>1, <1>2, <1>3, <1>11, HeadD2H
  <2>2. k = 1 /\ o.op = "copy"
    BY <1>2, <1>5, <2>1
  <2> QED
    BY <1>2, <1>11, <2>2 DEF Writes, Reads
<1>12. CASE s = Reader
  <2>1. /\ k \in 0..2
        /\ k = 0 => o = WaitValue(0)
        /\ k = 1 => o = Op("gather", n)
        /\ k = 2 => o = WriteValue(1)
    BY <1>1, <1>2, <1>3, <1>12, HeadReader
  <2>2. k = 1 /\ o.op = "gather"
    BY <1>2, <1>5, <2>1
  <2> QED
    BY <1>2, <1>6, <1>12, <2>2 DEF Writes, Reads, Out
<1> QED
  BY <1>2, <1>4, <1>7, <1>8, <1>9, <1>10, <1>11, <1>12 DEF Streams

\* What the cursors exclude.
LEMMA Apart ==
    ASSUME NEW d \in 0..MaxStep, NEW at, NEW ph, IInv(d, at, ph), ~error, Serialize
    PROVE  /\ ~(ph[Main(0)] = 0 /\ ph[D2H] = 1)
           /\ ~(at[Main(0)] <= d /\ ph[Reader] = 1) /\ ~(at[Main(0)] <= d /\ ph[Tp(0)] = 2)
           /\ ~(ph[Main(0)] = 4 /\ ph[Reader] = 1) /\ ~(ph[Tp(0)] = 2 /\ ph[Reader] = 1)
           /\ ~(at[Main(1)] <= d /\ ph[Tp(1)] = 1)
           /\ ~(at[Main(1)] > d /\ ph[Main(1)] = 1 /\ ph[Tp(1)] = 1)
<1>1. /\ Device0(d, at, ph) /\ Device1(d, at, ph) /\ d \in Nat /\ Clean /\ Cursors(d, at, ph)
  BY Fixed DEF Clean
<1>2. /\ Copying(d, at[Main(0)], ph[Main(0)], at[D2H], ph[D2H], inputs, pinned)
      /\ Sending(d, at[Main(0)], ph[Main(0)], at[D2H], at[Tp(0)], ph[Tp(0)])
      /\ Producing(d, at[Main(0)], ph[Main(0)], at[D2H], at[Tp(0)], ph[Tp(0)],
                   at[Reader], ph[Reader], flag[0], output[0])
      /\ Receiving(d, at[Main(1)], ph[Main(1)], at[Tp(1)], ph[Tp(1)], flag[1])
  BY <1>1 DEF Device0, Device1
<1>3. \A s \in Scripted : at[s] \in Nat /\ ph[s] \in Nat
  BY <1>1, CursorFacts
<1>4. /\ at[Main(0)] \in Nat /\ ph[Main(0)] \in Nat /\ at[D2H] \in Nat /\ ph[D2H] \in Nat
      /\ at[Tp(0)] \in Nat /\ ph[Tp(0)] \in Nat /\ at[Reader] \in Nat /\ ph[Reader] \in Nat
      /\ at[Main(1)] \in Nat /\ ph[Main(1)] \in Nat /\ at[Tp(1)] \in Nat /\ ph[Tp(1)] \in Nat
  BY <1>3, StreamFacts
<1>5. ~(ph[Main(0)] = 0 /\ ph[D2H] = 1)
  BY <1>1, <1>2, <1>4 DEF Copying
<1>6. ~(at[Main(0)] <= d /\ ph[Reader] = 1) /\ ~(at[Main(0)] <= d /\ ph[Tp(0)] = 2)
  BY <1>1, <1>2, <1>4 DEF Producing, Sending
<1>7. ~(ph[Main(0)] = 4 /\ ph[Reader] = 1) /\ ~(ph[Tp(0)] = 2 /\ ph[Reader] = 1)
  BY <1>1, <1>2, <1>4, <1>6 DEF Producing
<1>8. /\ ~(at[Main(1)] <= d /\ ph[Tp(1)] = 1)
      /\ ~(at[Main(1)] > d /\ ph[Main(1)] = 1 /\ ph[Tp(1)] = 1)
  BY <1>1, <1>2, <1>4 DEF Receiving
<1> QED
  BY <1>5, <1>6, <1>7, <1>8

LEMMA NoRace ==
    ASSUME NEW d \in 0..MaxStep, NEW at, NEW ph, IInv(d, at, ph), Serialize
    PROVE  RaceFree
<1> SUFFICES ASSUME ~error
             PROVE  /\ \A s, t \in busy : s # t =>
                          LET o == Head(queue[s])
                              p == Head(queue[t])
                          IN  Writes(o, s) \cap (Reads(p, t) \cup Writes(p, t)) = {}
                    /\ req = "plan" => \A s \in busy : "pinned" \notin Writes(Head(queue[s]), s)
  BY DEF RaceFree
<1>1. ASSUME NEW s \in busy, NEW t \in busy, s # t
      PROVE  Writes(Head(queue[s]), s) \cap
                (Reads(Head(queue[t]), t) \cup Writes(Head(queue[t]), t)) = {}
  <2> DEFINE w == Writes(Head(queue[s]), s)
             r == Reads(Head(queue[s]), s)
             v == Writes(Head(queue[t]), t)
             u == Reads(Head(queue[t]), t)
  <2>1. /\ \/ s = Main(0) /\ Access0(d, at[s], ph[s], w, r)
           \/ s = Main(1) /\ Access1(d, at[s], ph[s], w, r)
           \/ s = Tp(0) /\ ph[s] = 2 /\ w = {} /\ r = {"output0"}
           \/ s = Tp(1) /\ ph[s] = 1 /\ w = {"output1"} /\ r = {}
           \/ s = D2H /\ ph[s] = 1 /\ w = {"pinned"} /\ r = {"inputs"}
           \/ s = Reader /\ ph[s] = 1 /\ w = {"output0"} /\ r = {}
        /\ \/ t = Main(0) /\ Access0(d, at[t], ph[t], v, u)
           \/ t = Main(1) /\ Access1(d, at[t], ph[t], v, u)
           \/ t = Tp(0) /\ ph[t] = 2 /\ v = {} /\ u = {"output0"}
           \/ t = Tp(1) /\ ph[t] = 1 /\ v = {"output1"} /\ u = {}
           \/ t = D2H /\ ph[t] = 1 /\ v = {"pinned"} /\ u = {"inputs"}
           \/ t = Reader /\ ph[t] = 1 /\ v = {"output0"} /\ u = {}
    BY Accesses
  <2> HIDE DEF w, r, v, u
  <2>2. /\ ~(ph[Main(0)] = 0 /\ ph[D2H] = 1)
        /\ ~(at[Main(0)] <= d /\ ph[Reader] = 1) /\ ~(at[Main(0)] <= d /\ ph[Tp(0)] = 2)
        /\ ~(ph[Main(0)] = 4 /\ ph[Reader] = 1) /\ ~(ph[Tp(0)] = 2 /\ ph[Reader] = 1)
        /\ ~(at[Main(1)] <= d /\ ph[Tp(1)] = 1)
        /\ ~(at[Main(1)] > d /\ ph[Main(1)] = 1 /\ ph[Tp(1)] = 1)
    BY Apart
  <2>3. /\ at[Main(1)] > d \/ at[Main(1)] <= d
    <3>1. Cursors(d, at, ph) /\ d \in Nat /\ Main(1) \in Scripted
      BY Fixed, StreamFacts
    <3>2. at[Main(1)] \in Nat
      BY <3>1, CursorFacts
    <3> QED
      BY <3>1, <3>2
  <2>4. w \cap (u \cup v) = {}
    <3>1. CASE s = Main(0)
      BY <2>1, <2>2, <2>3, <1>1, <3>1, StreamFacts DEF Access0, Access1
    <3>2. CASE s = Main(1)
      BY <2>1, <2>2, <2>3, <1>1, <3>2, StreamFacts DEF Access0, Access1
    <3>3. CASE s = Tp(0)
      BY <2>1, <3>3, StreamFacts
    <3>4. CASE s = Tp(1)
      BY <2>1, <2>2, <2>3, <1>1, <3>4, StreamFacts DEF Access0, Access1
    <3>5. CASE s = D2H
      BY <2>1, <2>2, <2>3, <1>1, <3>5, StreamFacts DEF Access0, Access1
    <3>6. CASE s = Reader
      BY <2>1, <2>2, <2>3, <1>1, <3>6, StreamFacts DEF Access0, Access1
    <3> QED
      BY <2>1, <3>1, <3>2, <3>3, <3>4, <3>5, <3>6
  <2> QED
    BY <2>4 DEF w, u, v
<1>2. ASSUME req = "plan", NEW s \in busy
      PROVE  "pinned" \notin Writes(Head(queue[s]), s)
  <2>1. /\ Shape /\ Cursors(d, at, ph) /\ Served(d) /\ Requests(d, at, ph) /\ Under
        /\ Device0(d, at, ph) /\ reqSeq \in Nat /\ d \in Nat
    BY Fixed
  <2>2. reqSeq # 0 /\ at[D2H] = reqSeq + 1 /\ Enqueued(d, at, ph, D2H) = 3 * (reqSeq - d)
    BY <1>2, <2>1 DEF Served, Requests
  <2>3. at[D2H] > d
    BY <2>1 DEF Device0
  <2>4. Enqueued(d, at, ph, D2H) = 3 * (at[D2H] - d - 1)
    BY <2>1, <2>2
  <2>5. Idle(D2H)
    BY <2>1, <2>3, <2>4, IdleAt
  <2>6. s # D2H
    BY <2>1, <2>5 DEF Under
  <2> DEFINE w == Writes(Head(queue[s]), s)
             r == Reads(Head(queue[s]), s)
  <2>7. \/ s = Main(0) /\ Access0(d, at[s], ph[s], w, r)
        \/ s = Main(1) /\ Access1(d, at[s], ph[s], w, r)
        \/ s = Tp(0) /\ ph[s] = 2 /\ w = {} /\ r = {"output0"}
        \/ s = Tp(1) /\ ph[s] = 1 /\ w = {"output1"} /\ r = {}
        \/ s = D2H /\ ph[s] = 1 /\ w = {"pinned"} /\ r = {"inputs"}
        \/ s = Reader /\ ph[s] = 1 /\ w = {"output0"} /\ r = {}
    BY Accesses
  <2> HIDE DEF w, r
  <2>8. "pinned" \notin w
    BY <2>6, <2>7 DEF Access0, Access1
  <2> QED
    BY <2>8 DEF w
<1> QED
  BY <1>1, <1>2

LEMMA OwnRows ==
    ASSUME NEW d \in 0..MaxStep, NEW at, NEW ph, IInv(d, at, ph), Serialize
    PROVE  RightGeneration
<1> SUFFICES ASSUME ~error, NEW r \in Ranks, NEW n \in Steps, got[r][n] # -1
             PROVE  got[r][n] = (IF Real(n) THEN n ELSE 0)
  BY DEF RightGeneration
<1>1. Device0(d, at, ph) /\ Device1(d, at, ph) /\ Clean /\ (Real(n) <=> n > d)
  BY Fixed DEF Clean
<1>2. /\ Consumption(d, got[0], at[Main(0)], Consumed0(ph[Main(0)]))
      /\ Consumption(d, got[1], at[Main(1)], Consumed1(d, at[Main(1)], ph[Main(1)]))
  BY <1>1 DEF Device0, Device1
<1>3. r = 0 \/ r = 1
  BY DEF Ranks
<1>4. got[r][n] = Val(d, n)
  BY <1>2, <1>3 DEF Consumption
<1> QED
  BY <1>1, <1>4 DEF Val

\* Where a broadcast of step n in the queue of a transport stream stands.
LEMMA Broadcasts1 ==
    ASSUME NEW d \in 0..MaxStep, NEW at, NEW ph, IInv(d, at, ph), NEW t \in Ranks,
           NEW i \in DOMAIN queue[Tp(t)], queue[Tp(t)][i].op = "broadcast"
    PROVE  LET n == queue[Tp(t)][i].n IN
           /\ n \in Steps /\ n > d /\ at[Tp(t)] <= n
           /\ at[Tp(t)] = n => ph[Tp(t)] < (IF t = 0 THEN 3 ELSE 2)
           /\ Enqueued(d, at, ph, Tp(t)) > 4 * (n - d - 1)
<1> DEFINE s == Tp(t)
           o == queue[s][i]
           b == Executed(d, at, ph, s)
           l == Len(queue[s])
<1>1. /\ Shape /\ Cursors(d, at, ph) /\ Queues(d, at, ph) /\ Device0(d, at, ph)
      /\ d \in Nat /\ MaxStep \in Nat
  BY Fixed
<1>2. s \in Scripted /\ s \in Streams /\ (t = 0 \/ t = 1)
  BY StreamFacts DEF Ranks
<1>3. queue[s] \in Seq(Ops) /\ l \in Nat /\ i \in 1..l
  BY <1>1, <1>2, QueueFacts
<1>4. Nth(d, s, b + i, o)
  BY <1>1, <1>2, <1>3 DEF Queues
<1>5a. PICK n \in Steps : \E k \in 1..Size(d, s, n) :
          b + i = Base(d, s, n) + k /\ o = Script(d, s, n)[k]
  BY <1>4 DEF Nth
<1>5. PICK k \in 1..Size(d, s, n) : b + i = Base(d, s, n) + k /\ o = Script(d, s, n)[k]
  BY <1>5a
<1>6. n \in Nat /\ DummySize(s) = 0 /\ RealSize(s) = 4
  BY <1>1, Sizes DEF Steps
<1>7. n > d /\ k \in 1..4
  BY <1>1, <1>5, <1>6 DEF Size
<1>8. k = (IF t = 0 THEN 3 ELSE 2) /\ o.n = n
  <2>1. CASE t = 0
    <3>1. o = TpScript0(d, n)[k]
      BY <1>5, <2>1, Scripts
    <3>2. /\ k = 1 => o = Await("d2h_done", n - d)
          /\ k = 2 => o = WaitValue(1)
          /\ k = 3 => o = Op("broadcast", n)
          /\ k = 4 => o = Record("done0")
      BY <3>1 DEF TpScript0
    <3> HIDE DEF s, o
    <3>3. o.op = "broadcast"
      BY DEF s, o
    <3> QED
      BY <1>7, <2>1, <3>2, <3>3, OpFields
  <2>2. CASE t = 1
    <3>1. o = TpScript1(d, n)[k]
      BY <1>5, <2>2, Scripts
    <3>2. /\ k = 1 => o = WaitValue(0)
          /\ k = 2 => o = Op("broadcast", n)
          /\ k = 3 => o = WriteValue(1)
          /\ k = 4 => o = Record("done1")
      BY <3>1 DEF TpScript1
    <3> HIDE DEF s, o
    <3>3. o.op = "broadcast"
      BY DEF s, o
    <3> QED
      BY <1>7, <2>2, <3>2, <3>3, OpFields
  <2> QED
    BY <1>2, <2>1, <2>2
<1> DEFINE m == at[s]
           p == ph[s]
<1>9. m \in Nat /\ p \in Nat /\ m > d /\ b = Base(d, s, m) + p
  <2>1. m > d
    BY <1>1, <1>2 DEF Device0
  <2> QED
    BY <1>1, <1>2, <2>1, CursorFacts DEF Executed
<1>10. Base(d, s, n) = 4 * (n - d - 1) /\ Base(d, s, m) = 4 * (m - d - 1)
  <2> HIDE DEF m
  <2> QED
    BY <1>1, <1>6, <1>7, <1>9, Bases
<1>11. Enqueued(d, at, ph, s) = b + l
  BY DEF Enqueued
<1> DEFINE e == Enqueued(d, at, ph, s)
           x == Base(d, s, n)
           y == Base(d, s, m)
<1>12. b + i = x + k /\ b = y + p /\ x = 4 * (n - d - 1) /\ y = 4 * (m - d - 1) /\ e = b + l
  BY <1>5, <1>9, <1>10, <1>11
<1>13. m \in Nat /\ p \in Nat /\ m > d /\ n > d /\ n \in Nat /\ d \in Nat /\ i \in 1..l /\ l \in Nat
       /\ k = (IF t = 0 THEN 3 ELSE 2)
  BY <1>1, <1>3, <1>6, <1>7, <1>8, <1>9
<1>14. m <= n /\ (m = n => p < (IF t = 0 THEN 3 ELSE 2)) /\ e > 4 * (n - d - 1)
  <2> HIDE DEF b, l, m, p, e, x, y
  <2> QED
    BY ONLY <1>12, <1>13
<1> QED
  BY <1>7, <1>8, <1>14

\* The receiver of a serialized step is launched when its producer is done.
LEMMA ReceiverLast ==
    ASSUME NEW d \in 0..MaxStep, NEW at, NEW ph, IInv(d, at, ph)
    PROVE  ReceiverAfterProducer
<1> SUFFICES ASSUME NEW i \in DOMAIN queue[Tp(1)], queue[Tp(1)][i].op = "broadcast",
                    Serial(queue[Tp(1)][i].n)
             PROVE  queue[Tp(1)][i].n \in completed /\ Idle(Reader)
  BY DEF ReceiverAfterProducer
<1> DEFINE n == queue[Tp(1)][i].n
<1>1. /\ n \in Steps /\ n > d /\ at[Tp(1)] <= n /\ (at[Tp(1)] = n => ph[Tp(1)] < 2)
      /\ Enqueued(d, at, ph, Tp(1)) > 4 * (n - d - 1)
  BY Fixed, Broadcasts1
<1>2. Serial(n)
  OBVIOUS
<1> HIDE DEF n
<1>3. /\ Ranked(d, at, ph) /\ Counts(d, at, ph) /\ Kinded(d) /\ Reading(d, at, ph) /\ d \in Nat
      /\ step[1] \in Nat /\ n \in Nat /\ Shape /\ Cursors(d, at, ph)
      /\ 1 \in Ranks /\ recorded["done1"] \in Nat /\ Tp(1) \in Scripted
  BY <1>1, Fixed, StreamFacts DEF Events
<1>4. at[Tp(1)] \in Nat /\ ph[Tp(1)] \in Nat
  BY <1>3, CursorFacts
<1>5. ~BroadcastDone(at, ph, n)
  BY <1>1, <1>3, <1>4 DEF BroadcastDone
<1>6. /\ Counted(d, step[1], pc[1], {"sync", "prepare", "handoff", "ready", "status",
                 "status_failed", "transport"}, {"failed"}, recorded["done1"])
      /\ Enqueued(d, at, ph, Tp(1)) = 4 * recorded["done1"]
  BY <1>3 DEF Counts, Transfers, Done
<1>7. recorded["done1"] >= n - d
  BY <1>1, <1>3, <1>6
<1>8. Past(1, n, AfterStatus)
  <2>1. step[1] >= n
    BY <1>1, <1>3, <1>6, <1>7 DEF Counted
  <2>2. ASSUME step[1] = n
        PROVE  pc[1] \in AfterStatus
    <3>1. pc[1] \notin {"sync", "prepare", "handoff", "ready", "status", "status_failed",
                        "transport"}
      BY <1>1, <1>3, <1>6, <1>7, <2>2 DEF Counted
    <3>2. pc[1] # "dummy"
      BY <1>1, <1>3, <2>2 DEF Kinded, KindedAt
    <3>3. pc[1] # "failed"
      BY <1>1, <1>2, <1>3, <1>4, <1>7, <2>2 DEF Ranked
    <3>4. pc[1] \in Labels1
      BY <1>3 DEF Shape
    <3> QED
      BY <3>1, <3>2, <3>3, <3>4 DEF Labels1, AfterStatus, AfterDrained, AfterVerify, Resting
  <2> QED
    BY <1>3, <2>1, <2>2 DEF Past
<1>9. step[0] = n /\ pc[0] \in {"transport", "drain"}
  BY <1>1, <1>2, <1>3, <1>5, <1>8 DEF Ranked
<1>10. n \in completed /\ Idle(Reader)
  BY <1>2, <1>3, <1>9 DEF Reading
<1> QED
  BY <1>10 DEF n

\* The communication of a serialized step is over when its model calls start.
LEMMA CommunicationLast ==
    ASSUME NEW d \in 0..MaxStep, NEW at, NEW ph, IInv(d, at, ph)
    PROVE  CommunicationOver
<1> SUFFICES ASSUME NEW r \in Ranks, NEW t \in Ranks, pc[r] = "forward", Serial(step[r]),
                    NEW i \in DOMAIN queue[Tp(t)], queue[Tp(t)][i] = Op("broadcast", step[r])
             PROVE  FALSE
  BY DEF CommunicationOver
<1>1. queue[Tp(t)][i].op = "broadcast" /\ queue[Tp(t)][i].n = step[r]
  BY OpFields
<1>2. step[r] \in Steps /\ at[Tp(t)] <= step[r]
  BY <1>1, Broadcasts1
<1>3. Past(r, step[r], AfterDrained)
  BY DEF Past, AfterDrained, AfterVerify
<1>4. at[Tp(t)] > step[r]
  BY <1>2, <1>3, Fixed DEF Ranked
<1>5. at[Tp(t)] \in Nat /\ step[r] \in Nat
  <2>1. Cursors(d, at, ph) /\ Tp(t) \in Scripted
    BY Fixed, StreamFacts DEF Ranks
  <2> QED
    BY <2>1, Fixed, CursorFacts
<1> QED
  BY <1>2, <1>4, <1>5

LEMMA Safe == ASSUME Inv, Serialize PROVE HandoffSafe
<1>1. PICK d \in 0..MaxStep : \E a, p : IInv(d, a, p)
  BY DEF Inv
<1>2. PICK at, ph : IInv(d, at, ph)
  BY <1>1
<1> QED
  BY <1>2, NoRace, OwnRows, ReceiverLast, CommunicationLast DEF HandoffSafe

LEMMA Honest == ASSUME Inv PROVE ResultsHonest
<1>1. PICK d \in 0..MaxStep : \E a, p : IInv(d, a, p)
  BY DEF Inv
<1>2. PICK at, ph : IInv(d, at, ph)
  BY <1>1
<1>3. /\ Device0(d, at, ph) /\ finished \in Nat /\ finished <= MaxStep /\ MaxStep \in Nat
      /\ \A n \in Steps : Real(n) <=> n > d
  BY <1>2, Fixed
<1>4. sync_steps => \A m \in 1..finished : got[0][m] = Val(d, m)
  BY <1>3 DEF Device0
<1>5. \A m \in 1..finished : m \in Steps
  BY <1>3 DEF Steps
<1> QED
  BY <1>3, <1>4, <1>5 DEF ResultsHonest, Val

LEMMA Unspurious == ASSUME Inv, Serialize PROVE NoSpuriousError
<1>1. PICK d \in 0..MaxStep : \E a, p : IInv(d, a, p)
  BY DEF Inv
<1>2. PICK at, ph : IInv(d, at, ph)
  BY <1>1
<1>3. Faulty
  BY <1>2, Fixed
<1> QED
  BY <1>3 DEF Faulty, NoSpuriousError

\* With the serialized hand-off, no two accesses to a buffer overlap when one of
\* them writes it, every forward reads the rows of its own step on both ranks, the
\* receiver of a step is launched after its producer is done, and its broadcast is
\* over when the model calls begin.
THEOREM HandedOver ==
    ASSUME Serialize
    PROVE  Spec => []HandoffSafe
<1>1. Inv => HandoffSafe
  BY Safe
<1> QED
  BY Always, <1>1, PTL

\* A result that rank 0 returned was computed from the rows of its own step,
\* serialized or not, also when reads fail and error wake-ups are sent.
THEOREM ResultsAreHonest == Spec => []ResultsHonest
<1>1. Inv => ResultsHonest
  BY Honest
<1> QED
  BY Always, <1>1, PTL

\* With the serialized hand-off nothing in the protocol raises unless a read failed
\* or a wait timed out; and every result is one of the rows of its own step.
THEOREM FailsClosed ==
    ASSUME Serialize
    PROVE  Spec => []FailClosed
<1>1. Inv => FailClosed
  BY Honest, Unspurious DEF FailClosed
<1> QED
  BY Always, <1>1, PTL
=============================================================================
