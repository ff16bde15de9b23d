------------------------- MODULE GenerationStoreProofs -------------------------
(***************************************************************************)
(* Proofs about the artifact directory, for every set of converters of both *)
(* formats, any number of pieces, of source changes and of crashes: first  *)
(* what a crash may leave of a generation, then the order of publication.  *)
(***************************************************************************)
EXTENDS GenerationStore, TLAPS, SequenceTheorems

-----------------------------------------------------------------------------
(* The inductive invariant.                                                *)

Copied    == {"syncdata", "hash", "syncmeta", "validate", "rename", "seal", "syncgen",
              "syncgens", "point", "syncpointer", "swap"}
DataSafe  == Copied \ {"syncdata"}
Described == DataSafe \ {"hash"}
MetaSafe  == Described \ {"syncmeta"}
Valid     == MetaSafe \ {"validate"}
Renamed   == Valid \ {"rename"}
Protected == Renamed \ {"seal"}
Released  == {"syncout", "done", "failed", "crashed"}

\* What has been achieved when conversion c is at its present step.
Achieved(c) ==
    /\ pc[c] = "idle" => copied[c] = <<>>
    /\ pc[c] = "copy" => Len(copied[c]) < Chunks
    /\ pc[c] \in Copied => Len(copied[c]) = Chunks /\ <<"data", c>> \in written
    /\ pc[c] \in DataSafe => <<"data", c>> \in synced
    /\ pc[c] \in Described => digest[c] = copied[c] /\ <<"metadata", c>> \in written
    /\ pc[c] \in MetaSafe => <<"metadata", c>> \in synced
    /\ pc[c] \in Valid => copied[c] = [i \in 1..Chunks |-> sources[c]]
    /\ pc[c] \in Renamed => c \in now.entries
    /\ pc[c] \in Protected /\ c \in compact => c \in now.sealed
    /\ pc[c] \in {"syncpointer", "swap"} => <<"pointer", c>> \in written
    /\ pc[c] = "swap" => <<"pointer", c>> \in synced
Progress == \A c \in Converters : Achieved(c)

\* The source only moves forward: no piece was read before the source was described.
Timely(c) ==
    /\ sources[c] <= source
    /\ \A k \in DOMAIN copied[c] : sources[c] <= copied[c][k] /\ copied[c][k] <= source
InTime == \A c \in Converters : Timely(c)

\* Generations never leave the directory, and only a conversion that does not touch its
\* files any more is named by CURRENT.
Ordered(d) ==
    /\ d.entries \subseteq now.entries
    /\ d.current # None => pc[d.current] \in Released
InOrder == \A i \in DOMAIN journal : Ordered(journal[i])

\* What the reader has open is published, and whole.
Serves == opened # None =>
    opened \in now.entries /\ pc[opened] \in Released /\ Whole(opened)

IInv == TypeOK /\ Progress /\ InTime /\ InOrder /\ CrashSafe /\ Serves

-----------------------------------------------------------------------------
(* The journal.                                                            *)

LEMMA VersionsAreNumbers == Versions \subseteq Nat
  BY BoundAssumption DEF Versions

\* A sequence whose n elements are all v.
LEMMA Constant ==
    ASSUME NEW S, NEW s \in Seq(S), NEW n \in Nat, NEW v,
           Len(s) = n, \A k \in 1..n : s[k] = v
    PROVE  s = [i \in 1..n |-> v]
<1>1. s \in [1..n -> S]
  BY LenProperties
<1> QED
  BY <1>1

\* The present directory is one of the journal's.
LEMMA Present == TypeOK => Len(journal) \in DOMAIN journal /\ now \in Directory
<1> SUFFICES ASSUME TypeOK PROVE Len(journal) \in DOMAIN journal /\ now \in Directory
  OBVIOUS
<1>1. journal \in Seq(Directory) /\ journal # <<>>
  BY DEF TypeOK
<1>2. Len(journal) \in Nat /\ DOMAIN journal = 1..Len(journal) /\ Len(journal) # 0
  BY <1>1, EmptySeq, LenProperties
<1>3. Len(journal) \in 1..Len(journal)
  BY <1>2
<1> QED
  BY <1>1, <1>2, <1>3, ElementOfSeq DEF now

\* One directory operation.
LEMMA Grows ==
    ASSUME TypeOK, NEW d \in Directory, journal' = Append(journal, d)
    PROVE  /\ journal' \in Seq(Directory) /\ journal' # <<>>
           /\ now' = d
           /\ \A i \in DOMAIN journal' :
                journal'[i] = d \/ \E m \in DOMAIN journal : journal'[i] = journal[m]
<1>1. journal \in Seq(Directory)
  BY DEF TypeOK
<1>2. Len(journal) \in Nat /\ DOMAIN journal = 1..Len(journal)
  BY <1>1, LenProperties
<1>3. /\ journal' \in Seq(Directory) /\ journal' # <<>>
      /\ Len(journal') = Len(journal) + 1
      /\ \A i \in 1..Len(journal) : journal'[i] = journal[i]
      /\ journal'[Len(journal) + 1] = d
  BY <1>1, AppendProperties
<1>4. DOMAIN journal' = 1..(Len(journal) + 1)
  BY <1>3, LenProperties
<1>5. now' = d
  BY <1>3 DEF now
<1> QED
  BY <1>2, <1>3, <1>4, <1>5

\* Where the last of n elements is when those before the k-th go.
LEMMA LastOfSuffix ==
    ASSUME NEW n \in Nat, NEW k \in 1..n, NEW m, m = n - k + 1
    PROVE  m \in 1..(n - k + 1) /\ k + m - 1 = n
  OBVIOUS

\* fsync of a directory: a suffix stays.
LEMMA Shrinks ==
    ASSUME TypeOK, NEW k \in DOMAIN journal, journal' = SubSeq(journal, k, Len(journal))
    PROVE  /\ journal' \in Seq(Directory) /\ journal' # <<>>
           /\ now' = now
           /\ \A i \in DOMAIN journal' : \E m \in DOMAIN journal : journal'[i] = journal[m]
<1>1. journal \in Seq(Directory)
  BY DEF TypeOK
<1>2. Len(journal) \in Nat /\ DOMAIN journal = 1..Len(journal)
  BY <1>1, LenProperties
<1>3. k \in 1..Len(journal) /\ k \in Int /\ Len(journal) \in Int /\ k <= Len(journal)
  BY <1>2
<1>4. \A i \in k..Len(journal) : journal[i] \in Directory
  BY <1>1, <1>2, <1>3, ElementOfSeq
<1>5. /\ journal' \in Seq(Directory)
      /\ Len(journal') = Len(journal) - k + 1
      /\ \A i \in 1..(Len(journal) - k + 1) : journal'[i] = journal[k + i - 1]
  BY <1>3, <1>4, SubSeqProperties
<1>6. DOMAIN journal' = 1..(Len(journal) - k + 1)
  BY <1>5, LenProperties
<1>7. journal' # <<>>
  BY <1>3, <1>5, EmptySeq
<1>8. now' = now
  <2> DEFINE m == Len(journal')
  <2>1. m = Len(journal) - k + 1
    BY <1>5
  <2> HIDE DEF m
  <2>2. m \in 1..(Len(journal) - k + 1) /\ k + m - 1 = Len(journal)
    BY <1>2, <1>3, <2>1, LastOfSuffix
  <2>3. journal'[m] = journal[k + m - 1]
    BY <1>5, <2>2
  <2> QED
    BY <2>2, <2>3, Zenon DEF now, m
<1>9. ASSUME NEW i \in DOMAIN journal' PROVE \E m \in DOMAIN journal : journal'[i] = journal[m]
  <2>1. k + i - 1 \in DOMAIN journal
    BY <1>2, <1>3, <1>6
  <2> QED
    BY <1>5, <1>6, <2>1
<1> QED
  BY <1>5, <1>7, <1>8, <1>9

\* A history has a rank for everyone.
LEMMA Ranked == TypeOK => \A c : Rank(c) \in 0..Len(published)
<1> SUFFICES ASSUME TypeOK, NEW c PROVE Rank(c) \in 0..Len(published)
  OBVIOUS
<1>1. Len(published) \in Nat /\ DOMAIN published = 1..Len(published)
  BY LenProperties DEF TypeOK
<1> QED
  BY <1>1 DEF Rank, Position

-----------------------------------------------------------------------------
(* What a step leaves alone.                                               *)

\* The files of c, and what is known of them, are still there.
Kept(c) ==
    /\ copied'[c] = copied[c] /\ digest'[c] = digest[c] /\ sources'[c] = sources[c]
    /\ \A f \in Names : /\ <<f, c>> \in written => <<f, c>> \in written'
                        /\ <<f, c>> \in synced => <<f, c>> \in synced'

\* What CrashSafe asks of one directory.
Sound(d) == d.current # None =>
    /\ d.current \in d.entries
    /\ d.current \in compact => d.current \in d.sealed
    /\ Whole(d.current)
    /\ Names \X {d.current} \subseteq synced

LEMMA SoundIsSafe == CrashSafe <=> \A i \in DOMAIN journal : Sound(journal[i])
  BY DEF CrashSafe, Sound

LEMMA WholeKept == \A c : Whole(c) /\ Kept(c) => Whole(c)'
  BY DEF Whole, Kept

LEMMA AchievedKept ==
    ASSUME NEW c \in Converters, Achieved(c), Kept(c), pc'[c] = pc[c], compact' = compact,
           now.entries \subseteq now'.entries, now.sealed \subseteq now'.sealed
    PROVE  Achieved(c)'
<1>1. "data" \in Names /\ "metadata" \in Names /\ "pointer" \in Names
  BY DEF Names
<1>2. /\ copied'[c] = copied[c] /\ digest'[c] = digest[c] /\ sources'[c] = sources[c]
      /\ <<"data", c>> \in written => <<"data", c>> \in written'
      /\ <<"metadata", c>> \in written => <<"metadata", c>> \in written'
      /\ <<"pointer", c>> \in written => <<"pointer", c>> \in written'
      /\ <<"data", c>> \in synced => <<"data", c>> \in synced'
      /\ <<"metadata", c>> \in synced => <<"metadata", c>> \in synced'
      /\ <<"pointer", c>> \in synced => <<"pointer", c>> \in synced'
  BY <1>1 DEF Kept
<1> QED
  BY <1>2 DEF Achieved

\* A step that only moves conversion c, and adds at most a sound directory to the journal,
\* keeps the invariant.
Moves(c) ==
    /\ \A d \in Converters \ {c} : Kept(d) /\ pc'[d] = pc[d]
    /\ pc[c] \in Released => pc'[c] \in Released
    /\ pc[c] \in Released /\ c \in now.entries => Kept(c)
    /\ UNCHANGED <<compact, source, opened>>
    /\ now.entries \subseteq now'.entries /\ now.sealed \subseteq now'.sealed
    /\ \A i \in DOMAIN journal' :
          journal'[i] = now' \/ \E m \in DOMAIN journal : journal'[i] = journal[m]

LEMMA Frame ==
    ASSUME IInv, NEW c \in Converters, Moves(c),
           TypeOK', Achieved(c)', Timely(c)', Ordered(now)', Sound(now)'
    PROVE  IInv'
<1>1. \A d \in Converters : pc[d] \in Released => pc'[d] \in Released
  BY DEF Moves
<1>2. \A d \in Converters : pc[d] \in Released /\ d \in now.entries => Kept(d)
  BY DEF Moves
<1>3. Progress'
  <2>1. ASSUME NEW d \in Converters \ {c} PROVE Achieved(d)'
    BY AchievedKept DEF Moves, IInv, Progress
  <2> QED
    BY <2>1 DEF Progress
<1>4. InTime'
  <2>1. ASSUME NEW d \in Converters \ {c} PROVE Timely(d)'
    BY DEF Moves, Kept, IInv, InTime, Timely
  <2> QED
    BY <2>1 DEF InTime
<1>5. ASSUME NEW m \in DOMAIN journal, journal[m].current # None
      PROVE  /\ journal[m].current \in Converters
             /\ pc[journal[m].current] \in Released
             /\ journal[m].current \in now.entries
  <2>1. Ordered(journal[m]) /\ Sound(journal[m])
    BY SoundIsSafe DEF IInv, InOrder
  <2>2. journal[m] \in Directory
    BY ElementOfSeq, LenProperties DEF IInv, TypeOK
  <2> QED
    BY <1>5, <2>1, <2>2 DEF Ordered, Sound, Directory
<1>6. InOrder'
  <2>1. ASSUME NEW m \in DOMAIN journal
        PROVE  /\ journal[m].entries \subseteq now'.entries
               /\ journal[m].current # None => pc'[journal[m].current] \in Released
    BY <1>1, <1>5 DEF Moves, IInv, InOrder, Ordered
  <2>2. ASSUME NEW i \in DOMAIN journal'
        PROVE  /\ journal'[i].entries \subseteq now'.entries
               /\ journal'[i].current # None => pc'[journal'[i].current] \in Released
    BY <2>1 DEF Moves, Ordered
  <2> QED
    BY <2>2 DEF InOrder, Ordered
<1>7. CrashSafe'
  <2>1. SUFFICES ASSUME NEW i \in DOMAIN journal', NEW d, d = journal'[i],
                        NEW e, e = d.current, e # None
                 PROVE  /\ e \in d.entries
                        /\ e \in compact' => e \in d.sealed
                        /\ Whole(e)'
                        /\ Names \X {e} \subseteq synced'
    BY DEF CrashSafe, Whole
  <2>2. CASE d = now'
    BY <2>1, <2>2 DEF Sound, Whole
  <2>3. CASE \E m \in DOMAIN journal : d = journal[m]
    <3>1. PICK m \in DOMAIN journal : d = journal[m]
      BY <2>3
    <3>2. Sound(d)
      BY <3>1, SoundIsSafe DEF IInv
    <3>3. Kept(e) /\ compact' = compact
      BY <1>2, <1>5, <2>1, <3>1 DEF Moves
    <3>4. Whole(e)'
      BY <2>1, <3>2, <3>3, WholeKept DEF Sound
    <3>5. Names \X {e} \subseteq synced'
      BY <2>1, <3>2, <3>3 DEF Sound, Kept
    <3> QED
      BY <2>1, <3>2, <3>3, <3>4, <3>5 DEF Sound
  <2> QED
    BY <2>1, <2>2, <2>3 DEF Moves
<1>8. Serves'
  <2>1. SUFFICES ASSUME NEW e, e = opened, e # None, opened' = opened PROVE Serves'
    BY DEF Serves, Moves
  <2>2. e \in compact \cup {None} /\ compact \subseteq Converters
    BY <2>1, ConverterAssumption DEF IInv, TypeOK
  <2>3. e \in Converters /\ pc[e] \in Released /\ e \in now.entries /\ Whole(e)
    BY <2>1, <2>2 DEF IInv, Serves, Whole
  <2>4. Whole(e)'
    BY <1>2, <2>3, WholeKept
  <2> QED
    BY <1>1, <2>1, <2>3, <2>4 DEF Serves, Moves, Whole
<1> QED
  BY <1>3, <1>4, <1>6, <1>7, <1>8 DEF IInv

LEMMA FrameSame ==
    ASSUME IInv, NEW c \in Converters, Moves(c), now' = now,
           TypeOK', Achieved(c)', Timely(c)'
    PROVE  IInv'
<1>1. Ordered(now) /\ Sound(now) /\ now \in Directory
  BY Present, SoundIsSafe DEF IInv, InOrder, now
<1>2. SUFFICES Ordered(now)' /\ Sound(now)'
  BY Frame
<1>3. SUFFICES ASSUME NEW e, e = now.current, e # None
               PROVE  pc'[e] \in Released /\ Whole(e)' /\ Names \X {e} \subseteq synced'
  <2>1. now'.entries \subseteq now'.entries
    OBVIOUS
  <2> QED
    BY <1>1, <1>3, <2>1 DEF Ordered, Sound, Moves, Whole
<1>4. e \in Converters /\ pc[e] \in Released /\ e \in now.entries
  BY <1>1, <1>3 DEF Ordered, Sound, Directory
<1>5. Kept(e) /\ pc'[e] \in Released
  BY <1>4 DEF Moves
<1>6. Whole(e) /\ Names \X {e} \subseteq synced
  BY <1>1, <1>3 DEF Sound, Whole
<1> QED
  BY <1>5, <1>6, WholeKept DEF Kept

\* A step of conversion c that changes only what belongs to c, and takes nothing away.
LEMMA Advances ==
    ASSUME IInv, NEW c \in Converters, NEW t \in Steps, Goto(c, t),
           pc[c] \notin Released,
           \A d \in Converters \ {c} : /\ copied'[d] = copied[d] /\ digest'[d] = digest[d]
                                       /\ sources'[d] = sources[d],
           written \subseteq written', synced \subseteq synced',
           UNCHANGED <<compact, source, opened, journal>>
    PROVE  Moves(c) /\ now' = now /\ pc'[c] = t /\ pc' \in [Converters -> Steps]
<1>1. pc \in [Converters -> Steps]
  BY DEF IInv, TypeOK
<1>2. pc'[c] = t /\ pc' \in [Converters -> Steps] /\ \A d \in Converters \ {c} : pc'[d] = pc[d]
  BY <1>1 DEF Goto
<1>3. now' = now
  BY DEF now
<1>4. \A i \in DOMAIN journal' : \E m \in DOMAIN journal : journal'[i] = journal[m]
  OBVIOUS
<1>5. \A d \in Converters \ {c} : Kept(d)
  BY DEF Kept
<1> QED
  BY <1>2, <1>3, <1>4, <1>5 DEF Moves

-----------------------------------------------------------------------------
(* The steps of a conversion that leave the directories alone.             *)

LEMMA BeginStep == ASSUME IInv, NEW c \in Converters, Begin(c) PROVE IInv'
<1> USE DEF Begin, At, files, runtime
<1>1. Moves(c) /\ now' = now /\ pc'[c] = "copy" /\ pc' \in [Converters -> Steps]
  <2>1. pc[c] \notin Released /\ "copy" \in Steps
    BY DEF Released, Steps
  <2>2. \A d \in Converters \ {c} : sources'[d] = sources[d]
    BY DEF IInv, TypeOK
  <2> QED
    BY <2>1, <2>2, Advances
<1>2. TypeOK'
  BY <1>1 DEF IInv, TypeOK
<1>3. copied'[c] = <<>> /\ sources'[c] = source
  BY DEF IInv, TypeOK, Progress, Achieved
<1>4. Achieved(c)'
  BY <1>1, <1>3, BoundAssumption DEF Achieved, Copied, DataSafe, Described, MetaSafe, Valid,
                                     Renamed, Protected
<1>5. Timely(c)'
  BY <1>3 DEF Timely, IInv, TypeOK, Versions
<1> QED
  BY <1>1, <1>2, <1>4, <1>5, FrameSame

LEMMA CopyStep == ASSUME IInv, NEW c \in Converters, Copy(c) PROVE IInv'
<1> USE DEF Copy, At, Write, files, runtime
<1> DEFINE t == IF Len(copied[c]) + 1 = Chunks THEN "syncdata" ELSE "copy"
<1>1. /\ copied \in [Converters -> Seq(Versions)] /\ copied[c] \in Seq(Versions)
      /\ source \in Versions /\ Len(copied[c]) \in Nat /\ Len(copied[c]) < Chunks
      /\ DOMAIN copied[c] = 1..Len(copied[c])
  BY LenProperties DEF IInv, TypeOK, Progress, Achieved
<1>2. /\ copied'[c] = Append(copied[c], source)
      /\ copied' \in [Converters -> Seq(Versions)]
      /\ \A d \in Converters \ {c} : copied'[d] = copied[d]
  BY <1>1, AppendProperties
<1>3. /\ Len(copied'[c]) = Len(copied[c]) + 1
      /\ DOMAIN copied'[c] = 1..(Len(copied[c]) + 1)
      /\ \A k \in 1..Len(copied[c]) : copied'[c][k] = copied[c][k]
      /\ copied'[c][Len(copied[c]) + 1] = source
  BY <1>1, <1>2, AppendProperties, LenProperties
<1>4. Moves(c) /\ now' = now /\ pc'[c] = t /\ pc' \in [Converters -> Steps]
  <2>1. pc[c] \notin Released /\ t \in Steps /\ Goto(c, t)
    BY DEF Released, Steps
  <2> HIDE DEF t
  <2> QED
    BY <1>2, <2>1, Advances
<1>5. written' \subseteq Names \X Converters /\ <<"data", c>> \in written'
  BY DEF Names, IInv, TypeOK
<1>6. TypeOK'
  <2>1. \A d \in Converters : Len(copied'[d]) <= Chunks
    <3>1. Len(copied'[c]) <= Chunks
      BY <1>1, <1>3, BoundAssumption
    <3> QED
      BY <1>2, <3>1 DEF IInv, TypeOK
  <2> QED
    BY <1>2, <1>4, <1>5, <2>1 DEF IInv, TypeOK
<1>7. Achieved(c)'
  <2>1. CASE Len(copied[c]) + 1 = Chunks
    <3>1. pc'[c] = "syncdata"
      BY <1>4, <2>1
    <3> QED
      BY <1>3, <1>5, <2>1, <3>1 DEF Achieved, Copied, DataSafe, Described, MetaSafe, Valid,
                                    Renamed, Protected
  <2>2. CASE Len(copied[c]) + 1 # Chunks
    <3>1. pc'[c] = "copy" /\ Len(copied'[c]) < Chunks
      BY <1>1, <1>3, <1>4, <2>2, BoundAssumption
    <3> QED
      BY <3>1 DEF Achieved, Copied, DataSafe, Described, MetaSafe, Valid, Renamed, Protected
  <2> QED
    BY <2>1, <2>2
<1>8. Timely(c)'
  <2>1. Timely(c)
    BY DEF IInv, InTime
  <2>2. ASSUME NEW k \in DOMAIN copied'[c]
        PROVE  sources[c] <= copied'[c][k] /\ copied'[c][k] <= source
    <3>1. k \in 1..Len(copied[c]) \/ k = Len(copied[c]) + 1
      BY <1>1, <1>3
    <3> QED
      BY <1>1, <1>3, <2>1, <3>1 DEF Timely, Versions
  <2> QED
    BY <2>1, <2>2 DEF Timely
<1> QED
  BY <1>4, <1>6, <1>7, <1>8, FrameSame

\* fsync of a file, or a new file: nothing else changes.
LEMMA FileStep ==
    ASSUME IInv, NEW c \in Converters, NEW t \in Steps, Goto(c, t), pc[c] \notin Released,
           UNCHANGED <<compact, source, sources, copied, journal, runtime, published, crashes>>,
           digest' \in [Converters -> Seq(Versions)],
           \A d \in Converters \ {c} : digest'[d] = digest[d],
           written \subseteq written', synced \subseteq synced',
           written' \subseteq Names \X Converters, synced' \subseteq written',
           Achieved(c)'
    PROVE  IInv'
<1> USE DEF runtime
<1>1. Moves(c) /\ now' = now /\ pc'[c] = t /\ pc' \in [Converters -> Steps]
  BY Advances
<1>2. TypeOK'
  BY <1>1 DEF IInv, TypeOK
<1>3. Timely(c)'
  BY DEF Timely, IInv, InTime
<1> QED
  BY <1>1, <1>2, <1>3, FrameSame

LEMMA SyncDataStep == ASSUME IInv, NEW c \in Converters, SyncData(c) PROVE IInv'
<1> USE DEF SyncData, At, Sync
<1>1. pc[c] \notin Released /\ "hash" \in Steps /\ Goto(c, "hash")
  BY DEF Released, Steps
<1>2. pc'[c] = "hash"
  BY <1>1 DEF Goto, IInv, TypeOK
<1>3. /\ written \subseteq written' /\ synced \subseteq synced' /\ synced' \subseteq written'
      /\ written' \subseteq Names \X Converters
  BY DEF IInv, TypeOK
<1>4. Achieved(c)
  BY DEF IInv, Progress
<1>5. Achieved(c)'
  BY <1>2, <1>4 DEF Achieved, Copied, DataSafe, Described, MetaSafe, Valid, Renamed, Protected
<1> QED
  BY <1>1, <1>3, <1>5, FileStep DEF IInv, TypeOK

LEMMA DescribeStep == ASSUME IInv, NEW c \in Converters, Describe(c) PROVE IInv'
<1> USE DEF Describe, At, Write
<1>1. pc[c] \notin Released /\ "syncmeta" \in Steps /\ Goto(c, "syncmeta")
  BY DEF Released, Steps
<1>2. pc'[c] = "syncmeta"
  BY <1>1 DEF Goto, IInv, TypeOK
<1>3. /\ written \subseteq written' /\ synced \subseteq synced' /\ synced' \subseteq written'
      /\ written' \subseteq Names \X Converters
  BY DEF IInv, TypeOK, Names
<1>4. Achieved(c)
  BY DEF IInv, Progress
<1>5. /\ digest' \in [Converters -> Seq(Versions)] /\ digest'[c] = copied[c]
      /\ \A d \in Converters \ {c} : digest'[d] = digest[d]
  BY DEF IInv, TypeOK
<1>6. Achieved(c)'
  BY <1>2, <1>4, <1>5 DEF Achieved, Copied, DataSafe, Described, MetaSafe, Valid, Renamed,
                          Protected
<1> QED
  BY <1>1, <1>3, <1>5, <1>6, FileStep

LEMMA SyncMetadataStep == ASSUME IInv, NEW c \in Converters, SyncMetadata(c) PROVE IInv'
<1> USE DEF SyncMetadata, At, Sync
<1>1. pc[c] \notin Released /\ "validate" \in Steps /\ Goto(c, "validate")
  BY DEF Released, Steps
<1>2. pc'[c] = "validate"
  BY <1>1 DEF Goto, IInv, TypeOK
<1>3. /\ written \subseteq written' /\ synced \subseteq synced' /\ synced' \subseteq written'
      /\ written' \subseteq Names \X Converters
  BY DEF IInv, TypeOK
<1>4. Achieved(c)
  BY DEF IInv, Progress
<1>5. Achieved(c)'
  BY <1>2, <1>4 DEF Achieved, Copied, DataSafe, Described, MetaSafe, Valid, Renamed, Protected
<1> QED
  BY <1>1, <1>3, <1>5, FileStep DEF IInv, TypeOK

LEMMA WritePointerStep == ASSUME IInv, NEW c \in Converters, WritePointer(c) PROVE IInv'
<1> USE DEF WritePointer, At, Write
<1>1. pc[c] \notin Released /\ "syncpointer" \in Steps /\ Goto(c, "syncpointer")
  BY DEF Released, Steps
<1>2. pc'[c] = "syncpointer"
  BY <1>1 DEF Goto, IInv, TypeOK
<1>3. /\ written \subseteq written' /\ synced \subseteq synced' /\ synced' \subseteq written'
      /\ written' \subseteq Names \X Converters
  BY DEF IInv, TypeOK, Names
<1>4. Achieved(c) /\ now' = now
  BY DEF IInv, Progress, now
<1>5. Achieved(c)'
  BY <1>2, <1>4 DEF Achieved, Copied, DataSafe, Described, MetaSafe, Valid, Renamed, Protected
<1> QED
  BY <1>1, <1>3, <1>5, FileStep DEF IInv, TypeOK

LEMMA SyncPointerStep == ASSUME IInv, NEW c \in Converters, SyncPointer(c) PROVE IInv'
<1> USE DEF SyncPointer, At, Sync
<1>1. pc[c] \notin Released /\ "swap" \in Steps /\ Goto(c, "swap")
  BY DEF Released, Steps
<1>2. pc'[c] = "swap"
  BY <1>1 DEF Goto, IInv, TypeOK
<1>3. /\ written \subseteq written' /\ synced \subseteq synced' /\ synced' \subseteq written'
      /\ written' \subseteq Names \X Converters
  BY DEF IInv, TypeOK
<1>4. Achieved(c) /\ now' = now
  BY DEF IInv, Progress, now
<1>5. Achieved(c)'
  BY <1>2, <1>4 DEF Achieved, Copied, DataSafe, Described, MetaSafe, Valid, Renamed, Protected
<1> QED
  BY <1>1, <1>3, <1>5, FileStep DEF IInv, TypeOK

-----------------------------------------------------------------------------
(* Validation and failure.                                                 *)

\* The clean-up takes nothing from another conversion, nor from a generation in place.
LEMMA Discards ==
    ASSUME IInv, NEW c \in Converters, Discard(c), Goto(c, "failed"),
           UNCHANGED <<compact, source, sources, copied, digest, journal, runtime, published,
                       crashes>>
    PROVE  IInv'
<1> USE DEF runtime
<1>1. pc'[c] = "failed" /\ pc' \in [Converters -> Steps]
      /\ \A d \in Converters \ {c} : pc'[d] = pc[d]
  BY DEF Goto, IInv, TypeOK, Steps
<1>2. written' \subseteq Names \X Converters /\ synced' \subseteq written'
  BY DEF Discard, IInv, TypeOK
<1>3. TypeOK'
  BY <1>1, <1>2 DEF IInv, TypeOK
<1>4. \A d \in Converters \ {c} : Kept(d)
  BY DEF Discard, Kept
<1>5. c \in now.entries => Kept(c)
  BY DEF Discard, Kept
<1>6. Moves(c) /\ now' = now
  BY <1>1, <1>4, <1>5 DEF Moves, Released, now
<1>7. Achieved(c)'
  BY <1>1 DEF Achieved, Copied, DataSafe, Described, MetaSafe, Valid, Renamed, Protected
<1>8. Timely(c)'
  BY DEF Timely, IInv, InTime
<1> QED
  BY <1>3, <1>6, <1>7, <1>8, FrameSame

LEMMA ValidateStep == ASSUME IInv, NEW c \in Converters, Validate(c) PROVE IInv'
<1> USE DEF Validate, At
<1>1. CASE ~Validates(c)
  BY <1>1, Discards
<1>2. CASE Validates(c)
  <2>1. /\ pc[c] \notin Released /\ "rename" \in Steps /\ Goto(c, "rename")
        /\ UNCHANGED <<written, synced>>
    BY <1>2 DEF Released, Steps
  <2>2. pc'[c] = "rename"
    BY <2>1 DEF Goto, IInv, TypeOK
  <2>3. Achieved(c) /\ Timely(c) /\ source = sources[c]
    BY <1>2 DEF IInv, Progress, InTime, Validates
  <2>4. /\ copied[c] \in Seq(Versions) /\ source \in Nat /\ Len(copied[c]) = Chunks
        /\ DOMAIN copied[c] = 1..Chunks
        /\ \A k \in 1..Chunks : copied[c][k] \in Nat
    <3>1. copied[c] \in Seq(Versions) /\ source \in Nat
      BY VersionsAreNumbers DEF IInv, TypeOK
    <3>2. Len(copied[c]) = Chunks
      BY <2>3 DEF Achieved, Copied
    <3> QED
      BY <3>1, <3>2, VersionsAreNumbers, LenProperties, ElementOfSeq
  <2>5. \A k \in 1..Chunks : copied[c][k] = sources[c]
    BY <2>3, <2>4 DEF Timely
  <2>6. copied[c] = [i \in 1..Chunks |-> sources[c]]
    BY <2>4, <2>5, BoundAssumption, Constant
  <2>7. Achieved(c)'
    BY <2>1, <2>2, <2>3, <2>6 DEF Achieved, Copied, DataSafe, Described, MetaSafe, Valid,
                                  Renamed, Protected
  <2>8. /\ written \subseteq written' /\ synced \subseteq synced' /\ synced' \subseteq written'
        /\ written' \subseteq Names \X Converters
    BY <2>1 DEF IInv, TypeOK
  <2> QED
    BY <2>1, <2>7, <2>8, FileStep DEF IInv, TypeOK
<1> QED
  BY <1>1, <1>2

LEMMA FailStep == ASSUME IInv, NEW c \in Converters, Fail(c) PROVE IInv'
  BY Discards DEF Fail

-----------------------------------------------------------------------------
(* The steps that make directories durable.                                *)

LEMMA SecureStep ==
    ASSUME IInv, NEW c \in Converters, NEW t \in Steps, Goto(c, t),
           pc[c] \in Released => t \in Released,
           NEW k \in DOMAIN journal, journal' = SubSeq(journal, k, Len(journal)),
           UNCHANGED <<compact, source, sources, files, runtime, published, crashes>>,
           pc'[c] = t /\ now' = now => Achieved(c)'
    PROVE  IInv'
<1> USE DEF files, runtime
<1>1. /\ pc'[c] = t /\ pc' \in [Converters -> Steps]
      /\ \A d \in Converters \ {c} : pc'[d] = pc[d]
  BY DEF Goto, IInv, TypeOK
<1>2. /\ journal' \in Seq(Directory) /\ journal' # <<>> /\ now' = now
      /\ \A i \in DOMAIN journal' : \E m \in DOMAIN journal : journal'[i] = journal[m]
  BY Shrinks DEF IInv
<1>3. TypeOK'
  BY <1>1, <1>2 DEF IInv, TypeOK
<1>4. \A d \in Converters : Kept(d)
  BY DEF Kept
<1>5. Moves(c)
  BY <1>1, <1>2, <1>4 DEF Moves
<1>6. Timely(c)'
  BY DEF Timely, IInv, InTime
<1> QED
  BY <1>1, <1>2, <1>3, <1>5, <1>6, FrameSame

LEMMA SyncGenerationStep == ASSUME IInv, NEW c \in Converters, SyncGeneration(c) PROVE IInv'
<1> USE DEF SyncGeneration, At
<1>1. PICK k \in DOMAIN journal : journal' = SubSeq(journal, k, Len(journal))
  BY DEF Secure
<1>2. "syncgens" \in Steps /\ pc[c] \notin Released
  BY DEF Steps, Released
<1>3. Achieved(c)
  BY DEF IInv, Progress
<1>4. pc'[c] = "syncgens" /\ now' = now => Achieved(c)'
  BY <1>3 DEF Achieved, Copied, DataSafe, Described, MetaSafe, Valid, Renamed, Protected, files
<1> QED
  BY <1>1, <1>2, <1>4, SecureStep

LEMMA SyncGenerationsStep ==
    ASSUME IInv, NEW c \in Converters, SyncGenerations(c) PROVE IInv'
<1> USE DEF SyncGenerations, At
<1>1. PICK k \in DOMAIN journal : journal' = SubSeq(journal, k, Len(journal))
  BY DEF Secure
<1>2. "point" \in Steps /\ pc[c] \notin Released
  BY DEF Steps, Released
<1>3. Achieved(c)
  BY DEF IInv, Progress
<1>4. pc'[c] = "point" /\ now' = now => Achieved(c)'
  BY <1>3 DEF Achieved, Copied, DataSafe, Described, MetaSafe, Valid, Renamed, Protected, files
<1> QED
  BY <1>1, <1>2, <1>4, SecureStep

LEMMA SyncOutputStep == ASSUME IInv, NEW c \in Converters, SyncOutput(c) PROVE IInv'
<1> USE DEF SyncOutput, At
<1>1. PICK k \in DOMAIN journal : journal' = SubSeq(journal, k, Len(journal))
  BY DEF Secure
<1>2. "done" \in Steps /\ "done" \in Released
  BY DEF Steps, Released
<1>3. pc'[c] = "done" /\ now' = now => Achieved(c)'
  BY DEF Achieved, Copied, DataSafe, Described, MetaSafe, Valid, Renamed, Protected
<1> QED
  BY <1>1, <1>2, <1>3, SecureStep

-----------------------------------------------------------------------------
(* The steps that change the directories.                                  *)

LEMMA JournalStep ==
    ASSUME IInv, NEW c \in Converters, NEW t \in Steps, Goto(c, t), pc[c] \notin Released,
           NEW d \in Directory, Journal(d),
           now.entries \subseteq d.entries, now.sealed \subseteq d.sealed,
           UNCHANGED <<compact, source, sources, files, runtime, crashes>>,
           published' \in Seq(Converters),
           Sound(d),
           d.current # None =>
               (d.current = c /\ t \in Released) \/ d.current = now.current,
           pc'[c] = t /\ now' = d => Achieved(c)'
    PROVE  IInv'
<1> USE DEF files, runtime
<1>1. /\ pc'[c] = t /\ pc' \in [Converters -> Steps]
      /\ \A e \in Converters \ {c} : pc'[e] = pc[e]
  BY DEF Goto, IInv, TypeOK
<1>2. /\ journal' \in Seq(Directory) /\ journal' # <<>> /\ now' = d
      /\ \A i \in DOMAIN journal' :
           journal'[i] = d \/ \E m \in DOMAIN journal : journal'[i] = journal[m]
  BY Grows DEF IInv, Journal
<1>3. TypeOK'
  BY <1>1, <1>2 DEF IInv, TypeOK
<1>4. \A e \in Converters : Kept(e)
  BY DEF Kept
<1>5. Moves(c)
  BY <1>1, <1>2, <1>4 DEF Moves
<1>6. Timely(c)'
  BY DEF Timely, IInv, InTime
<1>7. Sound(now)'
  BY <1>2 DEF Sound, Whole
<1>8. Ordered(now)'
  <2>1. ASSUME d.current # None PROVE pc'[d.current] \in Released
    <3>1. CASE d.current = c /\ t \in Released
      BY <1>1, <3>1
    <3>2. CASE d.current = now.current
      <4>1. now.current # None => pc[now.current] \in Released
        BY Present DEF IInv, InOrder, Ordered, now
      <4>2. d.current \in Converters /\ pc[d.current] \in Released /\ d.current # c
        BY <2>1, <3>2, <4>1 DEF Directory
      <4> QED
        BY <1>1, <4>2
    <3> QED
      BY <2>1, <3>1, <3>2
  <2> QED
    BY <1>2, <2>1 DEF Ordered
<1> QED
  BY <1>1, <1>2, <1>3, <1>5, <1>6, <1>7, <1>8, Frame

LEMMA PresentSound == IInv => Sound(now)
  BY Present, SoundIsSafe DEF IInv, now

LEMMA RenameStep == ASSUME IInv, NEW c \in Converters, Rename(c) PROVE IInv'
<1> USE DEF Rename, At
<1> DEFINE d == [now EXCEPT !.entries = @ \cup {c}]
           t == IF c \in compact THEN "seal" ELSE "syncgens"
<1>1. now \in Directory
  BY Present DEF IInv
<1>2. /\ d \in Directory /\ d.entries = now.entries \cup {c} /\ d.sealed = now.sealed
      /\ d.current = now.current
  BY <1>1 DEF Directory
<1>3. t \in Steps /\ pc[c] \notin Released /\ Goto(c, t) /\ Journal(d)
  BY DEF Steps, Released
<1>4. Sound(d)
  BY <1>2, PresentSound DEF Sound
<1>5. Achieved(c)
  BY DEF IInv, Progress
<1>6. pc'[c] = t /\ now' = d => Achieved(c)'
  BY <1>2, <1>5 DEF Achieved, Copied, DataSafe, Described, MetaSafe, Valid, Renamed, Protected,
                    files
<1>7. published' \in Seq(Converters)
  BY DEF IInv, TypeOK
<1>8. PICK e \in Directory : e = d
  BY <1>2
<1>9. PICK u \in Steps : u = t
  BY <1>3
<1> HIDE DEF d, t
<1> QED
  BY <1>2, <1>3, <1>4, <1>6, <1>7, <1>8, <1>9, JournalStep

LEMMA SealStep == ASSUME IInv, NEW c \in Converters, Seal(c) PROVE IInv'
<1> USE DEF Seal, At
<1> DEFINE d == [now EXCEPT !.sealed = @ \cup {c}]
<1>1. now \in Directory
  BY Present DEF IInv
<1>2. /\ d \in Directory /\ d.entries = now.entries /\ d.sealed = now.sealed \cup {c}
      /\ d.current = now.current
  BY <1>1 DEF Directory
<1>3. "syncgen" \in Steps /\ pc[c] \notin Released /\ Goto(c, "syncgen") /\ Journal(d)
  BY DEF Steps, Released
<1>4. Sound(d)
  BY <1>2, PresentSound DEF Sound
<1>5. Achieved(c)
  BY DEF IInv, Progress
<1>6. pc'[c] = "syncgen" /\ now' = d => Achieved(c)'
  BY <1>2, <1>5 DEF Achieved, Copied, DataSafe, Described, MetaSafe, Valid, Renamed, Protected,
                    files
<1>7. published' \in Seq(Converters)
  BY DEF IInv, TypeOK
<1>8. PICK e \in Directory : e = d
  BY <1>2
<1> HIDE DEF d
<1> QED
  BY <1>2, <1>3, <1>4, <1>6, <1>7, <1>8, JournalStep

LEMMA SwapStep == ASSUME IInv, NEW c \in Converters, Swap(c) PROVE IInv'
<1> USE DEF Swap, At
<1> DEFINE d == [now EXCEPT !.current = c]
<1>1. now \in Directory
  BY Present DEF IInv
<1>2. /\ d \in Directory /\ d.entries = now.entries /\ d.sealed = now.sealed
      /\ d.current = c
  BY <1>1 DEF Directory
<1>3. /\ "syncout" \in Steps /\ "syncout" \in Released
      /\ pc[c] \notin Released /\ Goto(c, "syncout") /\ Journal(d)
  BY DEF Steps, Released
<1>4. Achieved(c)
  BY DEF IInv, Progress
<1>5. Sound(d)
  <2>1. /\ c \in now.entries
        /\ c \in compact => c \in now.sealed
        /\ copied[c] = [i \in 1..Chunks |-> sources[c]] /\ digest[c] = copied[c]
        /\ <<"data", c>> \in synced /\ <<"metadata", c>> \in synced
        /\ <<"pointer", c>> \in synced
    BY <1>4 DEF Achieved, Copied, DataSafe, Described, MetaSafe, Valid, Renamed, Protected
  <2> HIDE DEF d, Swap
  <2>2. Names \X {c} \subseteq synced
    BY <2>1 DEF Names
  <2>3. Names \X {c} \subseteq written
    BY <2>2 DEF IInv, TypeOK
  <2>4. Whole(c)
    BY <2>1, <2>3 DEF Whole
  <2> QED
    BY <1>2, <2>1, <2>2, <2>4 DEF Sound
<1>6. pc'[c] = "syncout" /\ now' = d => Achieved(c)'
  BY DEF Achieved, Copied, DataSafe, Described, MetaSafe, Valid, Renamed, Protected
<1>7. published' \in Seq(Converters)
  BY AppendProperties DEF IInv, TypeOK
<1>8. PICK e \in Directory : e = d
  BY <1>2
<1> HIDE DEF d
<1> QED
  BY <1>2, <1>3, <1>5, <1>6, <1>7, <1>8, JournalStep

-----------------------------------------------------------------------------
(* Enrolment, start-up, the source, a crash.                               *)

\* Enrolment and start-up touch neither files nor directories.
LEMMA RuntimeStep ==
    ASSUME IInv, UNCHANGED <<compact, source, pc, sources, files, journal, published, crashes>>,
           TypeOK', Serves'
    PROVE  IInv'
<1> USE DEF files
<1>1. Progress' /\ InTime' /\ InOrder'
  BY DEF IInv, Progress, Achieved, InTime, Timely, InOrder, Ordered, now
<1>2. CrashSafe'
  BY DEF IInv, CrashSafe, Whole
<1> QED
  BY <1>1, <1>2 DEF IInv

LEMMA EnrollStep ==
    ASSUME IInv, EnrollHash \/ \E c \in Converters : EnrollLoad(c) PROVE IInv'
<1>1. CASE EnrollHash
  <2>1. identity' \in Identity
    <3>1. enroller \in Converters
      BY <1>1, ConverterAssumption DEF EnrollHash, IInv, TypeOK
    <3>2. Named \in Converters \cup {None}
      BY Present DEF IInv, Named, Directory
    <3> QED
      BY <1>1, <3>1, <3>2 DEF EnrollHash, Identity
  <2>2. TypeOK'
    BY <1>1, <2>1 DEF EnrollHash, files, IInv, TypeOK
  <2>3. Serves'
    BY <1>1 DEF EnrollHash, files, IInv, Serves, Whole, now
  <2> QED
    BY <1>1, <2>2, <2>3, RuntimeStep DEF EnrollHash
<1>2. ASSUME NEW c \in Converters, EnrollLoad(c) PROVE IInv'
  <2>1. TypeOK'
    BY <1>2 DEF EnrollLoad, Loads, files, IInv, TypeOK
  <2>2. Serves'
    BY <1>2 DEF EnrollLoad, files, IInv, Serves, Whole, now
  <2> QED
    BY <1>2, <2>1, <2>2, RuntimeStep DEF EnrollLoad
<1> QED
  BY <1>1, <1>2

LEMMA StartStep ==
    ASSUME IInv, CheckCurrent \/ CheckGeneration \/ OpenReader \/ Stop PROVE IInv'
<1>1. CASE CheckCurrent
  <2>1. TypeOK'
    BY <1>1 DEF CheckCurrent, files, IInv, TypeOK
  <2>2. Serves'
    BY <1>1 DEF CheckCurrent, files, IInv, Serves, Whole, now
  <2> QED
    BY <1>1, <2>1, <2>2, RuntimeStep DEF CheckCurrent
<1>2. CASE CheckGeneration
  <2>1. TypeOK'
    BY <1>2 DEF CheckGeneration, files, IInv, TypeOK
  <2>2. Serves'
    BY <1>2 DEF CheckGeneration, files, IInv, Serves, Whole, now
  <2> QED
    BY <1>2, <2>1, <2>2, RuntimeStep DEF CheckGeneration
<1>3. CASE OpenReader
  <2>1. CASE UNCHANGED opened
    <3>1. TypeOK'
      BY <1>3, <2>1 DEF OpenReader, files, IInv, TypeOK
    <3>2. Serves'
      BY <1>3, <2>1 DEF OpenReader, files, IInv, Serves, Whole, now
    <3> QED
      BY <1>3, <3>1, <3>2, RuntimeStep DEF OpenReader
  <2>2. ASSUME NEW c \in Converters, Loads(c, FALSE), opened' = c, server' = "serving"
        PROVE  IInv'
    <3>1. TypeOK'
      BY <1>3, <2>2 DEF OpenReader, Loads, files, IInv, TypeOK
    <3>2. c = now.current /\ c # None /\ c \in now.entries
      BY <2>2, ConverterAssumption DEF Loads, Named
    <3>3. pc[c] \in Released /\ Whole(c)
      BY <3>2, Present, PresentSound DEF IInv, InOrder, Ordered, Sound, Whole, now
    <3>4. Serves'
      BY <1>3, <2>2, <3>2, <3>3 DEF OpenReader, files, Serves, Whole, now
    <3> QED
      BY <1>3, <3>1, <3>4, RuntimeStep DEF OpenReader
  <2> QED
    BY <1>3, <2>1, <2>2 DEF OpenReader
<1>4. CASE Stop
  <2>1. TypeOK'
    BY <1>4 DEF Stop, files, IInv, TypeOK
  <2>2. Serves'
    BY <1>4 DEF Stop, Serves
  <2> QED
    BY <1>4, <2>1, <2>2, RuntimeStep DEF Stop
<1> QED
  BY <1>1, <1>2, <1>3, <1>4

LEMMA SourceStep == ASSUME IInv, SourceChanges PROVE IInv'
<1> USE DEF SourceChanges, files, runtime
<1>1. source \in Nat /\ source' = source + 1 /\ source' \in Versions
  BY BoundAssumption, VersionsAreNumbers DEF IInv, TypeOK, Versions
<1>2. TypeOK'
  BY <1>1 DEF IInv, TypeOK
<1>3. InTime'
  <2>1. SUFFICES ASSUME NEW c \in Converters PROVE Timely(c)'
    BY DEF InTime
  <2>2. /\ sources[c] \in Nat
        /\ \A k \in DOMAIN copied[c] : copied[c][k] \in Nat
    BY VersionsAreNumbers, LenProperties, ElementOfSeq DEF IInv, TypeOK
  <2>3. Timely(c)
    BY DEF IInv, InTime
  <2> QED
    BY <1>1, <2>2, <2>3 DEF Timely
<1>4. Progress' /\ InOrder'
  BY DEF IInv, Progress, Achieved, InOrder, Ordered, now
<1>5. CrashSafe'
  <2>1. UNCHANGED <<compact, journal, sources, copied, digest, written, synced>>
    OBVIOUS
  <2>2. CrashSafe
    BY DEF IInv
  <2> HIDE DEF SourceChanges, files, runtime
  <2> QED
    BY <2>1, <2>2 DEF CrashSafe, Whole
<1>6. Serves'
  BY DEF IInv, Serves, Whole, now
<1> QED
  BY <1>2, <1>3, <1>4, <1>5, <1>6 DEF IInv

LEMMA CrashStep == ASSUME IInv, Crash PROVE IInv'
<1> USE DEF Crash
<1>1. PICK i \in DOMAIN journal :
        /\ journal' = <<journal[i]>>
        /\ published' = SubSeq(published, 1, Rank(journal[i].current))
  OBVIOUS
<1>2. PICK d \in Directory : d = journal[i]
  BY ElementOfSeq, LenProperties DEF IInv, TypeOK
<1>3. Sound(d) /\ Ordered(d)
  BY <1>2, SoundIsSafe DEF IInv, InOrder
<1>4. journal' = <<d>> /\ now' = d /\ DOMAIN journal' = {1} /\ journal'[1] = d
  BY <1>1, <1>2 DEF now
<1>5. /\ synced \subseteq written' /\ written' \subseteq written /\ synced' = written'
  OBVIOUS
<1>6. /\ pc' \in [Converters -> Steps]
      /\ \A c \in Converters : /\ pc[c] \in Released => pc'[c] \in Released
                               /\ pc'[c] = "idle" => pc[c] = "idle"
                               /\ pc'[c] \in {"idle", "done", "failed", "crashed"}
  BY DEF IInv, TypeOK, Steps, Released
<1>7. published' \in Seq(Converters)
  <2>1. published \in Seq(Converters) /\ Rank(d.current) \in 0..Len(published)
    BY Ranked DEF IInv, TypeOK
  <2>2. Len(published) \in Nat
    BY <2>1, LenProperties
  <2>3. \A k \in 1..Rank(d.current) : published[k] \in Converters
    BY <2>1, <2>2, ElementOfSeq
  <2>4. Rank(d.current) \in Int
    BY <2>1
  <2>5. SubSeq(published, 1, Rank(d.current)) \in Seq(Converters)
    BY <2>3, <2>4, SubSeqProperties
  <2> QED
    BY <1>1, <1>2, <2>5
<1>8. crashes' \in 0..MaxCrashes
  BY BoundAssumption DEF IInv, TypeOK
<1>9. TypeOK'
  <2>1. journal' \in Seq(Directory) /\ journal' # <<>>
    BY <1>4
  <2>2. written' \subseteq Names \X Converters /\ synced' \subseteq written'
    BY <1>5 DEF IInv, TypeOK
  <2> QED
    BY <1>6, <1>7, <1>8, <2>1, <2>2 DEF IInv, TypeOK
<1>10. Progress'
  BY <1>6 DEF IInv, Progress, Achieved, Copied, DataSafe, Described, MetaSafe, Valid, Renamed,
              Protected
<1>11. InTime'
  BY DEF IInv, InTime, Timely
<1>12. d.current # None => d.current \in Converters /\ pc'[d.current] \in Released
  BY <1>2, <1>3, <1>6 DEF Ordered, Directory
<1>13. InOrder'
  BY <1>4, <1>12 DEF InOrder, Ordered
<1>14. CrashSafe'
  <2>1. SUFFICES ASSUME NEW e, e = d.current, e # None
                 PROVE  Whole(e)' /\ Names \X {e} \subseteq synced'
    BY <1>3, <1>4 DEF CrashSafe, Sound, Whole
  <2>2. Names \X {e} \subseteq written' /\ Names \X {e} \subseteq synced'
    BY <1>3, <1>5, <2>1 DEF Sound
  <2> QED
    BY <1>3, <2>1, <2>2 DEF Sound, Whole
<1>15. Serves'
  BY DEF Serves
<1> QED
  BY <1>9, <1>10, <1>11, <1>13, <1>14, <1>15 DEF IInv

-----------------------------------------------------------------------------
(* The theorems.                                                           *)

LEMMA Initially == Init => IInv
<1> SUFFICES ASSUME Init PROVE IInv
  OBVIOUS
<1> DEFINE d == [entries |-> {}, sealed |-> {}, current |-> None]
<1>1. journal = <<d>> /\ d \in Directory /\ now = d
  BY DEF Init, now, Directory
<1>2. \A i \in DOMAIN journal : journal[i] = d
  BY <1>1
<1>3. 0 \in Versions /\ 0 \in 0..MaxCrashes
  BY BoundAssumption DEF Versions
<1>4. \A c \in Converters :
         copied[c] = <<>> /\ copied[c] \in Seq(Versions) /\ Len(copied[c]) = 0
  BY EmptySeq DEF Init
<1>5. TypeOK
  <2>1. journal \in Seq(Directory) /\ journal # <<>>
    BY <1>1
  <2>2. \A c \in Converters : Len(copied[c]) <= Chunks
    BY <1>4, BoundAssumption
  <2>3. copied \in [Converters -> Seq(Versions)] /\ digest \in [Converters -> Seq(Versions)]
    BY EmptySeq DEF Init
  <2>4. published \in Seq(Converters)
    BY EmptySeq DEF Init
  <2> QED
    BY <1>3, <2>1, <2>2, <2>3, <2>4 DEF Init, TypeOK, Steps
<1>6. Progress
  BY <1>4 DEF Init, Progress, Achieved, Copied, DataSafe, Described, MetaSafe, Valid, Renamed,
              Protected
<1>7. InTime
  <2>1. \A c \in Converters : DOMAIN copied[c] = {}
    BY DEF Init
  <2> QED
    BY <2>1 DEF Init, InTime, Timely
<1>8. InOrder
  BY <1>1, <1>2 DEF InOrder, Ordered
<1>9. CrashSafe
  BY <1>2 DEF CrashSafe
<1>10. Serves
  BY DEF Init, Serves
<1> QED
  BY <1>5, <1>6, <1>7, <1>8, <1>9, <1>10 DEF IInv

LEMMA Step == IInv /\ [Next]_vars => IInv'
<1> SUFFICES ASSUME IInv, [Next]_vars PROVE IInv'
  OBVIOUS
<1>1. ASSUME NEW c \in Converters, Convert(c) PROVE IInv'
  BY <1>1, BeginStep, CopyStep, SyncDataStep, DescribeStep, SyncMetadataStep, ValidateStep,
     RenameStep, SealStep, SyncGenerationStep, SyncGenerationsStep, WritePointerStep,
     SyncPointerStep, SwapStep, SyncOutputStep, FailStep DEF Convert
<1>2. CASE UNCHANGED vars
  <2>1. TypeOK' /\ Serves'
    BY <1>2 DEF vars, files, runtime, IInv, TypeOK, Serves, Whole, now
  <2> QED
    BY <1>2, <2>1, RuntimeStep DEF vars
<1> QED
  BY <1>1, <1>2, EnrollStep, StartStep, SourceStep, CrashStep DEF Next

LEMMA Invariance == Spec => []IInv
  BY Initially, Step, PTL DEF Spec

\* Converters, files, directories and the runtime keep their types.
THEOREM TypeCorrect == Spec => []TypeOK
  BY Invariance, PTL DEF IInv

\* Whatever a crash leaves, at any step of any number of conversions of both formats, the
\* generation that CURRENT names is in place, protected, whole and durable.
THEOREM CurrentIsSafe == Spec => []CrashSafe
  BY Invariance, PTL DEF IInv

\* What the reader has open is a whole copy of one version of the source.
THEOREM ServedIsWhole == Spec => []ServedWhole
<1>1. IInv => ServedWhole
  BY DEF IInv, Serves, ServedWhole
<1> QED
  BY <1>1, Invariance, PTL

-----------------------------------------------------------------------------
(* The order of publication.                                               *)

\* CURRENT has named each generation once.
Once(p) == \A i, j \in DOMAIN p : p[i] = p[j] => i = j

\* What has been published is whole and durable, and its conversion touches it no more.
Settled == \A c \in Converters :
    /\ Rank(c) > 0 => pc[c] \in Released /\ Whole(c) /\ Names \X {c} \subseteq synced
    /\ pc[c] = "syncout" => Rank(c) > 0 /\ c \in now.entries

\* Along the journal CURRENT names later and later generations, the last of all at its end.
Forward ==
    /\ \A i \in DOMAIN journal : journal[i].current # None => Rank(journal[i].current) > 0
    /\ \A i, j \in DOMAIN journal :
          i <= j => Rank(journal[i].current) <= Rank(journal[j].current)
    /\ Rank(now.current) = Len(published)

History == Once(published) /\ Settled /\ Forward /\ ReturnedIsDurable

\* The CURRENT of an identity is the one of the generation that was loaded, or a later one.
Genuine(id) == id # None =>
    /\ id.current # None /\ pc[id.current] \in Released
    /\ id.generation # id.current /\ Rank(id.current) > 0 =>
          Rank(id.generation) \in 1..(Rank(id.current) - 1)
Enrolled ==
    /\ enroller # None => Rank(enroller) > 0
    /\ Genuine(identity) /\ Genuine(claim)
    /\ server \in {"checked", "validated", "serving"} =>
          claim # None /\ Rank(claim.current) > 0
    /\ TornIdentityRefused

OInv == IInv /\ History /\ Enrolled

LEMMA PositionType ==
    ASSUME NEW p \in Seq(Converters), NEW c
    PROVE  /\ Position(p, c) \in 0..Len(p) /\ Len(p) \in Nat
           /\ Position(p, c) > 0 => p[Position(p, c)] = c
           /\ (\E i \in DOMAIN p : p[i] = c) => Position(p, c) > 0
<1>1. Len(p) \in Nat /\ DOMAIN p = 1..Len(p)
  BY LenProperties
<1> QED
  BY <1>1 DEF Position

LEMMA PositionOf ==
    ASSUME NEW p \in Seq(Converters), Once(p), NEW i \in DOMAIN p
    PROVE  Position(p, p[i]) = i
BY DEF Once, Position

LEMMA PositionInPrefix ==
    ASSUME NEW p \in Seq(Converters), Once(p), NEW n \in 0..Len(p)
    PROVE  /\ SubSeq(p, 1, n) \in Seq(Converters) /\ Once(SubSeq(p, 1, n))
           /\ Len(SubSeq(p, 1, n)) = n
           /\ \A c : Position(SubSeq(p, 1, n), c)
                       = IF Position(p, c) <= n THEN Position(p, c) ELSE 0
<1> DEFINE q == SubSeq(p, 1, n)
<1>0. q = SubSeq(p, 1, n)
  OBVIOUS
<1> HIDE DEF q
<1>1. Len(p) \in Nat /\ DOMAIN p = 1..Len(p) /\ n \in Int
  BY LenProperties
<1>2. \A k \in 1..n : p[k] \in Converters
  BY <1>1, ElementOfSeq
<1>3. q \in Seq(Converters) /\ Len(q) = n - 1 + 1 /\ \A k \in 1..(n - 1 + 1) : q[k] = p[1 + k - 1]
  <2>1. 1 \in Int
    OBVIOUS
  <2>2. Len(q) = IF 1 <= n THEN n - 1 + 1 ELSE 0
    BY <1>0, <1>1, <1>2, SubSeqProperties
  <2>3. q \in Seq(Converters) /\ \A k \in 1..(n - 1 + 1) : q[k] = p[1 + k - 1]
    BY <1>0, <1>1, <1>2, SubSeqProperties
  <2> QED
    BY <1>1, <2>2, <2>3
<1>4. Len(q) = n /\ DOMAIN q = 1..n /\ \A k \in 1..n : q[k] = p[k]
  BY <1>1, <1>3, LenProperties
<1>5. Once(q)
  BY <1>1, <1>4 DEF Once
<1>6. ASSUME NEW c
      PROVE  Position(q, c) = IF Position(p, c) <= n THEN Position(p, c) ELSE 0
  <2>1. CASE \E i \in DOMAIN q : q[i] = c
    <3>1. PICK i \in 1..n : q[i] = c /\ p[i] = c
      BY <1>4, <2>1
    <3>2. Position(q, c) = i
      BY <1>3, <1>4, <1>5, <3>1, PositionOf
    <3>3. Position(p, c) = i
      BY <1>1, <3>1, PositionOf
    <3> QED
      BY <3>2, <3>3
  <2>2. CASE ~\E i \in DOMAIN q : q[i] = c
    <3>1. Position(q, c) = 0
      BY <2>2 DEF Position
    <3>2. PICK m \in 0..Len(p) : m = Position(p, c)
      BY PositionType
    <3>3. m > 0 => p[m] = c
      BY <3>2, PositionType
    <3>4. ~(m > 0 /\ m <= n)
      <4> SUFFICES ASSUME m > 0, m <= n PROVE FALSE
        OBVIOUS
      <4>1. m \in 1..n
        BY <1>1
      <4> QED
        BY <1>4, <2>2, <3>3, <4>1
    <3> QED
      BY <1>1, <3>1, <3>2, <3>4
  <2> QED
    BY <2>1, <2>2
<1> QED
  BY <1>0, <1>3, <1>4, <1>5, <1>6

LEMMA PositionAfterAppend ==
    ASSUME NEW p \in Seq(Converters), Once(p), NEW c \in Converters, Position(p, c) = 0
    PROVE  /\ Append(p, c) \in Seq(Converters) /\ Once(Append(p, c))
           /\ Len(Append(p, c)) = Len(p) + 1
           /\ Position(Append(p, c), c) = Len(p) + 1
           /\ \A d : d # c => Position(Append(p, c), d) = Position(p, d)
<1> DEFINE q == Append(p, c)
<1>0. q = Append(p, c)
  OBVIOUS
<1> HIDE DEF q
<1>1. Len(p) \in Nat /\ DOMAIN p = 1..Len(p)
  BY LenProperties
<1>2. /\ q \in Seq(Converters) /\ Len(q) = Len(p) + 1
      /\ \A i \in 1..Len(p) : q[i] = p[i]
      /\ q[Len(p) + 1] = c
  BY <1>0, AppendProperties
<1>3. DOMAIN q = 1..(Len(p) + 1)
  BY <1>2, LenProperties
<1>4. \A i \in 1..Len(p) : p[i] # c
  BY <1>1, PositionType
<1>5. \A i \in DOMAIN q : i \in 1..Len(p) \/ i = Len(p) + 1
  BY <1>1, <1>3
<1>6. Once(q)
  BY <1>1, <1>2, <1>4, <1>5 DEF Once
<1>7. Position(q, c) = Len(p) + 1
  <2>1. Len(p) + 1 \in DOMAIN q
    BY <1>1, <1>3
  <2> QED
    BY <1>2, <1>6, <2>1, PositionOf
<1>8. ASSUME NEW d, d # c PROVE Position(q, d) = Position(p, d)
  <2>1. CASE \E i \in 1..Len(p) : p[i] = d
    <3>1. PICK i \in 1..Len(p) : p[i] = d
      BY <2>1
    <3>2. i \in DOMAIN q /\ q[i] = d
      BY <1>1, <1>2, <1>3, <3>1
    <3>3. Position(p, d) = i
      BY <1>1, <3>1, PositionOf
    <3>4. Position(q, d) = i
      BY <1>2, <1>6, <3>2, PositionOf
    <3> QED
      BY <3>3, <3>4
  <2>2. CASE ~\E i \in 1..Len(p) : p[i] = d
    <3>1. ~\E i \in DOMAIN q : q[i] = d
      BY <1>2, <1>5, <1>8, <2>2
    <3> QED
      BY <1>1, <2>2, <3>1 DEF Position
  <2> QED
    BY <2>1, <2>2
<1> QED
  BY <1>0, <1>2, <1>6, <1>7, <1>8
-----------------------------------------------------------------------------
(* The history.                                                            *)

\* The journal names what it named, in the same order.
Follows ==
    /\ now.entries \subseteq now'.entries /\ now'.current = now.current
    /\ \A i, j \in DOMAIN journal' : i <= j =>
          \E m, n \in DOMAIN journal :
             m <= n /\ journal'[i].current = journal[m].current
                    /\ journal'[j].current = journal[n].current

LEMMA FollowsSame == journal' = journal => Follows
  BY DEF Follows, now

LEMMA FollowsGrows ==
    ASSUME TypeOK, NEW d \in Directory, journal' = Append(journal, d),
           d.current = now.current, now.entries \subseteq d.entries
    PROVE  Follows
<1>1. journal \in Seq(Directory) /\ Len(journal) \in DOMAIN journal
  BY Present DEF TypeOK
<1>2. Len(journal) \in Nat /\ DOMAIN journal = 1..Len(journal)
  BY <1>1, LenProperties
<1>3. /\ journal' \in Seq(Directory) /\ Len(journal') = Len(journal) + 1
      /\ \A i \in 1..Len(journal) : journal'[i] = journal[i]
      /\ journal'[Len(journal) + 1] = d
  BY <1>1, AppendProperties
<1>4. DOMAIN journal' = 1..(Len(journal) + 1)
  BY <1>3, LenProperties
<1>5. now' = d
  BY Grows
<1>6. ASSUME NEW i \in DOMAIN journal', NEW j \in DOMAIN journal', i <= j
      PROVE  \E m, n \in DOMAIN journal :
             m <= n /\ journal'[i].current = journal[m].current
                    /\ journal'[j].current = journal[n].current
  <2> DEFINE back(k) == IF k = Len(journal) + 1 THEN Len(journal) ELSE k
  <2>1. back(i) \in DOMAIN journal /\ back(j) \in DOMAIN journal /\ back(i) <= back(j)
    BY <1>1, <1>2, <1>4, <1>6
  <2>2. ASSUME NEW k \in DOMAIN journal' PROVE journal'[k].current = journal[back(k)].current
    BY <1>2, <1>3, <1>4 DEF now
  <2> HIDE DEF back
  <2> QED
    BY <2>1, <2>2
<1> QED
  BY <1>5, <1>6 DEF Follows

LEMMA FollowsShrinks ==
    ASSUME TypeOK, NEW k \in DOMAIN journal, journal' = SubSeq(journal, k, Len(journal))
    PROVE  Follows
<1>1. journal \in Seq(Directory)
  BY DEF TypeOK
<1>2. Len(journal) \in Nat /\ DOMAIN journal = 1..Len(journal) /\ k \in Int
  BY <1>1, LenProperties
<1>3. \A i \in k..Len(journal) : journal[i] \in Directory
  BY <1>1, <1>2, ElementOfSeq
<1>4. /\ journal' \in Seq(Directory)
      /\ Len(journal') = Len(journal) - k + 1
      /\ \A i \in 1..(Len(journal) - k + 1) : journal'[i] = journal[k + i - 1]
  BY <1>2, <1>3, SubSeqProperties
<1>5. DOMAIN journal' = 1..(Len(journal) - k + 1)
  BY <1>4, LenProperties
<1>6. now' = now
  BY Shrinks
<1>7. ASSUME NEW i \in DOMAIN journal', NEW j \in DOMAIN journal', i <= j
      PROVE  \E m, n \in DOMAIN journal :
             m <= n /\ journal'[i].current = journal[m].current
                    /\ journal'[j].current = journal[n].current
  <2>1. k + i - 1 \in DOMAIN journal /\ k + j - 1 \in DOMAIN journal /\ k + i - 1 <= k + j - 1
    BY <1>2, <1>5, <1>7
  <2>2. journal'[i] = journal[k + i - 1] /\ journal'[j] = journal[k + j - 1]
    BY <1>4, <1>5
  <2> QED
    BY <2>1, <2>2
<1> QED
  BY <1>6, <1>7 DEF Follows

\* A step that publishes nothing and leaves alone what is published.
Steady ==
    /\ published' = published
    /\ \A d \in Converters :
          /\ pc[d] \in Released => pc'[d] \in Released
          /\ Rank(d) > 0 => Kept(d)
          /\ pc'[d] = "syncout" => pc[d] = "syncout"
          /\ pc'[d] = "done" =>
                \/ pc[d] = "done"
                \/ pc[d] = "syncout" /\ \A i \in DOMAIN journal' : journal'[i].current = now.current
    /\ Follows

LEMMA SteadyKeeps == ASSUME TypeOK, TypeOK', History, Steady PROVE History'
<1> DEFINE R(x) == Position(published, x)
<1>1. \A x : R(x) \in 0..Len(published) /\ Len(published) \in Nat
  BY PositionType DEF TypeOK
<1>2. published' = published
  BY DEF Steady
<1>3. ASSUME NEW i \in DOMAIN journal' PROVE \E m \in DOMAIN journal : journal'[i].current = journal[m].current
  <2>1. i <= i
    BY LenProperties DEF TypeOK
  <2> QED
    BY <2>1 DEF Steady, Follows
<1>4. Once(published)'
  BY <1>2 DEF History, Once
<1>5. Settled'
  <2>1. SUFFICES ASSUME NEW c \in Converters
        PROVE  /\ R(c) > 0 => pc'[c] \in Released /\ Whole(c)' /\ Names \X {c} \subseteq synced'
               /\ pc'[c] = "syncout" => R(c) > 0 /\ c \in now'.entries
    BY <1>2 DEF Settled, Rank
  <2>2. /\ R(c) > 0 => pc[c] \in Released /\ Whole(c) /\ Names \X {c} \subseteq synced
        /\ pc[c] = "syncout" => R(c) > 0 /\ c \in now.entries
    BY DEF History, Settled, Rank
  <2>3. R(c) > 0 => Kept(c) /\ pc'[c] \in Released
    BY <2>2 DEF Steady, Rank
  <2>4. R(c) > 0 => Whole(c)' /\ Names \X {c} \subseteq synced'
    BY <2>2, <2>3, WholeKept DEF Kept
  <2> QED
    BY <2>2, <2>3, <2>4 DEF Steady, Follows
<1>6. Forward'
  <2>1. \A i \in DOMAIN journal' : journal'[i].current # None => R(journal'[i].current) > 0
    BY <1>3 DEF History, Forward, Rank
  <2>2. \A i, j \in DOMAIN journal' : i <= j => R(journal'[i].current) <= R(journal'[j].current)
    BY DEF History, Forward, Rank, Steady, Follows
  <2>3. R(now'.current) = Len(published)
    BY DEF History, Forward, Rank, Steady, Follows
  <2> QED
    BY <1>2, <2>1, <2>2, <2>3 DEF Forward, Rank
<1>7. ReturnedIsDurable'
  <2>1. SUFFICES ASSUME NEW c \in Converters, pc'[c] = "done"
        PROVE  R(c) > 0 /\ \A i \in DOMAIN journal' : R(journal'[i].current) >= R(c)
    BY <1>2 DEF ReturnedIsDurable, Rank
  <2>2. CASE pc[c] = "done"
    <3>1. R(c) > 0 /\ \A i \in DOMAIN journal : R(journal[i].current) >= R(c)
      BY <2>2 DEF History, ReturnedIsDurable, Rank
    <3> QED
      BY <1>3, <3>1
  <2>3. CASE pc[c] = "syncout" /\ \A i \in DOMAIN journal' : journal'[i].current = now.current
    <3>1. R(c) > 0 /\ R(now.current) = Len(published)
      BY <2>3 DEF History, Settled, Forward, Rank
    <3> QED
      BY <1>1, <2>3, <3>1
  <2> QED
    BY <2>1, <2>2, <2>3 DEF Steady
<1> QED
  BY <1>4, <1>5, <1>6, <1>7 DEF History
-----------------------------------------------------------------------------
(* The steps of a conversion.                                              *)

\* A step of conversion c before it is published.
LEMMA BeforePublication ==
    ASSUME OInv, NEW c \in Converters, NEW t, Goto(c, t), pc[c] \notin Released,
           t \notin {"syncout", "done"}, published' = published, Follows,
           \A d \in Converters \ {c} : Kept(d)
    PROVE  Steady
<1>1. pc' = [pc EXCEPT ![c] = t] /\ pc \in [Converters -> Steps]
  BY DEF Goto, OInv, IInv, TypeOK
<1>2. Rank(c) > 0 => FALSE
  BY DEF OInv, History, Settled
<1>3. \A d \in Converters \ {c} : pc'[d] = pc[d]
  BY <1>1
<1>4. pc'[c] = t
  BY <1>1
<1> QED
  BY <1>2, <1>3, <1>4 DEF Steady

LEMMA FailSteady == ASSUME OInv, NEW c \in Converters, Goto(c, "failed"), Discard(c),
                           pc[c] \notin {"done", "failed", "crashed"},
                           UNCHANGED <<sources, copied, digest, journal, published>>
                    PROVE  Steady
<1>1. pc' = [pc EXCEPT ![c] = "failed"] /\ pc \in [Converters -> Steps]
  BY DEF Goto, OInv, IInv, TypeOK
<1>2. \A d \in Converters \ {c} : pc'[d] = pc[d] /\ Kept(d)
  BY <1>1 DEF Discard, Kept
<1>3. pc'[c] = "failed"
  BY <1>1
<1>4. Rank(c) > 0 => Kept(c)
  <2>1. SUFFICES ASSUME Rank(c) > 0 PROVE c \in now.entries
    BY DEF Discard, Kept
  <2> QED
    BY <2>1 DEF OInv, History, Settled, Released
<1>5. Follows
  BY FollowsSame
<1> QED
  BY <1>2, <1>3, <1>4, <1>5 DEF Steady, Released

LEMMA ConversionSteady ==
    ASSUME OInv, NEW c \in Converters, Convert(c), ~Swap(c) PROVE Steady
<1> USE DEF At, files
<1>1. TypeOK
  BY DEF OInv, IInv
<1>2. pc[c] \in {"idle", "copy", "syncdata", "hash", "syncmeta", "validate", "rename", "seal",
                "syncgen", "syncgens", "point", "syncpointer", "swap"} => pc[c] \notin Released
  BY DEF Released
<1>3. CASE Begin(c) \/ Copy(c)
  <2>1. /\ \A d \in Converters \ {c} : Kept(d)
        /\ pc[c] \notin Released /\ UNCHANGED <<journal, published>>
    BY <1>1, <1>2, <1>3 DEF Begin, Copy, Write, Kept, TypeOK
  <2>2. Goto(c, "copy") \/ Goto(c, "syncdata")
    BY <1>3 DEF Begin, Copy
  <2> QED
    BY <2>1, <2>2, FollowsSame, BeforePublication
<1>4. CASE SyncData(c) \/ Describe(c) \/ SyncMetadata(c) \/ WritePointer(c) \/ SyncPointer(c)
  <2>1. /\ \A d \in Converters \ {c} : Kept(d)
        /\ pc[c] \notin Released /\ UNCHANGED <<journal, published>>
    BY <1>1, <1>2, <1>4 DEF SyncData, Describe, SyncMetadata, WritePointer, SyncPointer, Write,
                            Sync, Kept, TypeOK
  <2>2. PICK t \in {"hash", "syncmeta", "validate", "syncpointer", "swap"} : Goto(c, t)
    BY <1>4 DEF SyncData, Describe, SyncMetadata, WritePointer, SyncPointer
  <2> QED
    BY <2>1, <2>2, FollowsSame, BeforePublication
<1>5. CASE Validate(c)
  <2>1. CASE ~Validates(c)
    BY <1>5, <2>1, FailSteady DEF Validate
  <2>2. CASE Validates(c)
    <3>1. /\ \A d \in Converters \ {c} : Kept(d)
          /\ Goto(c, "rename") /\ pc[c] \notin Released /\ UNCHANGED <<journal, published>>
      BY <1>2, <1>5, <2>2 DEF Validate, Kept
    <3> QED
      BY <3>1, FollowsSame, BeforePublication
  <2> QED
    BY <2>1, <2>2
<1>6. CASE Rename(c) \/ Seal(c)
  <2>1. PICK x \in Directory : /\ journal' = Append(journal, x) /\ x.current = now.current
                               /\ now.entries \subseteq x.entries
    <3>1. now \in Directory
      BY <1>1, Present
    <3>2. CASE Rename(c)
      <4> DEFINE e == [now EXCEPT !.entries = @ \cup {c}]
      <4>1. e \in Directory /\ e.current = now.current /\ now.entries \subseteq e.entries
        BY <3>1 DEF Directory
      <4>2. journal' = Append(journal, e)
        BY <3>2 DEF Rename, Journal
      <4> HIDE DEF e
      <4> QED
        BY <4>1, <4>2
    <3>3. CASE Seal(c)
      <4> DEFINE e == [now EXCEPT !.sealed = @ \cup {c}]
      <4>1. e \in Directory /\ e.current = now.current /\ now.entries \subseteq e.entries
        BY <3>1 DEF Directory
      <4>2. journal' = Append(journal, e)
        BY <3>3 DEF Seal, Journal
      <4> HIDE DEF e
      <4> QED
        BY <4>1, <4>2
    <3> QED
      BY <1>6, <3>2, <3>3
  <2>2. /\ \A d \in Converters \ {c} : Kept(d)
        /\ pc[c] \notin Released /\ published' = published
    BY <1>2, <1>6 DEF Rename, Seal, Kept
  <2>3. PICK t \in {"seal", "syncgens", "syncgen"} : Goto(c, t)
    BY <1>6 DEF Rename, Seal
  <2>4. Follows
    BY <1>1, <2>1, FollowsGrows
  <2> QED
    BY <2>2, <2>3, <2>4, BeforePublication
<1>7. CASE SyncGeneration(c) \/ SyncGenerations(c)
  <2>1. PICK k \in DOMAIN journal : journal' = SubSeq(journal, k, Len(journal))
    BY <1>7 DEF SyncGeneration, SyncGenerations, Secure
  <2>2. /\ \A d \in Converters \ {c} : Kept(d)
        /\ pc[c] \notin Released /\ published' = published
    BY <1>2, <1>7 DEF SyncGeneration, SyncGenerations, Kept
  <2>3. PICK t \in {"syncgens", "point"} : Goto(c, t)
    BY <1>7 DEF SyncGeneration, SyncGenerations
  <2>4. Follows
    BY <1>1, <2>1, FollowsShrinks
  <2> QED
    BY <2>2, <2>3, <2>4, BeforePublication
<1>8. CASE SyncOutput(c)
  <2>1. PICK k \in DOMAIN journal :
          /\ \A j \in k..Len(journal) : journal[j].current = journal[Len(journal)].current
          /\ journal' = SubSeq(journal, k, Len(journal))
    <3>1. PICK k \in DOMAIN journal :
            /\ \A j \in k..Len(journal) :
                 [i \in DOMAIN journal |-> journal[i].current][j]
                   = [i \in DOMAIN journal |-> journal[i].current][Len(journal)]
            /\ journal' = SubSeq(journal, k, Len(journal))
      BY <1>8 DEF SyncOutput, Secure
    <3>2. Len(journal) \in Nat /\ DOMAIN journal = 1..Len(journal) /\ Len(journal) \in DOMAIN journal
      BY <1>1, Present, LenProperties DEF TypeOK
    <3>3. \A j \in k..Len(journal) : j \in DOMAIN journal
      BY <3>2
    <3>4. ASSUME NEW j \in k..Len(journal)
          PROVE  journal[j].current = journal[Len(journal)].current
      <4> DEFINE held == [i \in DOMAIN journal |-> journal[i].current]
      <4>1. held[j] = journal[j].current /\ held[Len(journal)] = journal[Len(journal)].current
        BY <3>2, <3>3
      <4>2. held[j] = held[Len(journal)]
        BY <3>1
      <4> HIDE DEF held
      <4> QED
        BY <4>1, <4>2
    <3> QED
      BY <3>1, <3>4
  <2>2. Follows
    BY <1>1, <2>1, FollowsShrinks
  <2>3. \A i \in DOMAIN journal' : journal'[i].current = now.current
    <3>1. Len(journal) \in Nat /\ DOMAIN journal = 1..Len(journal) /\ k \in Int
      BY <1>1, LenProperties DEF TypeOK
    <3>2. \A i \in k..Len(journal) : journal[i] \in Directory
      BY <1>1, <3>1, ElementOfSeq DEF TypeOK
    <3>3. /\ journal' \in Seq(Directory) /\ Len(journal') = Len(journal) - k + 1
          /\ \A i \in 1..(Len(journal) - k + 1) : journal'[i] = journal[k + i - 1]
      BY <2>1, <3>1, <3>2, SubSeqProperties
    <3>4. DOMAIN journal' = 1..(Len(journal) - k + 1)
      BY <3>3, LenProperties
    <3>5. ASSUME NEW i \in 1..(Len(journal) - k + 1) PROVE k + i - 1 \in k..Len(journal)
      BY <3>1
    <3> QED
      BY <2>1, <3>3, <3>4, <3>5 DEF now
  <2>4. pc' = [pc EXCEPT ![c] = "done"] /\ pc \in [Converters -> Steps] /\ pc[c] = "syncout"
    BY <1>1, <1>8 DEF SyncOutput, Goto, TypeOK
  <2>5. published' = published /\ \A d \in Converters : Kept(d)
    BY <1>8 DEF SyncOutput, Kept
  <2>6. \A d \in Converters : d # c => pc'[d] = pc[d]
    BY <2>4
  <2>7. pc'[c] = "done"
    BY <2>4
  <2> QED
    BY <2>2, <2>3, <2>4, <2>5, <2>6, <2>7 DEF Steady, Released
<1>9. CASE Fail(c)
  BY <1>9, FailSteady DEF Fail
<1> QED
  BY <1>3, <1>4, <1>5, <1>6, <1>7, <1>8, <1>9 DEF Convert
-----------------------------------------------------------------------------
(* The step that publishes, and the crash that may take it back.           *)

LEMMA SwapHistory == ASSUME OInv, TypeOK', NEW c \in Converters, Swap(c) PROVE History'
<1> DEFINE R(x) == Position(published, x)
           n == Len(published)
<1> USE DEF At, files
<1>1. TypeOK /\ IInv /\ Once(published)
  BY DEF OInv, IInv, History
<1>2. R(c) = 0
  <2>1. Rank(c) > 0 => FALSE
    BY DEF OInv, History, Settled, Swap, Released
  <2> QED
    BY <1>1, <2>1, PositionType DEF Rank, TypeOK
<1>3. n \in Nat /\ \A x : R(x) \in 0..n
  BY <1>1, PositionType DEF TypeOK
<1>4. /\ Once(published') /\ Len(published') = n + 1
      /\ Position(published', c) = n + 1
      /\ \A x : x # c => Position(published', x) = R(x)
  <2>1. published' = Append(published, c) /\ published \in Seq(Converters)
    BY <1>1 DEF Swap, TypeOK
  <2>2. Position(published, c) = 0 /\ Once(published)
    BY <1>1, <1>2
  <2> HIDE DEF R, n
  <2>3. /\ Once(published') /\ Len(published') = Len(published) + 1
        /\ Position(published', c) = Len(published) + 1
        /\ \A x : x # c => Position(published', x) = Position(published, x)
    BY <2>1, <2>2, PositionAfterAppend
  <2> QED
    BY <2>3 DEF R, n
<1>5. PICK d \in Directory : /\ journal' = Append(journal, d) /\ d.current = c
                              /\ d.entries = now.entries
  <2> DEFINE e == [now EXCEPT !.current = c]
  <2>1. e \in Directory /\ e.current = c /\ e.entries = now.entries
    BY <1>1, Present DEF Directory
  <2>2. journal' = Append(journal, e)
    BY DEF Swap, Journal
  <2> HIDE DEF e
  <2> QED
    BY <2>1, <2>2
<1>6. /\ Len(journal) \in Nat /\ DOMAIN journal' = 1..(Len(journal) + 1)
      /\ DOMAIN journal = 1..Len(journal) /\ Len(journal) \in DOMAIN journal
      /\ \A i \in 1..Len(journal) : journal'[i] = journal[i]
      /\ journal'[Len(journal) + 1] = d /\ now' = d
  <2>1. journal \in Seq(Directory) /\ Len(journal) \in DOMAIN journal
    BY <1>1, Present DEF TypeOK
  <2>2. /\ journal' \in Seq(Directory) /\ Len(journal') = Len(journal) + 1
        /\ \A i \in 1..Len(journal) : journal'[i] = journal[i]
        /\ journal'[Len(journal) + 1] = d
    BY <1>5, <2>1, AppendProperties
  <2>3. now' = d
    BY <1>1, <1>5, Grows
  <2> QED
    BY <2>1, <2>2, <2>3, LenProperties
<1>7. \A i \in DOMAIN journal : journal[i].current # c
  <2>1. pc[c] \notin Released /\ c # None
    BY ConverterAssumption DEF Swap, Released
  <2> QED
    BY <1>1, <2>1 DEF IInv, InOrder, Ordered
<1>8. \A i \in DOMAIN journal : Position(published', journal'[i].current) = R(journal[i].current)
  BY <1>4, <1>6, <1>7
<1>9. Settled'
  <2>1. /\ pc' = [pc EXCEPT ![c] = "syncout"] /\ pc \in [Converters -> Steps]
        /\ pc[c] = "swap"
    BY <1>1 DEF Swap, Goto, TypeOK
  <2>2. /\ pc'[c] = "syncout" /\ c \in now.entries /\ Whole(c)
        /\ Names \X {c} \subseteq synced
    <3>1. Achieved(c) /\ pc'[c] = "syncout"
      BY <1>1, <2>1 DEF IInv, Progress
    <3>2. /\ c \in now.entries
          /\ copied[c] = [i \in 1..Chunks |-> sources[c]] /\ digest[c] = copied[c]
          /\ <<"data", c>> \in synced /\ <<"metadata", c>> \in synced
          /\ <<"pointer", c>> \in synced
      BY <2>1, <3>1 DEF Achieved, Copied, DataSafe, Described, MetaSafe, Valid, Renamed, Protected
    <3>3. Names \X {c} \subseteq synced
      BY <3>2 DEF Names
    <3>4. Names \X {c} \subseteq written
      BY <1>1, <3>3 DEF TypeOK
    <3> QED
      BY <3>1, <3>2, <3>3, <3>4 DEF Whole
  <2>3. \A x \in Converters : Kept(x)
    BY DEF Swap, Kept
  <2>4. ASSUME NEW x \in Converters
        PROVE  /\ Position(published', x) > 0 =>
                    pc'[x] \in Released /\ Whole(x)' /\ Names \X {x} \subseteq synced'
               /\ pc'[x] = "syncout" => Position(published', x) > 0 /\ x \in now'.entries
    <3>1. CASE x = c
      <4>1. Whole(c)' /\ Names \X {c} \subseteq synced'
        BY <2>2, <2>3, WholeKept DEF Kept
      <4>2. Position(published', c) > 0
        BY <1>3, <1>4
      <4> QED
        BY <1>5, <1>6, <2>2, <3>1, <4>1, <4>2 DEF Released
    <3>2. CASE x # c
      <4>1. pc'[x] = pc[x] /\ Position(published', x) = R(x)
        BY <1>4, <2>1, <3>2
      <4>2. /\ R(x) > 0 => pc[x] \in Released /\ Whole(x) /\ Names \X {x} \subseteq synced
            /\ pc[x] = "syncout" => R(x) > 0 /\ x \in now.entries
        BY DEF OInv, History, Settled, Rank
      <4>3. R(x) > 0 => Whole(x)' /\ Names \X {x} \subseteq synced'
        BY <2>3, <4>2, WholeKept DEF Kept
      <4> QED
        BY <1>5, <1>6, <4>1, <4>2, <4>3
    <3> QED
      BY <3>1, <3>2
  <2> QED
    BY <2>4 DEF Settled, Rank
<1>10. Forward'
  <2>1. Forward
    BY DEF OInv, History
  <2>2. \A i \in DOMAIN journal' : i \in DOMAIN journal \/ i = Len(journal) + 1
    BY <1>6
  <2>3. Position(published', journal'[Len(journal) + 1].current) = n + 1
    BY <1>4, <1>5, <1>6
  <2>4. ASSUME NEW i \in DOMAIN journal', journal'[i].current # None
        PROVE  Position(published', journal'[i].current) > 0
    BY <1>3, <1>6, <1>8, <2>1, <2>2, <2>3, <2>4 DEF Forward, Rank
  <2>5. ASSUME NEW i \in DOMAIN journal', NEW j \in DOMAIN journal', i <= j
        PROVE  Position(published', journal'[i].current) <= Position(published', journal'[j].current)
    <3>1. CASE j = Len(journal) + 1
      <4>1. Position(published', journal'[i].current) <= n + 1
        BY <1>3, <1>8, <2>2, <2>3
      <4> QED
        BY <2>3, <3>1, <4>1
    <3>2. CASE j # Len(journal) + 1
      <4>1. i \in DOMAIN journal /\ j \in DOMAIN journal
        BY <1>6, <2>5, <3>2
      <4> QED
        BY <1>8, <2>1, <2>5, <4>1 DEF Forward, Rank
    <3> QED
      BY <3>1, <3>2
  <2>6. Position(published', now'.current) = Len(published')
    BY <1>4, <1>5, <1>6
  <2> QED
    BY <2>4, <2>5, <2>6 DEF Forward, Rank
<1>11. ReturnedIsDurable'
  <2>1. SUFFICES ASSUME NEW x \in Converters, pc'[x] = "done"
        PROVE  /\ Position(published', x) > 0
               /\ \A i \in DOMAIN journal' :
                    Position(published', journal'[i].current) >= Position(published', x)
    BY DEF ReturnedIsDurable, Rank
  <2>2. x # c /\ pc[x] = "done"
    BY <1>1, <2>1 DEF Swap, Goto, TypeOK
  <2>3. R(x) > 0 /\ \A i \in DOMAIN journal : R(journal[i].current) >= R(x)
    BY <2>2 DEF OInv, History, ReturnedIsDurable, Rank
  <2>4. Position(published', x) = R(x) /\ n + 1 >= R(x)
    BY <1>3, <1>4, <2>2
  <2>5. ASSUME NEW i \in DOMAIN journal' PROVE Position(published', journal'[i].current) >= R(x)
    <3>1. CASE i \in DOMAIN journal
      BY <1>8, <2>3, <3>1
    <3>2. CASE i = Len(journal) + 1
      BY <1>4, <1>5, <1>6, <2>4, <3>2
    <3> QED
      BY <1>6, <3>1, <3>2
  <2> QED
    BY <2>3, <2>4, <2>5
<1> QED
  BY <1>4, <1>9, <1>10, <1>11 DEF History

LEMMA CrashHistory == ASSUME OInv, Crash PROVE History'
<1> USE DEF Crash
<1>1. TypeOK /\ IInv /\ Once(published) /\ published \in Seq(Converters)
  BY DEF OInv, IInv, History, TypeOK
<1>2. PICK i \in DOMAIN journal :
        /\ journal' = <<journal[i]>>
        /\ published' = SubSeq(published, 1, Position(published, journal[i].current))
  BY DEF Rank
<1> DEFINE R(x) == Position(published, x)
           n == R(journal[i].current)
<1>3. n \in 0..Len(published) /\ \A x : R(x) \in Nat
  BY <1>1, PositionType
<1>4. /\ Once(published') /\ Len(published') = n
      /\ \A x : Position(published', x) = IF R(x) <= n THEN R(x) ELSE 0
  <2>1. PICK m \in 0..Len(published) : m = n
    BY <1>3
  <2>2. published' = SubSeq(published, 1, m)
    BY <1>2, <2>1
  <2> HIDE DEF n, R
  <2>3. /\ Once(published') /\ Len(published') = m
        /\ \A x : Position(published', x)
                    = IF Position(published, x) <= m THEN Position(published, x) ELSE 0
    BY <1>1, <2>1, <2>2, PositionInPrefix
  <2> QED
    BY <2>1, <2>3 DEF R
<1>5. now' = journal[i] /\ DOMAIN journal' = {1} /\ journal'[1] = journal[i]
  BY <1>2 DEF now
<1>6. Position(published', journal[i].current) = n
  BY <1>3, <1>4
<1>7. Settled'
  <2>1. \A x \in Converters : pc'[x] # "syncout" /\ (pc[x] \in Released => pc'[x] \in Released)
    BY DEF Released
  <2>2. ASSUME NEW x \in Converters, Position(published', x) > 0
        PROVE  pc'[x] \in Released /\ Whole(x)' /\ Names \X {x} \subseteq synced'
    <3>1. R(x) > 0
      BY <1>3, <1>4, <2>2
    <3>2. pc[x] \in Released /\ Whole(x) /\ Names \X {x} \subseteq synced
      BY <3>1 DEF OInv, History, Settled, Rank
    <3>3. Names \X {x} \subseteq written' /\ Names \X {x} \subseteq synced'
      BY <3>2
    <3> QED
      BY <2>1, <3>2, <3>3 DEF Whole
  <2> QED
    BY <2>1, <2>2 DEF Settled, Rank
<1>8. Forward'
  <2>1. journal[i].current # None => n > 0
    BY DEF OInv, History, Forward, Rank
  <2> QED
    BY <1>3, <1>4, <1>5, <1>6, <2>1 DEF Forward, Rank
<1>9. ReturnedIsDurable'
  <2>1. SUFFICES ASSUME NEW x \in Converters, pc'[x] = "done"
        PROVE  Position(published', x) > 0 /\ n >= Position(published', x)
    BY <1>5, <1>6 DEF ReturnedIsDurable, Rank
  <2>2. pc[x] = "done"
    BY <2>1
  <2>3. R(x) > 0 /\ n >= R(x)
    BY <2>2 DEF OInv, History, ReturnedIsDurable, Rank
  <2> QED
    BY <1>3, <1>4, <2>3
<1> QED
  BY <1>4, <1>7, <1>8, <1>9 DEF History
-----------------------------------------------------------------------------
(* Enrolment.                                                              *)

LEMMA NamedIsCurrent == IInv => Named = now.current
<1> SUFFICES ASSUME IInv PROVE Named = now.current
  OBVIOUS
<1>1. now.current # None => Names \X {now.current} \subseteq synced
  BY PresentSound DEF Sound
<1>2. synced \subseteq written
  BY DEF IInv, TypeOK
<1>3. now.current # None => <<"pointer", now.current>> \in written
  BY <1>1, <1>2 DEF Names
<1> QED
  BY <1>3 DEF Named

\* What the present CURRENT names is the last that was published.
LEMMA CurrentIsLast ==
    ASSUME OInv
    PROVE  /\ Rank(now.current) = Len(published) /\ Len(published) \in Nat
           /\ \A x : Rank(x) \in 0..Len(published)
           /\ now.current # None => Rank(now.current) > 0 /\ pc[now.current] \in Released
           /\ \A x \in Converters : Rank(x) = Len(published) /\ Rank(x) > 0 => x = now.current
<1>1. TypeOK /\ published \in Seq(Converters)
  BY DEF OInv, IInv, TypeOK
<1>2. Len(journal) \in DOMAIN journal /\ now = journal[Len(journal)]
  BY <1>1, Present DEF now
<1>3. Rank(now.current) = Len(published)
  BY DEF OInv, History, Forward
<1>4. now.current # None => Rank(now.current) > 0 /\ pc[now.current] \in Released
  BY <1>2 DEF OInv, IInv, InOrder, Ordered, History, Forward
<1>5. \A x : Rank(x) \in 0..Len(published) /\ (Rank(x) > 0 => published[Rank(x)] = x)
  BY <1>1, PositionType DEF Rank
<1>6. Len(published) \in Nat
  BY <1>1, LenProperties
<1> QED
  BY <1>3, <1>4, <1>5, <1>6

\* Nothing that was published loses its rank.
RankKept == \A x \in Converters :
    /\ Rank(x) > 0 \/ pc[x] \in Released => Position(published', x) = Position(published, x)
    /\ pc[x] \in Released => pc'[x] \in Released

LEMMA GenuineKept ==
    ASSUME OInv, RankKept, NEW id \in Identity \cup {None}, Genuine(id) PROVE Genuine(id)'
<1> SUFFICES ASSUME id # None
             PROVE  /\ id.current # None /\ pc'[id.current] \in Released
                    /\ id.generation # id.current /\ Position(published', id.current) > 0 =>
                         Position(published', id.generation)
                            \in 1..(Position(published', id.current) - 1)
  BY DEF Genuine, Rank
<1>1. /\ id.current \in Converters /\ id.generation \in Converters
      /\ pc[id.current] \in Released
  BY DEF Identity, Genuine
<1>2. /\ Position(published', id.current) = Position(published, id.current)
      /\ pc'[id.current] \in Released
  BY <1>1 DEF RankKept
<1>3. ASSUME id.generation # id.current, Position(published, id.current) > 0
      PROVE  Position(published', id.generation) \in 1..(Position(published, id.current) - 1)
  <2>1. Rank(id.generation) \in 1..(Rank(id.current) - 1) /\ Rank(id.current) \in Nat
    BY <1>3, CurrentIsLast DEF Genuine, Rank
  <2>2. Rank(id.generation) > 0
    BY <2>1
  <2> QED
    BY <1>1, <2>1, <2>2 DEF RankKept, Rank
<1> QED
  BY <1>1, <1>2, <1>3 DEF Genuine

LEMMA EnrolledKept == ASSUME OInv, RankKept, UNCHANGED runtime PROVE Enrolled'
<1> USE DEF runtime
<1>1. /\ enroller \in Converters \cup {None}
      /\ identity \in Identity \cup {None} /\ claim \in Identity \cup {None}
  BY ConverterAssumption DEF OInv, IInv, TypeOK
<1>2. Genuine(identity)' /\ Genuine(claim)'
  <2>1. PICK a, b \in Identity \cup {None} : a = identity /\ b = claim
    BY <1>1
  <2>2. Genuine(a) /\ Genuine(b)
    BY <2>1 DEF OInv, Enrolled, Genuine
  <2>3. Genuine(a)' /\ Genuine(b)'
    BY <2>2, GenuineKept
  <2> QED
    BY <2>1, <2>3 DEF Genuine
<1>3. enroller' # None => Position(published', enroller') > 0
  BY <1>1 DEF OInv, Enrolled, RankKept, Rank
<1>4. server' \in {"checked", "validated", "serving"} =>
          claim' # None /\ Position(published', claim'.current) > 0
  <2>1. SUFFICES ASSUME server \in {"checked", "validated", "serving"}
        PROVE  claim # None /\ Position(published', claim.current) > 0
    OBVIOUS
  <2>2. claim # None /\ Rank(claim.current) > 0 /\ claim.current # None
    BY <2>1 DEF OInv, Enrolled, Genuine
  <2>3. claim.current \in Converters
    BY <1>1, <2>2 DEF Identity
  <2> QED
    BY <2>2, <2>3 DEF RankKept, Rank
<1>5. TornIdentityRefused'
  BY DEF OInv, Enrolled, TornIdentityRefused
<1> QED
  BY <1>2, <1>3, <1>4, <1>5 DEF Enrolled, Rank

\* Enrolment and start-up leave the history alone.
LEMMA Onlookers ==
    ASSUME OInv, TypeOK', UNCHANGED <<compact, source, pc, sources, files, journal, published>>
    PROVE  History' /\ RankKept
<1> USE DEF files
<1>1. Follows
  BY FollowsSame
<1>2. \A d : Kept(d)
  BY DEF Kept
<1>3. Steady
  BY <1>1, <1>2 DEF Steady
<1>4. TypeOK /\ History
  BY DEF OInv, IInv
<1> QED
  BY <1>3, <1>4, SteadyKeeps DEF RankKept

LEMMA EnrollOrder ==
    ASSUME OInv, RankKept, UNCHANGED <<pc, published>>,
           EnrollHash \/ \E c \in Converters : EnrollLoad(c)
    PROVE  Enrolled'
<1>1. /\ enroller \in Converters \cup {None}
      /\ identity \in Identity \cup {None} /\ claim \in Identity \cup {None}
  BY ConverterAssumption DEF OInv, IInv, TypeOK
<1>2. /\ claim' = claim /\ server' = server
  BY DEF EnrollHash, EnrollLoad
<1>3. Genuine(claim)'
  BY <1>2 DEF OInv, Enrolled, Genuine, Rank
<1>4. TornIdentityRefused'
  BY <1>2 DEF OInv, Enrolled, TornIdentityRefused
<1>5. server' \in {"checked", "validated", "serving"} =>
          claim' # None /\ Position(published', claim'.current) > 0
  BY <1>2 DEF OInv, Enrolled, Rank
<1>6. Genuine(identity)' /\ (enroller' # None => Position(published', enroller') > 0)
  <2>1. CASE EnrollHash
    <3>1. enroller' = None /\ identity' = [generation |-> enroller, current |-> now.current]
      BY <2>1, NamedIsCurrent DEF EnrollHash, OInv
    <3>2. enroller \in Converters /\ Rank(enroller) > 0
      BY <1>1, <2>1 DEF EnrollHash, OInv, Enrolled
    <3>3. /\ Rank(enroller) \in 1..Len(published) /\ Rank(now.current) = Len(published)
          /\ Len(published) \in Nat
      BY <3>2, CurrentIsLast
    <3>4. now.current # None
      <4>1. published[Len(published)] = now.current /\ Len(published) \in DOMAIN published
            /\ published \in Seq(Converters)
        <5>1. published \in Seq(Converters) /\ DOMAIN published = 1..Len(published)
          BY LenProperties DEF OInv, IInv, TypeOK
        <5>2. Rank(now.current) > 0 => published[Rank(now.current)] = now.current
          BY <5>1, PositionType DEF Rank
        <5> QED
          BY <3>3, <5>1, <5>2
      <4> QED
        BY <4>1, ElementOfSeq, ConverterAssumption
    <3>5. pc[now.current] \in Released
      BY <3>4, CurrentIsLast
    <3>6. enroller # now.current => Rank(enroller) \in 1..(Rank(now.current) - 1)
      BY <3>2, <3>3, CurrentIsLast
    <3>7. PICK h : h = now.current
      OBVIOUS
    <3>8. identity'.generation = enroller /\ identity'.current = h
      BY <3>1, <3>7
    <3> QED
      BY <3>1, <3>4, <3>5, <3>6, <3>7, <3>8 DEF Genuine, Rank
  <2>2. ASSUME NEW c \in Converters, EnrollLoad(c)
        PROVE  Genuine(identity)' /\ (enroller' # None => Position(published', enroller') > 0)
    <3>1. identity' = identity /\ enroller' = c /\ c = now.current /\ c # None
      BY <2>2, NamedIsCurrent, ConverterAssumption DEF EnrollLoad, Loads, OInv
    <3>2. Rank(c) > 0
      BY <3>1, CurrentIsLast
    <3>3. Genuine(identity)'
      BY <3>1 DEF OInv, Enrolled, Genuine, Rank
    <3> QED
      BY <3>1, <3>2, <3>3 DEF Rank
  <2> QED
    BY <2>1, <2>2
<1> QED
  BY <1>3, <1>4, <1>5, <1>6 DEF Enrolled, Rank

LEMMA StartOrder ==
    ASSUME OInv, UNCHANGED <<pc, published>>,
           CheckCurrent \/ CheckGeneration \/ OpenReader \/ Stop
    PROVE  Enrolled'
<1>1. identity \in Identity \cup {None} /\ claim \in Identity \cup {None}
  BY DEF OInv, IInv, TypeOK
<1>2. identity' = identity /\ enroller' = enroller
  BY DEF CheckCurrent, CheckGeneration, OpenReader, Stop
<1>3. Genuine(identity)' /\ (enroller' # None => Position(published', enroller') > 0)
  BY <1>2 DEF OInv, Enrolled, Genuine, Rank
<1>4. CASE CheckCurrent
  <2>1. /\ claim' = identity /\ identity # None
        /\ server' = IF now.current = identity.current THEN "checked" ELSE "failed"
    BY <1>4, NamedIsCurrent DEF CheckCurrent, OInv
  <2>2. Genuine(claim)'
    BY <2>1 DEF OInv, Enrolled, Genuine, Rank
  <2>3. identity.current # None
    BY <2>1 DEF OInv, Enrolled, Genuine
  <2>4. server' = "checked" => Position(published', claim'.current) > 0
    BY <2>1, <2>3, CurrentIsLast DEF Rank
  <2> QED
    BY <1>3, <2>1, <2>2, <2>4 DEF Enrolled, Rank, TornIdentityRefused
<1>5. CASE CheckGeneration
  <2>1. claim' = claim /\ server = "checked" /\ server' \in {"validated", "failed"}
    BY <1>5 DEF CheckGeneration
  <2>2. claim # None /\ Rank(claim.current) > 0 /\ Genuine(claim)
    BY <2>1 DEF OInv, Enrolled, Genuine
  <2>3. Genuine(claim)'
    BY <2>1, <2>2 DEF Genuine, Rank
  <2>4. ASSUME server' = "validated" PROVE claim.generation = claim.current
    <3>1. claim.generation = now.current
      BY <1>5, <2>4, NamedIsCurrent DEF CheckGeneration, Loads, Matches, OInv
    <3>2. Rank(claim.generation) = Len(published) /\ Rank(claim.current) \in 0..Len(published)
          /\ Len(published) \in Nat
      BY <3>1, CurrentIsLast
    <3>3. ~(Rank(claim.generation) \in 1..(Rank(claim.current) - 1))
      BY <3>2
    <3> QED
      BY <2>2, <3>3 DEF Genuine
  <2> QED
    BY <1>3, <2>1, <2>2, <2>3, <2>4 DEF Enrolled, Rank, TornIdentityRefused
<1>6. CASE OpenReader
  <2>1. claim' = claim /\ server = "validated"
    BY <1>6 DEF OpenReader
  <2>2. claim # None /\ Rank(claim.current) > 0 /\ claim.generation = claim.current
    BY <2>1 DEF OInv, Enrolled, TornIdentityRefused
  <2>3. Genuine(claim)'
    BY <2>1 DEF OInv, Enrolled, Genuine, Rank
  <2> QED
    BY <1>3, <2>1, <2>2, <2>3 DEF Enrolled, Rank, TornIdentityRefused
<1>7. CASE Stop
  BY <1>3, <1>7 DEF Stop, Enrolled, Genuine, TornIdentityRefused, Rank
<1> QED
  BY <1>4, <1>5, <1>6, <1>7

LEMMA CrashOrder == ASSUME OInv, Crash PROVE Enrolled'
<1> USE DEF Crash
<1>1. /\ identity \in Identity \cup {None} /\ published \in Seq(Converters)
      /\ Once(published) /\ pc \in [Converters -> Steps]
  BY DEF OInv, IInv, TypeOK, History
<1>2. PICK n \in 0..Len(published) : published' = SubSeq(published, 1, n)
  <2>1. PICK i \in DOMAIN journal : published' = SubSeq(published, 1, Rank(journal[i].current))
    OBVIOUS
  <2> QED
    BY <2>1, CurrentIsLast
<1>3. /\ \A x : Position(published', x)
                  = IF Position(published, x) <= n THEN Position(published, x) ELSE 0
      /\ Len(published) \in Nat /\ \A x : Position(published, x) \in 0..Len(published)
  BY <1>1, <1>2, PositionInPrefix, PositionType
<1>4. claim' = None /\ enroller' = None /\ server' = "down" /\ identity' \in {identity, None}
  OBVIOUS
<1>5. ASSUME identity' # None PROVE Genuine(identity)'
  <2>1. identity' = identity /\ identity \in Identity /\ Genuine(identity) /\ identity # None
    BY <1>1, <1>4, <1>5 DEF OInv, Enrolled, Genuine
  <2>2. identity.current \in Converters /\ pc'[identity.current] \in Released
    BY <2>1 DEF Identity, Genuine, Released
  <2>3. ASSUME identity.generation # identity.current, Position(published', identity.current) > 0
        PROVE  Position(published', identity.generation)
                  \in 1..(Position(published', identity.current) - 1)
    <3>1. /\ Position(published', identity.current) = Position(published, identity.current)
          /\ Position(published, identity.current) <= n
          /\ Position(published, identity.current) > 0
      BY <1>2, <1>3, <2>3
    <3>2. Position(published, identity.generation)
             \in 1..(Position(published, identity.current) - 1)
      BY <2>1, <2>3, <3>1 DEF Genuine, Rank
    <3> QED
      BY <1>2, <1>3, <3>1, <3>2
  <2> HIDE DEF Crash
  <2> QED
    BY <2>1, <2>2, <2>3 DEF Genuine, Rank
<1>6. Genuine(identity)' /\ Genuine(claim)'
  BY <1>4, <1>5 DEF Genuine
<1> QED
  BY <1>4, <1>6 DEF Enrolled, TornIdentityRefused
-----------------------------------------------------------------------------
(* The second invariant, and what follows from it.                         *)

LEMMA SteadyRanks == ASSUME Steady PROVE RankKept
  BY DEF Steady, RankKept

LEMMA SwapRanks == ASSUME OInv, NEW c \in Converters, Swap(c) PROVE RankKept
<1>1. /\ published \in Seq(Converters) /\ Once(published)
      /\ published' = Append(published, c) /\ pc[c] \notin Released
      /\ pc' = [pc EXCEPT ![c] = "syncout"] /\ pc \in [Converters -> Steps]
  BY DEF OInv, IInv, TypeOK, History, Swap, At, Goto, Released
<1>2. ~(Rank(c) > 0)
  BY <1>1 DEF OInv, History, Settled
<1>3. Position(published, c) = 0
  BY <1>1, <1>2, PositionType DEF Rank
<1>4. \A x : x # c => Position(published', x) = Position(published, x)
  BY <1>1, <1>3, PositionAfterAppend
<1>5. \A x \in Converters : x # c => pc'[x] = pc[x]
  BY <1>1
<1> QED
  BY <1>1, <1>2, <1>4, <1>5 DEF RankKept

LEMMA OrderInitially == Init => OInv
<1> SUFFICES ASSUME Init PROVE OInv
  OBVIOUS
<1>1. IInv
  BY Initially
<1>2. \A x : Rank(x) = 0
  <2>1. DOMAIN published = {}
    BY DEF Init
  <2> QED
    BY <2>1 DEF Rank, Position
<1>3. published = <<>> /\ now.current = None /\ \A i \in DOMAIN journal : journal[i].current = None
  BY DEF Init, now
<1>4. History
  <2>1. Once(published)
    BY <1>3 DEF Once
  <2>2. Settled
    BY <1>2 DEF Settled, Init
  <2>3. Forward
    BY <1>2, <1>3 DEF Forward
  <2>4. ReturnedIsDurable
    BY DEF ReturnedIsDurable, Init
  <2> QED
    BY <2>1, <2>2, <2>3, <2>4 DEF History
<1>5. Enrolled
  BY DEF Enrolled, Genuine, TornIdentityRefused, Init
<1> QED
  BY <1>1, <1>4, <1>5 DEF OInv

LEMMA OrderStep == OInv /\ [Next]_vars => OInv'
<1> SUFFICES ASSUME OInv, [Next]_vars PROVE OInv'
  OBVIOUS
<1>1. IInv /\ TypeOK /\ History
  BY DEF OInv, IInv
<1>2. IInv' /\ TypeOK'
  BY <1>1, Step DEF IInv
<1>3. ASSUME NEW c \in Converters, Convert(c) PROVE History' /\ Enrolled'
  <2>1. UNCHANGED runtime
    BY <1>3 DEF Convert, Begin, Copy, SyncData, Describe, SyncMetadata, Validate, Rename, Seal,
                SyncGeneration, SyncGenerations, WritePointer, SyncPointer, Swap, SyncOutput, Fail
  <2>2. CASE Swap(c)
    BY <1>2, <2>1, <2>2, SwapHistory, SwapRanks, EnrolledKept
  <2>3. CASE ~Swap(c)
    BY <1>1, <1>2, <1>3, <2>1, <2>3, ConversionSteady, SteadyKeeps, SteadyRanks, EnrolledKept
  <2> QED
    BY <2>2, <2>3
<1>4. CASE EnrollHash \/ \E c \in Converters : EnrollLoad(c)
  <2>1. UNCHANGED <<compact, source, pc, sources, files, journal, published>>
    BY <1>4 DEF EnrollHash, EnrollLoad
  <2> QED
    BY <1>2, <1>4, <2>1, Onlookers, EnrollOrder DEF OInv
<1>5. CASE CheckCurrent \/ CheckGeneration \/ OpenReader \/ Stop
  <2>1. UNCHANGED <<compact, source, pc, sources, files, journal, published>>
    BY <1>5 DEF CheckCurrent, CheckGeneration, OpenReader, Stop
  <2> QED
    BY <1>2, <1>5, <2>1, Onlookers, StartOrder DEF OInv
<1>6. CASE SourceChanges \/ UNCHANGED vars
  <2>1. UNCHANGED <<pc, sources, files, journal, runtime, published>>
    BY <1>6 DEF SourceChanges, vars
  <2>2. Follows /\ \A d : Kept(d)
    BY <2>1, FollowsSame DEF Kept, files
  <2>3. Steady
    BY <2>1, <2>2 DEF Steady
  <2> QED
    BY <1>1, <1>2, <2>1, <2>3, SteadyKeeps, SteadyRanks, EnrolledKept DEF OInv
<1>7. CASE Crash
  BY <1>2, <1>7, CrashHistory, CrashOrder DEF OInv
<1> QED
  BY <1>2, <1>3, <1>4, <1>5, <1>6, <1>7 DEF Next, OInv

LEMMA OrderInvariance == Spec => []OInv
  BY OrderInitially, OrderStep, PTL DEF Spec

\* When a conversion has returned, no crash at any later step brings back a CURRENT older
\* than its own.
THEOREM Durable == Spec => []ReturnedIsDurable
<1>1. OInv => ReturnedIsDurable
  BY DEF OInv, History
<1> QED
  BY <1>1, OrderInvariance, PTL

\* An identity put together from two generations is never accepted.
THEOREM TornIsRefused == Spec => []TornIdentityRefused
<1>1. OInv => TornIdentityRefused
  BY DEF OInv, Enrolled
<1> QED
  BY <1>1, OrderInvariance, PTL

-----------------------------------------------------------------------------
(* The conversions implement the atomic table.                             *)

tables == [i \in DOMAIN published |-> Table(published[i])]

\* The tables published are whole copies of versions of the source.
Tabled ==
    /\ tables \in Seq(Versions) /\ Len(tables) = Len(published)
    /\ Len(published) \in Nat /\ DOMAIN published = 1..Len(published)
    /\ \A i \in DOMAIN published : /\ Whole(published[i]) /\ Rank(published[i]) = i
                                   /\ published[i] \in Converters
                                   /\ tables[i] = sources[published[i]]

LEMMA OrderTabled == OInv => Tabled
<1> SUFFICES ASSUME OInv PROVE Tabled
  OBVIOUS
<1>1. /\ published \in Seq(Converters) /\ Once(published)
      /\ sources \in [Converters -> Versions]
  BY DEF OInv, IInv, TypeOK, History
<1>2. Len(published) \in Nat /\ DOMAIN published = 1..Len(published)
  BY <1>1, LenProperties
<1>3. \A i \in DOMAIN published : published[i] \in Converters /\ Rank(published[i]) = i
  BY <1>1, <1>2, ElementOfSeq, PositionOf DEF Rank
<1>4. \A i \in DOMAIN published : Whole(published[i])
  BY <1>2, <1>3 DEF OInv, History, Settled
<1>5. \A i \in DOMAIN published : tables[i] = sources[published[i]]
  BY <1>4 DEF tables, Table
<1>6. tables \in [1..Len(published) -> Versions]
  BY <1>1, <1>2, <1>3, <1>5 DEF tables
<1>7. tables \in Seq(Versions) /\ Len(tables) = Len(published)
  BY <1>2, <1>6
<1> QED
  BY <1>2, <1>3, <1>4, <1>5, <1>7 DEF Tabled

LEMMA TablesType ==
    ASSUME OInv
    PROVE  /\ tables \in Seq(Versions) /\ Len(tables) = Len(published)
           /\ Len(published) \in Nat /\ DOMAIN published = 1..Len(published)
           /\ \A i \in DOMAIN published : /\ Whole(published[i]) /\ Rank(published[i]) = i
                                          /\ published[i] \in Converters
                                          /\ tables[i] = sources[published[i]]
  BY OrderTabled DEF Tabled

\* The same in the next state.
LEMMA NextTabled == OInv' => Tabled'
  BY OrderTabled, PTL

LEMMA NextTables ==
    ASSUME OInv'
    PROVE  /\ tables' \in Seq(Versions) /\ Len(tables') = Len(published')
           /\ Len(published') \in Nat /\ DOMAIN published' = 1..Len(published')
           /\ \A i \in DOMAIN published' : tables'[i] = sources'[published'[i]]
  BY NextTabled DEF Tabled

\* Two histories of the same length with the same tables are the same.
LEMMA SameTables ==
    ASSUME NEW s \in Seq(Versions), NEW t \in Seq(Versions), Len(s) = Len(t),
           \A i \in 1..Len(s) : s[i] = t[i]
    PROVE  s = t
  BY SeqEqual

\* What is safe: no crash takes more back.
LEMMA SafeBound ==
    ASSUME OInv
    PROVE  /\ 1 \in DOMAIN journal /\ Rank(journal[1].current) \in 0..Len(published)
           /\ \A i \in DOMAIN journal : Rank(journal[i].current)
                                          \in Rank(journal[1].current)..Len(published)
<1>1. 1 \in DOMAIN journal /\ \A i \in DOMAIN journal : 1 <= i
  <2>1. Len(journal) \in DOMAIN journal /\ DOMAIN journal = 1..Len(journal)
        /\ Len(journal) \in Nat
    BY Present, LenProperties DEF OInv, IInv, TypeOK
  <2> QED
    BY <2>1
<1>2. \A i \in DOMAIN journal : Rank(journal[1].current) <= Rank(journal[i].current)
  BY <1>1 DEF OInv, History, Forward
<1> QED
  BY <1>1, <1>2, CurrentIsLast

LEMMA SteadyRefines ==
    ASSUME OInv, OInv', Steady PROVE [Artifact!Next]_<<tables, Rank(journal[1].current)>>
<1>1. tables' = tables
  <2>1. published' = published
    BY DEF Steady
  <2>2. ASSUME NEW i \in DOMAIN published PROVE tables'[i] = tables[i]
    <3>1. /\ published[i] \in Converters /\ tables[i] = sources[published[i]]
          /\ Rank(published[i]) > 0
      BY TablesType
    <3>2. tables'[i] = sources'[published[i]]
      BY <2>1, NextTables
    <3> QED
      BY <3>1, <3>2 DEF Steady, Kept
  <2> QED
    BY <2>1, <2>2 DEF tables
<1>2. Rank(journal[1].current)' \in Rank(journal[1].current)..Len(tables)
  <2>1. 1 \in DOMAIN journal'
    <3>1. journal' \in Seq(Directory) /\ journal' # <<>>
      BY DEF OInv, IInv, TypeOK
    <3>2. Len(journal') \in Nat /\ Len(journal') # 0 /\ DOMAIN journal' = 1..Len(journal')
      BY <3>1, EmptySeq, LenProperties
    <3> QED
      BY <3>2
  <2>2. PICK m \in DOMAIN journal : journal'[1].current = journal[m].current
    BY <2>1 DEF Steady, Follows
  <2>3. Rank(journal[1].current)' = Rank(journal[m].current)
    BY <2>2 DEF Rank, Steady
  <2> QED
    BY <2>3, SafeBound, TablesType
<1> QED
  BY <1>1, <1>2 DEF tables, Artifact!Next, Artifact!Secure

LEMMA SwapRefines ==
    ASSUME OInv, OInv', NEW c \in Converters, Swap(c)
    PROVE  [Artifact!Next]_<<tables, Rank(journal[1].current)>>
<1>1. /\ published \in Seq(Converters) /\ published' = Append(published, c)
      /\ sources \in [Converters -> Versions] /\ sources' = sources
      /\ pc[c] \notin Released
  BY DEF OInv, IInv, TypeOK, Swap, At, Released
<1>2. /\ Len(published') = Len(published) + 1 /\ published'[Len(published) + 1] = c
      /\ \A i \in 1..Len(published) : published'[i] = published[i]
  BY <1>1, AppendProperties
<1>3. tables' = Append(tables, sources[c])
  <2>1. /\ tables \in Seq(Versions) /\ tables' \in Seq(Versions) /\ sources[c] \in Versions
        /\ Len(tables) = Len(published) /\ Len(published) \in Nat
        /\ Len(tables') = Len(published) + 1 /\ DOMAIN published' = 1..(Len(published) + 1)
        /\ DOMAIN published = 1..Len(published)
    BY <1>1, <1>2, TablesType, NextTables
  <2>2. /\ Append(tables, sources[c]) \in Seq(Versions)
        /\ Len(Append(tables, sources[c])) = Len(published) + 1
        /\ \A i \in 1..Len(published) : Append(tables, sources[c])[i] = tables[i]
        /\ Append(tables, sources[c])[Len(published) + 1] = sources[c]
    BY <2>1, AppendProperties
  <2>3. ASSUME NEW i \in 1..(Len(published) + 1)
        PROVE  tables'[i] = Append(tables, sources[c])[i]
    <3>1. tables'[i] = sources[published'[i]]
      BY <1>1, <2>1, NextTables
    <3>2. CASE i \in 1..Len(published)
      <4>1. tables[i] = sources[published[i]]
        BY <2>1, <3>2, TablesType
      <4> QED
        BY <1>2, <2>2, <3>1, <3>2, <4>1
    <3>3. CASE i = Len(published) + 1
      BY <1>2, <2>2, <3>1, <3>3
    <3> QED
      BY <2>1, <3>2, <3>3
  <2> QED
    BY <2>1, <2>2, <2>3, SameTables
<1>4. Rank(journal[1].current)' = Rank(journal[1].current)
  <2>1. journal'[1] = journal[1] /\ journal[1].current # c
    <3>1. 1 \in DOMAIN journal /\ DOMAIN journal = 1..Len(journal) /\ journal \in Seq(Directory)
      BY SafeBound, LenProperties DEF OInv, IInv, TypeOK
    <3>2. PICK d \in Directory : journal' = Append(journal, d)
      <4>1. [now EXCEPT !.current = c] \in Directory
        BY Present DEF OInv, IInv, Directory
      <4> QED
        BY <4>1 DEF Swap, Journal
    <3>3. journal'[1] = journal[1]
      BY <3>1, <3>2, AppendProperties
    <3>4. c # None
      BY ConverterAssumption
    <3> QED
      BY <1>1, <3>1, <3>3, <3>4 DEF OInv, IInv, InOrder, Ordered
  <2>2. PICK x : x = journal[1].current
    OBVIOUS
  <2>3. Position(published, c) = 0
    <3>1. ~(Rank(c) > 0)
      BY <1>1 DEF OInv, History, Settled
    <3> QED
      BY <1>1, <3>1, PositionType DEF Rank
  <2>4. Position(published', x) = Position(published, x)
    BY <1>1, <2>1, <2>2, <2>3, PositionAfterAppend DEF OInv, History
  <2> QED
    BY <2>1, <2>2, <2>4 DEF Rank
<1>5. sources[c] \in Versions
  BY <1>1
<1> QED
  BY <1>3, <1>4, <1>5 DEF tables, Artifact!Next, Artifact!Publish

LEMMA CrashRefines ==
    ASSUME OInv, OInv', Crash
    PROVE  [Artifact!Next]_<<tables, Rank(journal[1].current)>>
<1>1. PICK i \in DOMAIN journal :
        /\ journal' = <<journal[i]>>
        /\ published' = SubSeq(published, 1, Rank(journal[i].current))
  BY DEF Crash
<1>2. PICK n \in Rank(journal[1].current)..Len(published) : n = Rank(journal[i].current)
  BY SafeBound
<1>3. /\ published \in Seq(Converters) /\ Once(published) /\ sources' = sources
      /\ Len(published) \in Nat /\ n \in 0..Len(published)
      /\ DOMAIN published = 1..Len(published)
  <2>1. published \in Seq(Converters) /\ Once(published) /\ sources' = sources
    BY DEF OInv, IInv, TypeOK, History, Crash
  <2>2. Len(published) \in Nat /\ DOMAIN published = 1..Len(published)
    BY <2>1, LenProperties
  <2>3. Rank(journal[1].current) \in 0..Len(published)
    BY SafeBound
  <2> QED
    BY <1>2, <2>1, <2>2, <2>3
<1>4. /\ Len(published') = n
      /\ \A x : Position(published', x)
                  = IF Position(published, x) <= n THEN Position(published, x) ELSE 0
  <2>1. published' = SubSeq(published, 1, n)
    BY <1>1, <1>2
  <2> QED
    BY <1>3, <2>1, PositionInPrefix
<1>5. \A k \in 1..n : published'[k] = published[k]
  <2>1. \A k \in 1..n : published[k] \in Converters
    BY <1>3, ElementOfSeq
  <2>2. \A k \in 1..(n - 1 + 1) : SubSeq(published, 1, n)[k] = published[1 + k - 1]
    BY <1>3, <2>1, SubSeqProperties
  <2> QED
    BY <1>1, <1>2, <1>3, <2>2
<1>6. tables' = SubSeq(tables, 1, n)
  <2>1. /\ tables \in Seq(Versions) /\ tables' \in Seq(Versions)
        /\ Len(tables) = Len(published) /\ Len(tables') = n /\ DOMAIN published' = 1..n
    BY <1>3, <1>4, TablesType, NextTables
  <2>2. /\ SubSeq(tables, 1, n) \in Seq(Versions) /\ Len(SubSeq(tables, 1, n)) = n
        /\ \A k \in 1..n : SubSeq(tables, 1, n)[k] = tables[k]
    <3>1. \A k \in 1..n : tables[k] \in Versions
      BY <1>3, <2>1, ElementOfSeq
    <3>2. /\ SubSeq(tables, 1, n) \in Seq(Versions)
          /\ Len(SubSeq(tables, 1, n)) = IF 1 <= n THEN n - 1 + 1 ELSE 0
          /\ \A k \in 1..(n - 1 + 1) : SubSeq(tables, 1, n)[k] = tables[1 + k - 1]
      BY <1>3, <3>1, SubSeqProperties
    <3> QED
      BY <1>3, <3>2
  <2>3. ASSUME NEW k \in 1..n PROVE tables'[k] = SubSeq(tables, 1, n)[k]
    <3>1. tables'[k] = sources[published'[k]]
      BY <1>3, <2>1, NextTables
    <3>2. tables[k] = sources[published[k]]
      BY <1>3, TablesType
    <3> QED
      BY <1>5, <2>2, <3>1, <3>2
  <2> QED
    BY <2>1, <2>2, <2>3, SameTables
<1>7. Rank(journal[1].current)' = n
  <2>1. journal'[1] = journal[i]
    BY <1>1
  <2>2. Position(published', journal[i].current) = n
    BY <1>2, <1>3, <1>4 DEF Rank
  <2> QED
    BY <2>1, <2>2 DEF Rank
<1>8. n \in Rank(journal[1].current)..Len(tables)
  BY TablesType
<1> QED
  BY <1>6, <1>7, <1>8 DEF tables, Artifact!Next, Artifact!Crash

LEMMA Implements ==
    ASSUME OInv, OInv', [Next]_vars
    PROVE  [Artifact!Next]_<<tables, Rank(journal[1].current)>>
<1>1. ASSUME NEW c \in Converters, Convert(c)
      PROVE  [Artifact!Next]_<<tables, Rank(journal[1].current)>>
  <2>1. CASE Swap(c)
    BY <2>1, SwapRefines
  <2>2. CASE ~Swap(c)
    BY <1>1, <2>2, ConversionSteady, SteadyRefines
  <2> QED
    BY <2>1, <2>2
<1>2. CASE Crash
  BY <1>2, CrashRefines
<1>3. CASE ~Crash /\ ~\E c \in Converters : Convert(c)
  <2>1. UNCHANGED <<pc, sources, files, journal, published>>
    BY <1>3 DEF Next, EnrollHash, EnrollLoad, CheckCurrent, CheckGeneration, OpenReader, Stop,
                SourceChanges, vars
  <2>2. Follows /\ \A d : Kept(d)
    BY <2>1, FollowsSame DEF Kept, files
  <2>3. Steady
    BY <2>1, <2>2 DEF Steady
  <2> QED
    BY <2>3, SteadyRefines
<1> QED
  BY <1>1, <1>2, <1>3

\* CURRENT moves atomically between whole tables, and only a move that no conversion has
\* returned for is ever taken back.
THEOREM Refinement == Spec => ImplementsAtomicTable
<1>1. Init => Artifact!Init
  <2> SUFFICES ASSUME Init PROVE tables = <<>> /\ Rank(journal[1].current) = 0
    BY DEF Artifact!Init, tables
  <2>2. published = <<>>
    BY DEF Init
  <2>3. DOMAIN published = {}
    BY <2>2
  <2> QED
    BY <2>3 DEF tables, Rank, Position
<1>2. OInv /\ OInv' /\ [Next]_vars
        => [Artifact!Next]_<<[i \in DOMAIN published |-> Table(published[i])],
                             Rank(journal[1].current)>>
  BY Implements DEF tables
<1> QED
  BY <1>1, <1>2, OrderInvariance, PTL DEF Spec, ImplementsAtomicTable, Artifact!Spec
=============================================================================
