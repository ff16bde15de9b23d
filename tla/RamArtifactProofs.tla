---------------------------- MODULE RamArtifactProofs ----------------------------
(***************************************************************************)
(* Proofs about the RAM-disk setup, for every set of generations and any   *)
(* number of runs.                                                         *)
(***************************************************************************)
EXTENDS RamArtifact, TLAPS

-----------------------------------------------------------------------------
(* The inductive invariant.                                                *)

Formatted == {"mount", "layout", "copy", "names", "check", "protect", "remount", "record"}
Making    == {"load", "format"} \cup Formatted

\* A run that makes the RAM disk has found no device, hence no record; what it
\* formats is its own and is mounted as far as the run has come.
Alone ==
    /\ pc \notin {"ended", "ready"} => runs > 0
    /\ pc \in Making => ~owner
    /\ pc \in {"load", "format"} => maker = 0
    /\ pc \in Formatted => device = "fs" /\ maker = runs
    /\ pc = "record" => mount = "ro"
    /\ maker > 0 => device = "fs"

\* What the copy has written by the time it is there; the identity does not
\* change under a run.
Copied ==
    /\ pc = "copy" => dst.generation = identity
    /\ pc \in {"names", "check"} => dst.generation = identity /\ dst.bytes = "good"
    /\ pc \in {"protect", "remount", "record"} => Verifies

IInv == TypeOK /\ Alone /\ Copied /\ OwnedIsWhole /\ ReadyIsEnrolled

LEMMA Initially == Init => IInv
<1> SUFFICES ASSUME Init PROVE IInv
  OBVIOUS
<1>1. NoArtifact \in Artifact
  BY DEF NoArtifact, Artifact
<1>2. 0 \in 0..MaxRuns
  BY RamAssumption
<1>3. TypeOK
  BY <1>1, <1>2 DEF Init, TypeOK
<1> QED
  BY <1>3 DEF Init, IInv, Alone, Copied, OwnedIsWhole, ReadyIsEnrolled, Making, Formatted

\* Updating one field of the artifact.
LEMMA Fields ==
    ASSUME TypeOK
    PROVE  /\ NoArtifact \in Artifact
           /\ \A g \in Generations : [NoArtifact EXCEPT !.generation = g] \in Artifact
           /\ \A b \in {"part", "good", "bad"} : [dst EXCEPT !.bytes = b] \in Artifact
           /\ \A g \in Generations : [dst EXCEPT !.current = g] \in Artifact
           /\ \A m \in SUBSET Modes : [dst EXCEPT !.readonly = m] \in Artifact
BY DEF TypeOK, NoArtifact, Artifact, Modes

LEMMA StepKeeps == IInv /\ [Next]_vars => IInv'
<1> SUFFICES ASSUME IInv, [Next]_vars PROVE IInv'
  OBVIOUS
<1> USE RamAssumption DEF IInv, Alone, Copied, OwnedIsWhole, ReadyIsEnrolled, Making,
        Formatted, inputs, disk
<1>1. CASE Start
  BY <1>1 DEF Start, TypeOK
<1>2. CASE Size \/ Reuse \/ Prepare \/ Verify \/ Check \/ Exit
  <2> USE DEF Step, TypeOK, Verifies, VerifiesLayout
  <2>1. CASE Size
    BY <2>1 DEF Size
  <2>2. CASE Reuse
    BY <2>2 DEF Reuse
  <2>3. CASE Prepare
    BY <2>3 DEF Prepare, Fresh
  <2>4. CASE Verify
    BY <2>4 DEF Verify
  <2>5. CASE Check
    BY <2>5 DEF Check
  <2>6. CASE Exit
    BY <2>6 DEF Exit
  <2> QED
    BY <1>2, <2>1, <2>2, <2>3, <2>4, <2>5, <2>6
<1>3. CASE LoadModule
  BY <1>3 DEF LoadModule, Step, TypeOK
<1>4. CASE Format
  BY <1>4, Fields DEF Format, Step, TypeOK
<1>5. CASE Mount
  BY <1>5 DEF Mount, Step, TypeOK
<1>6. CASE Layout
  <2>1. dst' \in Artifact /\ dst'.generation = identity
    BY <1>6, Fields DEF Layout, TypeOK, NoArtifact, Artifact
  <2> QED
    BY <1>6, <2>1 DEF Layout, Step, TypeOK
<1>7. CASE Copy
  <2>1. /\ dst' \in Artifact /\ dst'.generation = dst.generation
        /\ dst'.bytes = "good" /\ dst'.current = dst.current
    BY <1>7, Fields DEF Copy, TypeOK, Artifact
  <2> QED
    BY <1>7, <2>1 DEF Copy, Step, TypeOK
<1>8. CASE CopyNames
  <2>1. /\ dst' \in Artifact /\ dst'.generation = dst.generation
        /\ dst'.bytes = dst.bytes /\ dst'.current = source
    BY <1>8, Fields DEF CopyNames, TypeOK, Artifact
  <2> QED
    BY <1>8, <2>1 DEF CopyNames, Step, TypeOK
<1>9. CASE CopyRaises
  BY <1>9, Fields DEF CopyRaises, TypeOK
<1>10. CASE Protect
  <2>1. /\ dst' \in Artifact /\ dst'.generation = dst.generation
        /\ dst'.bytes = dst.bytes /\ dst'.current = dst.current
    BY <1>10, Fields DEF Protect, TypeOK, Artifact, Modes
  <2> QED
    BY <1>10, <2>1 DEF Protect, Step, TypeOK, Verifies, VerifiesLayout
<1>11. CASE Remount
  BY <1>11 DEF Remount, Step, TypeOK, Verifies, VerifiesLayout
<1>12. CASE Record
  BY <1>12 DEF Record, Step, TypeOK, Verifies, VerifiesLayout
<1>13. CASE Publish
  BY <1>13 DEF Publish, TypeOK, Verifies, VerifiesLayout
<1>14. CASE Enroll
  BY <1>14 DEF Enroll, TypeOK
<1>15. CASE Damage
  <2>1. /\ dst' \in Artifact /\ dst'.generation = dst.generation
        /\ dst'.bytes = "bad" /\ dst'.current = dst.current
    BY <1>15, Fields DEF Damage, TypeOK, Artifact
  <2> QED
    BY <1>15, <2>1 DEF Damage, TypeOK
<1>16. CASE OthersLoad
  BY <1>16 DEF OthersLoad, TypeOK, Verifies, VerifiesLayout
<1>17. CASE Reboot
  <2>1. 0 \in 0..MaxRuns
    OBVIOUS
  <2>2. TypeOK'
    BY <1>17, <2>1, Fields DEF Reboot, TypeOK
  <2> QED
    BY <1>17, <2>2 DEF Reboot
<1>18. CASE UNCHANGED vars
  BY <1>18 DEF vars, TypeOK, Verifies, VerifiesLayout
<1> QED
  BY <1>1, <1>2, <1>3, <1>4, <1>5, <1>6, <1>7, <1>8, <1>9, <1>10, <1>11, <1>12, <1>13,
     <1>14, <1>15, <1>16, <1>17, <1>18 DEF Next, Setup, Others

LEMMA Invariance == Spec => []IInv
<1> QED
  BY Initially, StepKeeps, PTL DEF Spec

-----------------------------------------------------------------------------
(* The properties.                                                         *)

\* The state of the setup, of the device and of the copy keep their types, and
\* only a device that a run has formatted is mounted.
THEOREM TypeCorrect == Spec => []TypeOK
BY Invariance, PTL DEF IInv

\* What the ownership record stands for, and what a successful run reports, is
\* one whole generation, whatever runs failed or were killed before
\* (ple-ram-setup.sh, ple-ram-artifact.py).
THEOREM DestinationIsWhole == Spec => []DestinationWhole
<1>1. IInv => DestinationWhole
  BY DEF IInv, DestinationWhole
<1> QED
  BY <1>1, Invariance, PTL

\* No run changes what an earlier run has left on the device.
THEOREM EarlierRunIsKept == Spec => EarlierRunKept
<1>1. IInv /\ [Next]_vars => [KeepsEarlierRun]_vars
  <2> SUFFICES ASSUME IInv, Next, maker \in 1..(runs - 1), device' # "absent"
               PROVE  /\ UNCHANGED <<maker, device>>
                      /\ dst' \in {dst, [dst EXCEPT !.bytes = "bad"]}
    BY DEF KeepsEarlierRun
  <2>1. pc \notin Making /\ device = "fs"
    BY DEF IInv, TypeOK, Alone, Making
  <2>2. CASE Setup
    BY <2>1, <2>2 DEF Setup, Start, Size, Reuse, Verify, Prepare, LoadModule, Format, Mount,
       Layout, Copy, CopyNames, Check, CopyRaises, Protect, Remount, Record, Exit, Step,
       Making, Formatted, disk
  <2>3. CASE Others
    BY <2>1, <2>3 DEF Others, Publish, Enroll, Damage, OthersLoad, Reboot, disk
  <2> QED
    BY <2>2, <2>3 DEF Next
<1> QED
  BY <1>1, Invariance, PTL DEF Spec, EarlierRunKept
=============================================================================
