------------------------------ MODULE RamArtifact ------------------------------
(***************************************************************************)
(* The optional RAM disk (scripts/ple-ram-setup.sh, ple-ram-artifact.py     *)
(* copy and verify): one run of the setup at a time (flock) makes /dev/ram0,*)
(* copies the enrolled generation onto it and records that it owns it, or   *)
(* verifies what an earlier run made.  Runs fail, are killed and are        *)
(* repeated; the artifact is republished and the identity replaced between  *)
(* runs; others use brd too; memory is lost at a reboot.                    *)
(***************************************************************************)
EXTENDS Naturals

CONSTANTS
    Generations,  \* generations of the source artifact
    None,
    MaxRuns       \* runs of the setup (bound)

ASSUME RamAssumption ==
    None \notin Generations /\ MaxRuns \in Nat

VARIABLES
    source,    \* the generation that CURRENT of the source names
    spoilt,    \* generations whose payload on the SSD no longer has its digest
    identity,  \* the enrolled generation
    pc,        \* the setup
    runs,      \* runs begun
    device,    \* /dev/ram0: absent, blank, fs (formatted by a run), foreign
    maker,     \* history: the run that formatted it
    mount,     \* how it is mounted: no, rw, ro
    dst,       \* the artifact on it
    owner      \* the ownership record exists

inputs == <<source, spoilt, identity>>
disk   == <<device, maker, mount>>
vars   == <<inputs, pc, runs, disk, dst, owner>>

Modes == {"data", "metadata", "CURRENT", "generation"}  \* what may be write-protected

Artifact == [generation: Generations \cup {None},
             bytes:      {"part", "good", "bad"},
             current:    Generations \cup {None},
             readonly:   SUBSET Modes]
NoArtifact == [generation |-> None, bytes |-> "part", current |-> None, readonly |-> {}]

Init ==
    /\ source \in Generations /\ identity = source /\ spoilt \in SUBSET Generations
    /\ pc = "ended" /\ runs = 0
    /\ device \in {"absent", "foreign"} /\ maker = 0 /\ mount = "no"
    /\ dst = NoArtifact /\ owner = FALSE

-----------------------------------------------------------------------------
(* The setup.                                                              *)

Step(from, to) == pc = from /\ pc' = to

Start ==
    /\ pc \in {"ended", "ready"} /\ runs < MaxRuns
    /\ runs' = runs + 1 /\ pc' = "size"
    /\ UNCHANGED <<inputs, disk, dst, owner>>

\* set -e, a refusal, or a signal: the run ends where it is, and what it made stays.
Exit ==
    /\ pc \notin {"ended", "ready"}
    /\ pc' = "ended"
    /\ UNCHANGED <<inputs, runs, disk, dst, owner>>

\* layout: CURRENT and the metadata of the source are those that were enrolled.
Size ==
    /\ source = identity /\ Step("size", "look")
    /\ UNCHANGED <<inputs, runs, disk, dst, owner>>

\* A device that exists must be the one this setup recorded, mounted read-only.
\* Mutant: any device without a record is set up.
Unrecorded == ~owner
Fresh == device = "absent"

Reuse ==
    /\ device # "absent" /\ owner /\ mount = "ro"
    /\ Step("look", "verify")
    /\ UNCHANGED <<inputs, runs, disk, dst, owner>>

Prepare ==
    /\ Fresh /\ mount = "no"
    /\ Step("look", "load")
    /\ UNCHANGED <<inputs, runs, disk, dst, owner>>

\* verify: the names, then the digest of the payload.
\* Mutant: only the layout is looked at.
VerifiesLayout == dst.generation = identity /\ dst.current = identity
Verifies == VerifiesLayout /\ dst.bytes = "good"

Verify ==
    /\ Verifies /\ Step("verify", "ready")
    /\ UNCHANGED <<inputs, runs, disk, dst, owner>>

\* modprobe does nothing when the module is loaded.  Mutant: the device is not formatted.
LoadUnformatted ==
    /\ Step("load", "mount")
    /\ device' = IF device = "absent" THEN "blank" ELSE device
    /\ UNCHANGED <<inputs, runs, maker, mount, dst, owner>>
LoadModule ==
    /\ Step("load", "format")
    /\ device' = IF device = "absent" THEN "blank" ELSE device
    /\ UNCHANGED <<inputs, runs, maker, mount, dst, owner>>

\* The device is large enough and not mounted: mkfs.
Format ==
    /\ mount = "no" /\ Step("format", "mount")
    /\ device' = "fs" /\ maker' = runs
    /\ dst' = NoArtifact
    /\ UNCHANGED <<inputs, runs, mount, owner>>

\* Mutant: the record is written before the copy.
MountAndRecord ==
    /\ Step("mount", "layout")
    /\ mount' = "rw" /\ owner' = TRUE
    /\ UNCHANGED <<inputs, runs, device, maker, dst>>
Mount ==
    /\ Step("mount", "layout")
    /\ mount' = "rw"
    /\ UNCHANGED <<inputs, runs, device, maker, dst, owner>>

\* copy: the layout of the source, then the new directories.
Layout ==
    /\ source = identity /\ Step("layout", "copy")
    /\ dst' = [NoArtifact EXCEPT !.generation = identity]
    /\ UNCHANGED <<inputs, runs, disk, owner>>

\* The payload is copied and hashed on the way.
Copy ==
    /\ identity \notin spoilt /\ Step("copy", "names")
    /\ dst' = [dst EXCEPT !.bytes = "good"]
    /\ UNCHANGED <<inputs, runs, disk, owner>>

\* The metadata and CURRENT, which may have moved since.
CopyNames ==
    /\ Step("names", "check")
    /\ dst' = [dst EXCEPT !.current = source]
    /\ UNCHANGED <<inputs, runs, disk, owner>>

Check ==
    /\ Verifies /\ Step("check", "protect")
    /\ UNCHANGED <<inputs, runs, disk, dst, owner>>

\* An exception in copy removes the destination; then the script exits.
CopyRaises ==
    /\ pc \in {"copy", "names", "check", "protect"} /\ pc' = "ended"
    /\ dst' = NoArtifact
    /\ UNCHANGED <<inputs, runs, disk, owner>>

\* chmod of the three files; the directories keep their mode.
Protect ==
    /\ Step("protect", "remount")
    /\ dst' = [dst EXCEPT !.readonly = {"data", "metadata", "CURRENT"}]
    /\ UNCHANGED <<inputs, runs, disk, owner>>

Remount ==
    /\ Step("remount", "record")
    /\ mount' = "ro"
    /\ UNCHANGED <<inputs, runs, device, maker, dst, owner>>

Record ==
    /\ Step("record", "ready")
    /\ owner' = TRUE
    /\ UNCHANGED <<inputs, runs, disk, dst>>

Setup ==
    \/ Start \/ Size \/ Reuse \/ Verify \/ Prepare \/ LoadModule \/ Format \/ Mount
    \/ Layout \/ Copy \/ CopyNames \/ Check \/ CopyRaises \/ Protect \/ Remount \/ Record
    \/ Exit

-----------------------------------------------------------------------------
(* Everyone else.                                                          *)

\* A conversion publishes another generation.
Publish ==
    /\ \E g \in Generations \ {source} : source' = g
    /\ UNCHANGED <<spoilt, identity, pc, runs, disk, dst, owner>>

\* Another identity file is configured before a run.
Enroll ==
    /\ pc \in {"ended", "ready"} /\ identity # source
    /\ identity' = source
    /\ pc' = "ended"
    /\ UNCHANGED <<source, spoilt, runs, disk, dst, owner>>

\* The payload on the RAM disk is damaged.
Damage ==
    /\ dst.bytes = "good" /\ pc \in {"ended", "ready"}
    /\ dst' = [dst EXCEPT !.bytes = "bad"]
    /\ pc' = "ended"
    /\ UNCHANGED <<inputs, runs, disk, owner>>

\* Someone else loads brd and keeps data on the device, unmounted; the lock of the setup
\* does not exclude them.
OthersLoad ==
    /\ device = "absent"
    /\ device' = "foreign"
    /\ UNCHANGED <<inputs, pc, runs, maker, mount, dst, owner>>

\* /dev/ram0 and /run are gone.
Reboot ==
    /\ device' = "absent" /\ maker' = 0 /\ mount' = "no" /\ dst' = NoArtifact
    /\ owner' = FALSE /\ pc' = "ended"
    /\ UNCHANGED <<inputs, runs>>

Others == Publish \/ Enroll \/ Damage \/ OthersLoad \/ Reboot

Next == Setup \/ Others

Spec == Init /\ [][Next]_vars

-----------------------------------------------------------------------------
(* Properties.                                                             *)

TypeOK ==
    /\ source \in Generations /\ identity \in Generations /\ spoilt \subseteq Generations
    /\ pc \in {"ended", "ready", "size", "look", "verify", "load", "format", "mount",
               "layout", "copy", "names", "check", "protect", "remount", "record"}
    /\ runs \in 0..MaxRuns
    /\ device \in {"absent", "blank", "fs", "foreign"} /\ maker \in 0..MaxRuns
    /\ mount \in {"no", "rw", "ro"}
    /\ mount # "no" => device = "fs"
    /\ dst \in Artifact
    /\ owner \in BOOLEAN

\* The record is written only after a verified read-only mount: an owned device was
\* formatted by this setup, is mounted read-only and holds one whole generation under its
\* own name, whatever runs failed or were killed before.
OwnedIsWhole == owner =>
    /\ device = "fs" /\ maker > 0 /\ mount = "ro"
    /\ dst.generation # None /\ dst.current = dst.generation /\ dst.bytes # "part"

\* A run that succeeds leaves the generation enrolled at that time, with its digest,
\* though the source may have been republished during the copy or be damaged.
ReadyIsEnrolled == pc = "ready" =>
    dst.generation = identity /\ dst.current = identity /\ dst.bytes = "good"

\* What is owned, and what is said to be ready, can be used.
DestinationWhole == OwnedIsWhole /\ ReadyIsEnrolled

\* What an earlier run left on the device, whole or not, no later run changes.
KeepsEarlierRun ==
    maker \in 1..(runs - 1) /\ device' # "absent" =>
        /\ UNCHANGED <<maker, device>>
        /\ dst' \in {dst, [dst EXCEPT !.bytes = "bad"]}
EarlierRunKept == [][KeepsEarlierRun]_vars

\* "Use the destination printed by the script in config/local.json"
\* (docs/PLE_HOST_READ.en.md:44): load_current_compact, which asks that the generation, its
\* metadata and its data be write-protected, loads the destination of a run that succeeded.
LoadsCompact ==
    /\ dst.current = dst.generation
    /\ {"generation", "metadata", "data"} \subseteq dst.readonly
DestinationLoads == pc = "ready" => LoadsCompact
=============================================================================
