---------------------------- MODULE GenerationStore ----------------------------
(***************************************************************************)
(* The artifact directory of the PLE table: generations/<id>/ and CURRENT.  *)
(* Converters write generations and publish them (ple_gds/compact.py        *)
(* convert_compact, ple_gds/manifest.py convert); prepare-ple.py enrolls    *)
(* the published one; the runtime checks the enrolled identity and opens    *)
(* the reader (vllm_ple_gds.py).  The machine may crash at any step.        *)
(*                                                                          *)
(* The file system journals its directories in order, as ext4 and XFS do:   *)
(* a crash leaves the directories as they were at some moment since the     *)
(* last one that fsync has secured.  The bytes of a file survive for sure   *)
(* only after fsync of that file.  posix_fallocate keeps the size, so only  *)
(* a hash tells lost bytes from written ones.                               *)
(***************************************************************************)
EXTENDS Naturals, Sequences, FiniteSets

CONSTANTS
    Converters,   \* runs of the converter; each writes one generation, named after it
    Formats,      \* values of compact that a behaviour may have
    None,
    Chunks,       \* reads of the source per conversion (bound)
    MaxVersion,   \* changes of the source (bound)
    MaxCrashes    \* crashes (bound)

ASSUME ConverterAssumption ==
    IsFiniteSet(Converters) /\ Formats \subseteq SUBSET Converters /\ None \notin Converters
ASSUME BoundAssumption == Chunks \in Nat \ {0} /\ MaxVersion \in Nat /\ MaxCrashes \in Nat

VARIABLES
    compact,   \* the converters that run convert_compact, the others run convert
    source,    \* version of the checkpoint files (size, mtime_ns)
    pc,        \* pc[c]: the next step of conversion c
    sources,   \* sources[c]: the version recorded as source_files
    copied,    \* copied[c]: the version each chunk of the data file was read from
    digest,    \* digest[c]: data_sha256, as the bytes it was computed over
    written,   \* the pairs <<file, c>> whose bytes are there
    synced,    \* those that fsync has made durable
    journal,   \* the states of the directories a crash may leave, the last is the present
    identity,  \* the enrolled identity
    enroller,  \* the generation prepare-ple.py has loaded
    server,    \* the runtime's start-up
    claim,     \* the identity it has read
    opened,    \* the generation the reader has open
    published, \* history: the generations CURRENT has named
    crashes

files   == <<copied, digest, written, synced>>
runtime == <<identity, enroller, server, claim, opened>>
vars    == <<compact, source, pc, sources, files, journal, runtime, published, crashes>>

Versions == 0..MaxVersion
Names    == {"data", "metadata", "pointer"}  \* pointer: the temporary file renamed to CURRENT
Steps    == {"idle", "copy", "syncdata", "hash", "syncmeta", "validate", "rename", "seal",
             "syncgen", "syncgens", "point", "syncpointer", "swap", "syncout", "done",
             "failed", "crashed"}
Directory == [entries: SUBSET Converters,   \* what generations/ holds
              sealed:  SUBSET Converters,   \* generations without write permission
              current: Converters \cup {None}]  \* what CURRENT was renamed from

now == journal[Len(journal)]

Init ==
    /\ compact \in Formats
    /\ source = 0
    /\ pc = [c \in Converters |-> "idle"]
    /\ sources = [c \in Converters |-> 0]
    /\ copied = [c \in Converters |-> <<>>]
    /\ digest = [c \in Converters |-> <<>>]
    /\ written = {} /\ synced = {}
    /\ journal = <<[entries |-> {}, sealed |-> {}, current |-> None]>>
    /\ identity = None /\ enroller = None /\ server = "down" /\ claim = None
    /\ opened = None
    /\ published = <<>> /\ crashes = 0

-----------------------------------------------------------------------------
(* Conversion c.                                                           *)

Goto(c, step)  == pc' = [pc EXCEPT ![c] = step]
At(c, step)    == pc[c] = step
Write(file, c) == written' = written \cup {<<file, c>>}
Sync(file, c)  == synced' = synced \cup ({<<file, c>>} \cap written)

\* One directory operation.
Journal(directory) == journal' = Append(journal, directory)

\* fsync of a directory secures the journal up to the last operation on what it holds;
\* held[i] is what it holds in journal[i].
Secure(held) == \E k \in DOMAIN journal :
    /\ \A j \in k..Len(journal) : held[j] = held[Len(journal)]
    /\ k > 1 => held[k - 1] # held[Len(journal)]
    /\ journal' = SubSeq(journal, k, Len(journal))

\* source_files is recorded, then the temporary directory is made.
Begin(c) ==
    /\ At(c, "idle")
    /\ sources' = [sources EXCEPT ![c] = source]
    /\ Goto(c, "copy")
    /\ UNCHANGED <<compact, source, files, journal, runtime, published, crashes>>

\* The rows and the global tensors are copied piece by piece.  Mutant: one piece too many.
CopyPastEnd(c) ==
    /\ At(c, "copy")
    /\ copied' = [copied EXCEPT ![c] = Append(@, source)]
    /\ Write("data", c)
    /\ Goto(c, IF Len(copied[c]) = Chunks THEN "syncdata" ELSE "copy")
    /\ UNCHANGED <<compact, source, sources, digest, synced, journal, runtime, published,
                   crashes>>
Copy(c) ==
    /\ At(c, "copy")
    /\ copied' = [copied EXCEPT ![c] = Append(@, source)]
    /\ Write("data", c)
    /\ Goto(c, IF Len(copied[c]) + 1 = Chunks THEN "syncdata" ELSE "copy")
    /\ UNCHANGED <<compact, source, sources, digest, synced, journal, runtime, published,
                   crashes>>

\* Mutant: the data file is not fsynced before the generation is published.
SyncDataSkipped(c) ==
    /\ At(c, "syncdata")
    /\ Goto(c, "hash")
    /\ UNCHANGED <<compact, source, sources, files, journal, runtime, published, crashes>>
SyncData(c) ==
    /\ At(c, "syncdata")
    /\ Sync("data", c)
    /\ Goto(c, "hash")
    /\ UNCHANGED <<compact, source, sources, copied, digest, written, journal, runtime,
                   published, crashes>>

\* data_sha256 is taken from the data file, and the metadata file is written.
Describe(c) ==
    /\ At(c, "hash")
    /\ digest' = [digest EXCEPT ![c] = copied[c]]
    /\ Write("metadata", c)
    /\ Goto(c, "syncmeta")
    /\ UNCHANGED <<compact, source, sources, copied, synced, journal, runtime, published,
                   crashes>>

SyncMetadata(c) ==
    /\ At(c, "syncmeta")
    /\ Sync("metadata", c)
    /\ Goto(c, "validate")
    /\ UNCHANGED <<compact, source, sources, copied, digest, written, journal, runtime,
                   published, crashes>>

\* An exception anywhere: the temporary directory goes, unless it has been renamed.
\* Mutant: the cleanup does not ask whether the generation has been published.
DiscardBlindly(c) ==
    /\ written' = {f \in written : f[2] # c}
    /\ synced' = {f \in synced : f[2] # c}
Discard(c) ==
    IF c \in now.entries
      THEN UNCHANGED <<written, synced>>
      ELSE /\ written' = {f \in written : f[2] # c}
           /\ synced' = {f \in synced : f[2] # c}

\* validate_compact_metadata: check_sources compares the source with what was recorded.
\* Mutant: the source is not compared again.
ValidatesDataOnly(c) == copied[c] = digest[c]
Validates(c) == copied[c] = digest[c] /\ source = sources[c]

Validate(c) ==
    /\ At(c, "validate")
    /\ IF Validates(c)
         THEN Goto(c, "rename") /\ UNCHANGED <<written, synced>>
         ELSE Goto(c, "failed") /\ Discard(c)
    /\ UNCHANGED <<compact, source, sources, copied, digest, journal, runtime, published,
                   crashes>>

\* os.replace of the temporary directory by the generation.
Rename(c) ==
    /\ At(c, "rename")
    /\ Journal([now EXCEPT !.entries = @ \cup {c}])
    /\ Goto(c, IF c \in compact THEN "seal" ELSE "syncgens")
    /\ UNCHANGED <<compact, source, sources, files, runtime, published, crashes>>

\* chmod of the data file, the metadata file and the generation.
Seal(c) ==
    /\ At(c, "seal")
    /\ Journal([now EXCEPT !.sealed = @ \cup {c}])
    /\ Goto(c, "syncgen")
    /\ UNCHANGED <<compact, source, sources, files, runtime, published, crashes>>

\* _fsync_dir(generation): its mode is the last thing that changed.
SyncGeneration(c) ==
    /\ At(c, "syncgen")
    /\ Secure([i \in DOMAIN journal |-> c \in journal[i].sealed])
    /\ Goto(c, "syncgens")
    /\ UNCHANGED <<compact, source, sources, files, runtime, published, crashes>>

SyncGenerations(c) ==
    /\ At(c, "syncgens")
    /\ Secure([i \in DOMAIN journal |-> journal[i].entries])
    /\ Goto(c, "point")
    /\ UNCHANGED <<compact, source, sources, files, runtime, published, crashes>>

WritePointer(c) ==
    /\ At(c, "point")
    /\ Write("pointer", c)
    /\ Goto(c, "syncpointer")
    /\ UNCHANGED <<compact, source, sources, copied, digest, synced, journal, runtime,
                   published, crashes>>

SyncPointer(c) ==
    /\ At(c, "syncpointer")
    /\ Sync("pointer", c)
    /\ Goto(c, "swap")
    /\ UNCHANGED <<compact, source, sources, copied, digest, written, journal, runtime,
                   published, crashes>>

\* os.replace of CURRENT.
Swap(c) ==
    /\ At(c, "swap")
    /\ Journal([now EXCEPT !.current = c])
    /\ published' = Append(published, c)
    /\ Goto(c, "syncout")
    /\ UNCHANGED <<compact, source, sources, files, runtime, crashes>>

\* _fsync_dir(output), and the conversion returns.
\* Mutant: it returns without it.
SyncOutputSkipped(c) ==
    /\ At(c, "syncout")
    /\ Goto(c, "done")
    /\ UNCHANGED <<compact, source, sources, files, journal, runtime, published, crashes>>
SyncOutput(c) ==
    /\ At(c, "syncout")
    /\ Secure([i \in DOMAIN journal |-> journal[i].current])
    /\ Goto(c, "done")
    /\ UNCHANGED <<compact, source, sources, files, runtime, published, crashes>>

Fail(c) ==
    /\ pc[c] \notin {"idle", "done", "failed", "crashed"}
    /\ Goto(c, "failed")
    /\ Discard(c)
    /\ UNCHANGED <<compact, source, sources, copied, digest, journal, runtime, published,
                   crashes>>

Convert(c) ==
    \/ Begin(c) \/ Copy(c) \/ SyncData(c) \/ Describe(c) \/ SyncMetadata(c) \/ Validate(c)
    \/ Rename(c) \/ Seal(c) \/ SyncGeneration(c) \/ SyncGenerations(c)
    \/ WritePointer(c) \/ SyncPointer(c) \/ Swap(c) \/ SyncOutput(c) \/ Fail(c)

-----------------------------------------------------------------------------
(* Enrolment and start-up.                                                 *)

\* What CURRENT reads as; a lost file names nothing.
Named == IF now.current # None /\ <<"pointer", now.current>> \in written
           THEN now.current ELSE None

\* load_current_compact with require_immutable; with_data is check_data.
Loads(c, with_data) ==
    /\ c \in compact /\ Named = c /\ c \in now.entries
    /\ <<"metadata", c>> \in written
    /\ c \in now.sealed
    /\ with_data => <<"data", c>> \in written /\ copied[c] = digest[c]

Identity == [generation: Converters, current: Converters \cup {None}]

\* enroll: the generation is loaded, then CURRENT is hashed; the identity is a new file
\* that the configuration then names.
EnrollLoad(c) ==
    /\ enroller = None
    /\ \E verify_data \in BOOLEAN : Loads(c, verify_data)
    /\ enroller' = c
    /\ UNCHANGED <<compact, source, pc, sources, files, journal, identity, server, claim,
                   opened, published, crashes>>

EnrollHash ==
    /\ enroller # None
    /\ identity' = [generation |-> enroller, current |-> Named]
    /\ enroller' = None
    /\ UNCHANGED <<compact, source, pc, sources, files, journal, server, claim, opened,
                   published, crashes>>

\* _validate_artifact: the identity is read and CURRENT is hashed.
CheckCurrent ==
    /\ server = "down" /\ identity # None
    /\ claim' = identity
    /\ server' = IF Named = identity.current THEN "checked" ELSE "failed"
    /\ UNCHANGED <<compact, source, pc, sources, files, journal, identity, enroller,
                   opened, published, crashes>>

\* The artifact is loaded and compared with the identity.
\* Mutant: the name of the generation is not compared.
MatchesLoosely(c) == TRUE
Matches(c) == c = claim.generation

CheckGeneration ==
    /\ server = "checked"
    /\ server' = IF \E c \in Converters : Loads(c, FALSE) /\ Matches(c)
                   THEN "validated" ELSE "failed"
    /\ UNCHANGED <<compact, source, pc, sources, files, journal, identity, enroller,
                   claim, opened, published, crashes>>

\* _make_reader: the reader loads the artifact again.
OpenReader ==
    /\ server = "validated"
    /\ \/ \E c \in Converters : Loads(c, FALSE) /\ opened' = c /\ server' = "serving"
       \/ ~(\E c \in Converters : Loads(c, FALSE)) /\ server' = "failed" /\ UNCHANGED opened
    /\ UNCHANGED <<compact, source, pc, sources, files, journal, identity, enroller,
                   claim, published, crashes>>

\* The service ends and may be started again.
Stop ==
    /\ server \in {"failed", "serving"}
    /\ server' = "down" /\ claim' = None /\ opened' = None
    /\ UNCHANGED <<compact, source, pc, sources, files, journal, identity, enroller,
                   published, crashes>>

-----------------------------------------------------------------------------
(* The environment.                                                        *)

SourceChanges ==
    /\ source < MaxVersion
    /\ source' = source + 1
    /\ UNCHANGED <<compact, pc, sources, files, journal, runtime, published, crashes>>

\* Where c stands in the history p, 0 when it does not.
Position(p, c) == IF \E i \in DOMAIN p : p[i] = c
                    THEN CHOOSE i \in DOMAIN p : p[i] = c ELSE 0
Rank(c) == Position(published, c)

\* The machine stops.  What was not synced is kept or lost, file by file.
Crash ==
    /\ crashes < MaxCrashes
    /\ crashes' = crashes + 1
    /\ \E i \in DOMAIN journal :
         /\ journal' = <<journal[i]>>
         /\ published' = SubSeq(published, 1, Rank(journal[i].current))
    /\ \E kept \in SUBSET written : synced \subseteq kept /\ written' = kept
    /\ synced' = written'
    /\ pc' = [c \in Converters |->
                IF pc[c] \in {"idle", "done", "failed"} THEN pc[c] ELSE "crashed"]
    /\ identity' \in {identity, None}
    /\ enroller' = None /\ server' = "down" /\ claim' = None /\ opened' = None
    /\ UNCHANGED <<compact, source, sources, copied, digest>>

Next ==
    \/ \E c \in Converters : Convert(c) \/ EnrollLoad(c)
    \/ EnrollHash \/ CheckCurrent \/ CheckGeneration \/ OpenReader \/ Stop
    \/ SourceChanges \/ Crash

Spec == Init /\ [][Next]_vars

-----------------------------------------------------------------------------
(* Properties.                                                             *)

TypeOK ==
    /\ compact \in Formats
    /\ source \in Versions
    /\ pc \in [Converters -> Steps]
    /\ sources \in [Converters -> Versions]
    /\ copied \in [Converters -> Seq(Versions)]
    /\ \A c \in Converters : Len(copied[c]) <= Chunks
    /\ digest \in [Converters -> Seq(Versions)]
    /\ written \subseteq Names \X Converters
    /\ synced \subseteq written
    /\ journal \in Seq(Directory) /\ journal # <<>>
    /\ identity \in Identity \cup {None}
    /\ enroller \in compact \cup {None}
    /\ server \in {"down", "checked", "validated", "serving", "failed"}
    /\ claim \in Identity \cup {None}
    /\ opened \in compact \cup {None}
    /\ published \in Seq(Converters)
    /\ crashes \in 0..MaxCrashes

\* The files of c hold a copy of one version of the source, the one it recorded.
Whole(c) ==
    /\ copied[c] = [i \in 1..Chunks |-> sources[c]]
    /\ digest[c] = copied[c]
    /\ Names \X {c} \subseteq written

\* Whatever a crash leaves (and what is there now): a generation that CURRENT names is in
\* place, write-protected if it is a compact one, a whole copy of one version of the
\* source, and every byte of it is already durable.
CrashSafe ==
    \A i \in DOMAIN journal : LET c == journal[i].current IN
        c # None =>
            /\ c \in journal[i].entries
            /\ c \in compact => c \in journal[i].sealed
            /\ Whole(c)
            /\ Names \X {c} \subseteq synced

\* When a conversion has returned, no crash brings back a CURRENT older than its own.
ReturnedIsDurable ==
    \A c \in Converters : pc[c] = "done" =>
        Rank(c) > 0 /\ \A i \in DOMAIN journal : Rank(journal[i].current) >= Rank(c)

\* The reader opens the artifact without hashing its data: what it serves is a whole copy
\* all the same, and stays so while other conversions run, fail or are interrupted.
ServedWhole == opened # None => Whole(opened)

\* An identity put together from two generations, when CURRENT moved during enrolment, is
\* never accepted.
TornIdentityRefused ==
    server \in {"validated", "serving"} => claim.generation = claim.current

\* CURRENT moves atomically between whole tables, and only an unacknowledged move is ever
\* taken back.
Table(c) == IF Whole(c) THEN sources[c] ELSE None
Artifact == INSTANCE AtomicTable WITH
    Tables <- Versions,
    history <- [i \in DOMAIN published |-> Table(published[i])],
    safe <- Rank(journal[1].current)
ImplementsAtomicTable == Artifact!Spec
=============================================================================
