----------------------------- MODULE ImageCache ------------------------------
(***************************************************************************)
(* The host image cache of the campaign's prelude                          *)
(* (apps/resnet50_int8_g1_5.cpp: image_cache_key, load_image_cache,        *)
(* store_image_cache and main's staging of campaign_input).  The runners   *)
(* of all levels, segments and restarts share one directory.  A file is    *)
(* named after the first 16 digits of its key, holds the whole key and a   *)
(* checksum in its header, and appears under its name by a rename.         *)
(*                                                                         *)
(* A file is [key, sum, blob]: the key in its header, the blob that its    *)
(* checksum is of, and the chunks that are there.  SHA-256 tells any two   *)
(* inputs apart.  A file is never written again once it has its name, so   *)
(* that an open file is a value.  Disks fail, files rot, processes are     *)
(* killed; people edit what the images are computed from (Edits).          *)
(***************************************************************************)
EXTENDS Integers, Sequences

CONSTANTS
  Runners,    \* runner processes, each with one life
  Settings,   \* preprocessing spec and runner binary
  Lists,      \* contents of the sample CSV, all of one length
  Paths,      \* names of cache files
  PathOf,     \* the name of the file of a key
  Pids,
  Chunks,     \* chunks of a blob
  Edits,      \* of "csv", "images", "binary": what is edited meanwhile
  MaxVersion  \* bound: edits of the images

Keys == Settings \X Lists

ASSUME CacheAssumption ==
  /\ PathOf \in [Keys -> Paths]
  /\ Chunks \in Nat \ {0} /\ MaxVersion \in Nat
  /\ Edits \subseteq {"csv", "images", "binary"}

VARIABLES
  csv,        \* what the sample CSV holds now
  version,    \* of the image files
  edited,     \* history: the CSV or the images have been edited
  files,      \* by name
  temps,      \* files being written, by name and pid
  damaged,    \* names whose file is not what was renamed to it
  pc,
  settings,
  pid,
  has_binary, \* its binary is still the file that /proc/self/exe names
  samples,    \* campaign_samples
  key,        \* cache_key
  fd,         \* the cache file as opened
  input       \* campaign_input, in chunks

diskVars == <<csv, version, edited, files, temps, damaged>>
selfVars == <<settings, pid, has_binary>>
vars == <<diskVars, pc, selfVars, samples, key, fd, input>>

NoKey == <<>>
Junk == <<"junk">>
NoFile == [key |-> NoKey, sum |-> <<>>, blob |-> <<Junk>>]
NewFile == [key |-> NoKey, sum |-> <<>>, blob |-> <<>>]

\* preprocess: a chunk of the blob depends on the listed images and their
\* contents, the spec, and nothing else.
Chunk(l, i, s, v) == <<l, i, s, v>>

Init ==
  /\ csv \in Lists
  /\ version = 0 /\ edited = FALSE
  /\ files = [p \in Paths |-> NoFile]
  /\ temps = [p \in Paths |-> [q \in Pids |-> NoFile]]
  /\ damaged = {}
  /\ pc = [r \in Runners |-> "idle"]
  /\ settings \in [Runners -> Settings]
  /\ pid \in [Runners -> Pids]
  /\ has_binary = [r \in Runners |-> TRUE]
  /\ samples = [r \in Runners |-> csv]
  /\ key = [r \in Runners |-> NoKey]
  /\ fd = [r \in Runners |-> NoFile]
  /\ input = [r \in Runners |-> <<>>]

Ended == {"idle", "gate", "failed", "dead"}
Live(r) == pc[r] \notin Ended

Goto(r, label) == pc' = [pc EXCEPT ![r] = label]

PathIn(r) == PathOf[key[r]]
Temp(r) == temps[PathIn(r)][pid[r]]
SetTemp(r, f) == temps' = [temps EXCEPT ![PathIn(r)][pid[r]] = f]

-----------------------------------------------------------------------------
(* The prelude of a runner.                                                *)

\* A process of a level or of a restarted segment; no live process has its pid.
Start(r) ==
  /\ pc[r] = "idle"
  /\ \A other \in Runners : Live(other) => pid[other] # pid[r]
  /\ Goto(r, "samples")
  /\ UNCHANGED <<diskVars, selfVars, samples, key, fd, input>>

\* read_all_samples.
ReadSamples(r) ==
  /\ pc[r] = "samples"
  /\ samples' = [samples EXCEPT ![r] = csv]
  /\ Goto(r, "key")
  /\ UNCHANGED <<diskVars, selfVars, key, fd, input>>

\* Mutant: the preprocessing spec is not in the key.
HashInputsNoSpec(r) ==
  /\ pc[r] = "key"
  /\ key' = [key EXCEPT ![r] = <<CHOOSE s \in Settings : TRUE, csv>>]
  /\ Goto(r, "open")
  /\ UNCHANGED <<diskVars, selfVars, samples, fd, input>>

\* image_cache_key: the CSV is read again; a binary that cannot be opened is an
\* exception, which main reports as FAIL.
HashInputs(r) ==
  /\ pc[r] = "key"
  /\ IF has_binary[r]
     THEN key' = [key EXCEPT ![r] = <<settings[r], csv>>] /\ Goto(r, "open")
     ELSE UNCHANGED key /\ Goto(r, "failed")
  /\ UNCHANGED <<diskVars, selfVars, samples, fd, input>>

OpenCache(r) ==
  /\ pc[r] = "open"
  /\ fd' = [fd EXCEPT ![r] = files[PathIn(r)]]
  /\ Goto(r, IF files[PathIn(r)] = NoFile THEN "preprocess" ELSE "load")
  /\ UNCHANGED <<diskVars, selfVars, samples, key, input>>

\* Mutant: the header is believed, the checksum is not computed.
VerifiedByHeader(f, k) == f.key = k

\* Magic, version, key, counts, length and checksum.
Verified(f, k) == f.key = k /\ f.blob = f.sum

Hit(r) ==
  /\ pc[r] = "load"
  /\ Verified(fd[r], key[r])
  /\ input' = [input EXCEPT ![r] = fd[r].blob]
  /\ Goto(r, "staged")
  /\ UNCHANGED <<diskVars, selfVars, samples, key, fd>>

\* Mutant: what was read before the mismatch stays in the buffer.
MissKeepsRead(r) ==
  /\ pc[r] = "load"
  /\ input' = [input EXCEPT ![r] = fd[r].blob]
  /\ Goto(r, "preprocess")
  /\ UNCHANGED <<diskVars, selfVars, samples, key, fd>>

\* Any mismatch, and any read error: what was read is dropped.
Miss(r) ==
  /\ pc[r] = "load"
  /\ input' = [input EXCEPT ![r] = <<>>]
  /\ Goto(r, "preprocess")
  /\ UNCHANGED <<diskVars, selfVars, samples, key, fd>>

\* Each image as its file is now.
Preprocess(r) ==
  /\ pc[r] = "preprocess"
  /\ Len(input[r]) < Chunks
  /\ input' = [input EXCEPT ![r] =
       Append(@, Chunk(samples[r], Len(@) + 1, settings[r], version))]
  /\ UNCHANGED <<diskVars, pc, selfVars, samples, key, fd>>

\* The store begins: the temporary file is created or truncated.
CreateTemp(r) ==
  /\ pc[r] = "preprocess"
  /\ Len(input[r]) = Chunks
  /\ SetTemp(r, NewFile)
  /\ Goto(r, "header")
  /\ UNCHANGED <<csv, version, edited, files, damaged, selfVars, samples, key, fd, input>>

\* Its header: key and checksum of what is to come.
WriteHeader(r) ==
  /\ pc[r] = "header"
  /\ SetTemp(r, [Temp(r) EXCEPT !.key = key[r], !.sum = input[r]])
  /\ Goto(r, "write")
  /\ UNCHANGED <<csv, version, edited, files, damaged, selfVars, samples, key, fd, input>>

WriteChunk(r) ==
  /\ pc[r] = "write"
  /\ Len(Temp(r).blob) < Chunks
  /\ SetTemp(r, [Temp(r) EXCEPT !.blob = Append(@, input[r][Len(@) + 1])])
  /\ UNCHANGED <<csv, version, edited, files, damaged, pc, selfVars, samples, key, fd, input>>

\* Mutant: the file gets its name while it is written.
RenameEarly(r) ==
  /\ pc[r] = "write"
  /\ files' = [files EXCEPT ![PathIn(r)] = Temp(r)]
  /\ damaged' = damaged \ {PathIn(r)}
  /\ SetTemp(r, NoFile)
  /\ Goto(r, "staged")
  /\ UNCHANGED <<csv, version, edited, selfVars, samples, key, fd, input>>

\* Flushed, closed and renamed over whatever has the name.
Rename(r) ==
  /\ pc[r] = "write"
  /\ Len(Temp(r).blob) = Chunks
  /\ files' = [files EXCEPT ![PathIn(r)] = Temp(r)]
  /\ damaged' = damaged \ {PathIn(r)}
  /\ SetTemp(r, NoFile)
  /\ Goto(r, "staged")
  /\ UNCHANGED <<csv, version, edited, selfVars, samples, key, fd, input>>

\* The disk is full or an error occurs at any step of the store: the temporary
\* file is removed if that is possible, and the runner goes on without a cache.
StoreFails(r) ==
  /\ pc[r] \in {"preprocess", "header", "write"} /\ Len(input[r]) = Chunks
  /\ SetTemp(r, NoFile) \/ UNCHANGED temps
  /\ Goto(r, "staged")
  /\ UNCHANGED <<csv, version, edited, files, damaged, selfVars, samples, key, fd, input>>

\* The prelude is over: WAIT_PRE_ALLOC_GATE.
ReachGate(r) ==
  /\ pc[r] = "staged"
  /\ Goto(r, "gate")
  /\ UNCHANGED <<diskVars, selfVars, samples, key, fd, input>>

Prelude(r) ==
  \/ ReadSamples(r) \/ HashInputs(r)
  \/ OpenCache(r) \/ Hit(r) \/ Miss(r)
  \/ Preprocess(r)
  \/ CreateTemp(r) \/ WriteHeader(r) \/ WriteChunk(r) \/ Rename(r) \/ StoreFails(r)
  \/ ReachGate(r)

-----------------------------------------------------------------------------
(* Everything else.                                                        *)

\* The process is killed between any two steps: its temporary file stays.
Kill(r) ==
  /\ Live(r)
  /\ Goto(r, "dead")
  /\ UNCHANGED <<diskVars, selfVars, samples, key, fd, input>>

\* What rot, or the loss of unwritten pages in a power failure, leaves of a file.
Wrecks(f) ==
  {[f EXCEPT !.key = Junk]}
  \cup {[f EXCEPT !.blob = SubSeq(@, 1, n)] : n \in 0 .. Len(f.blob) - 1}
  \cup {[f EXCEPT !.blob[n] = Junk] : n \in 1 .. Len(f.blob)}

Damage(p) ==
  /\ files[p] # NoFile /\ p \notin damaged
  /\ \E f \in Wrecks(files[p]) : files' = [files EXCEPT ![p] = f]
  /\ damaged' = damaged \cup {p}
  /\ UNCHANGED <<csv, version, edited, temps, pc, selfVars, samples, key, fd, input>>

\* The sample CSV is replaced by another of the same length.
EditCsv(l) ==
  /\ "csv" \in Edits
  /\ csv' = l /\ edited' = TRUE
  /\ UNCHANGED <<version, files, temps, damaged, pc, selfVars, samples, key, fd, input>>

\* The images themselves are replaced; the CSV names them as before.
EditImages ==
  /\ "images" \in Edits
  /\ version < MaxVersion
  /\ version' = version + 1 /\ edited' = TRUE
  /\ UNCHANGED <<csv, files, temps, damaged, pc, selfVars, samples, key, fd, input>>

\* The runner is built again: running processes keep a binary without a name.
EditBinary ==
  /\ "binary" \in Edits
  /\ has_binary' = [r \in Runners |-> has_binary[r] /\ ~Live(r)]
  /\ UNCHANGED <<diskVars, pc, settings, pid, samples, key, fd, input>>

Next ==
  \/ \E r \in Runners : Start(r) \/ Prelude(r) \/ Kill(r)
  \/ \E p \in Paths : Damage(p)
  \/ \E l \in Lists : EditCsv(l)
  \/ EditImages
  \/ EditBinary

Spec == Init /\ [][Next]_vars

-----------------------------------------------------------------------------
(* Properties.                                                             *)

Bytes == (Lists \X (1 .. Chunks) \X Settings \X (0 .. MaxVersion)) \cup {Junk}
Blob == Seq(Bytes)
File == [key : Keys \cup {NoKey, Junk}, sum : Blob, blob : Blob]

\* Every variable has its type.
TypeOK ==
  /\ csv \in Lists /\ version \in 0 .. MaxVersion /\ edited \in BOOLEAN
  /\ files \in [Paths -> File]
  /\ temps \in [Paths -> [Pids -> File]]
  /\ damaged \subseteq Paths
  /\ pc \in [Runners -> Ended \cup {"samples", "key", "open", "load", "preprocess",
                                    "header", "write", "staged"}]
  /\ settings \in [Runners -> Settings] /\ pid \in [Runners -> Pids]
  /\ has_binary \in [Runners -> BOOLEAN]
  /\ samples \in [Runners -> Lists]
  /\ key \in [Runners -> Keys \cup {NoKey}]
  /\ fd \in [Runners -> File]
  /\ input \in [Runners -> Blob] /\ \A r \in Runners : Len(input[r]) <= Chunks

\* A name in the cache directory always stands for a whole file of a key that has
\* that name, unless the disk lost some of it: whoever is killed at whatever step
\* of a store, whatever fails, and whatever an earlier process of the same pid has
\* left behind.
PublishedWhole ==
  \A p \in Paths : files[p] # NoFile /\ p \notin damaged =>
    /\ files[p].key \in Keys /\ PathOf[files[p].key] = p
    /\ files[p].blob = files[p].sum /\ Len(files[p].blob) = Chunks

Staged(r) == pc[r] \in {"staged", "gate"}

\* The runners of different specs and binaries share a directory, and even a
\* name, but never the images: what a runner stages was computed with its own
\* settings, also when the inputs are edited.
SettingsNeverMixed ==
  \A r \in Runners : Staged(r) =>
    /\ Len(input[r]) = Chunks
    /\ \A i \in 1 .. Chunks : \E l \in Lists, v \in 0 .. version :
         input[r][i] = Chunk(l, i, settings[r], v)

\* The cache is invisible: while nobody has edited the sample CSV or the images, a
\* runner stages what preprocessing its samples gives (load_image_cache and main).
StagedAsFresh ==
  ~edited => \A r \in Runners : Staged(r) =>
    /\ Len(input[r]) = Chunks
    /\ \A i \in 1 .. Chunks : input[r][i] = Chunk(samples[r], i, settings[r], version)
=============================================================================
