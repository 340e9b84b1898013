-------------------------- MODULE ImageCacheProofs ---------------------------
(***************************************************************************)
(* What holds of the host image cache for any number of runners, settings, *)
(* lists, names, pids and chunks.  CacheInv says of each stage of a store  *)
(* what its file and buffer hold, and of every file, also one that a dead  *)
(* process left behind, that its checksum is of chunks made with the       *)
(* settings in its key.                                                    *)
(***************************************************************************)
EXTENDS ImageCache, SequenceTheorems, TLAPS

\* Chunk i of a blob, computed with settings s; of the one list there is while
\* nobody has edited.
Made(s, i, c) ==
  \E l \in Lists, v \in 0 .. version :
    c = Chunk(l, i, s, v) /\ (~edited => l = csv /\ v = 0)
AllMade(s, b) == \A i \in 1 .. Len(b) : Made(s, i, b[i])

Honest(f) == f.key \in Keys => Len(f.sum) = Chunks /\ AllMade(f.key[1], f.sum)

\* Every file, also one that was opened and is replaced since, or left behind.
FilesHonest ==
  /\ \A p \in Paths : Honest(files[p])
  /\ \A p \in Paths, q \in Pids : Honest(temps[p][q])
  /\ \A r \in Runners : Honest(fd[r])

KeyIsOwn ==
  \A r \in Runners :
    pc[r] \in {"open", "load", "preprocess", "header", "write", "staged", "gate"} =>
      key[r] \in Keys /\ key[r][1] = settings[r]

InputMade ==
  \A r \in Runners :
    /\ AllMade(settings[r], input[r])
    /\ pc[r] \in {"header", "write", "staged", "gate"} => Len(input[r]) = Chunks

\* A store in progress: what is in its temporary file.
TempGrows ==
  \A r \in Runners :
    /\ pc[r] = "header" => Temp(r).blob = <<>>
    /\ pc[r] = "write" =>
         /\ Temp(r).key = key[r] /\ Temp(r).sum = input[r]
         /\ Len(Temp(r).blob) <= Chunks
         /\ \A i \in 1 .. Len(Temp(r).blob) : Temp(r).blob[i] = input[r][i]

PidsDiffer ==
  \A r, other \in Runners : r # other /\ Live(r) /\ Live(other) => pid[r] # pid[other]

NothingEdited == ~edited => version = 0 /\ \A r \in Runners : samples[r] = csv

CacheInv ==
  /\ TypeOK
  /\ PublishedWhole
  /\ FilesHonest
  /\ KeyIsOwn
  /\ InputMade
  /\ TempGrows
  /\ PidsDiffer
  /\ NothingEdited

-----------------------------------------------------------------------------

\* A key is a pair and none of the other values a header can hold.
LEMMA KeysArePairs ==
  /\ NoKey \notin Keys /\ Junk \notin Keys
  /\ \A k \in Keys : k[1] \in Settings /\ k[2] \in Lists /\ PathOf[k] \in Paths
BY CacheAssumption DEF Keys, NoKey, Junk

\* Files without content are files.
LEMMA EmptyFiles == NoFile \in File /\ NewFile \in File /\ Honest(NoFile) /\ Honest(NewFile)
<1>1. <<>> \in Blob /\ <<Junk>> \in Blob
  BY DEF Blob, Bytes
<1> QED BY <1>1, KeysArePairs DEF NoFile, NewFile, File, Honest

\* Before any process starts there is nothing to be wrong about.
LEMMA InitHolds == Init => CacheInv
<1> SUFFICES ASSUME Init PROVE CacheInv
  OBVIOUS
<1>1. \A r \in Runners : pc[r] = "idle" /\ input[r] = <<>> /\ samples[r] = csv /\ fd[r] = NoFile
  BY DEF Init
<1>2. TypeOK
  <2>1. <<>> \in Blob /\ Len(<<>>) <= Chunks
    BY CacheAssumption DEF Blob
  <2>2. edited \in BOOLEAN
    BY DEF Init
  <2>3. csv \in Lists /\ version \in 0 .. MaxVersion
    BY CacheAssumption DEF Init
  <2> QED BY <1>1, <2>1, <2>2, <2>3, EmptyFiles DEF Init, TypeOK, Ended
<1>3. PublishedWhole
  BY DEF Init, PublishedWhole
<1>4. FilesHonest
  BY EmptyFiles DEF Init, FilesHonest
<1>5. KeyIsOwn /\ InputMade /\ TempGrows /\ PidsDiffer
  BY <1>1 DEF KeyIsOwn, InputMade, TempGrows, PidsDiffer, AllMade, Live, Ended
<1>6. NothingEdited
  BY <1>1 DEF Init, NothingEdited
<1> QED BY <1>2, <1>3, <1>4, <1>5, <1>6 DEF CacheInv

-----------------------------------------------------------------------------
(* Types.                                                                  *)

\* The file a runner works on has a name of the directory, its temporary file is a
\* file.
LEMMA OwnFile ==
  ASSUME TypeOK, KeyIsOwn, NEW r \in Runners,
         pc[r] \in {"open", "load", "preprocess", "header", "write", "staged", "gate"}
  PROVE  PathIn(r) \in Paths /\ pid[r] \in Pids /\ Temp(r) \in File
BY KeysArePairs DEF TypeOK, KeyIsOwn, PathIn, Temp

\* A temporary file is replaced as a whole.
LEMMA SetTempTyped ==
  ASSUME TypeOK, KeyIsOwn, NEW r \in Runners, NEW f \in File, SetTemp(r, f),
         pc[r] \in {"open", "load", "preprocess", "header", "write", "staged", "gate"}
  PROVE  /\ temps' \in [Paths -> [Pids -> File]]
         /\ \A p \in Paths, q \in Pids :
              temps'[p][q] = IF p = PathIn(r) /\ q = pid[r] THEN f ELSE temps[p][q]
BY OwnFile DEF TypeOK, SetTemp

\* Whatever the disk loses of a file, a file is left, with the checksum it had and
\* no key that it did not have.
LEMMA WrecksAreFiles ==
  ASSUME NEW f \in File, NEW w \in Wrecks(f)
  PROVE  w \in File /\ w.sum = f.sum /\ (w.key \in Keys => w.key = f.key)
<1>1. CASE w = [f EXCEPT !.key = Junk]
  BY <1>1, KeysArePairs DEF File
<1>2. ASSUME NEW n \in 0 .. Len(f.blob) - 1, w = [f EXCEPT !.blob = SubSeq(@, 1, n)]
      PROVE  w \in File /\ w.sum = f.sum /\ w.key = f.key
  <2>1. f.blob \in Seq(Bytes)
    BY DEF File, Blob
  <2>2. SubSeq(f.blob, 1, n) \in Seq(Bytes)
    BY <2>1
  <2> QED BY <1>2, <2>2 DEF File, Blob
<1>3. ASSUME NEW n \in 1 .. Len(f.blob), w = [f EXCEPT !.blob[n] = Junk]
      PROVE  w \in File /\ w.sum = f.sum /\ w.key = f.key
  <2>1. f.blob \in Seq(Bytes) /\ Junk \in Bytes
    BY DEF File, Blob, Bytes
  <2>2. [f.blob EXCEPT ![n] = Junk] \in Seq(Bytes)
    BY <2>1
  <2> QED BY <1>3, <2>2 DEF File, Blob
<1> QED BY <1>1, <1>2, <1>3 DEF Wrecks

\* Every step keeps the types.
LEMMA TypesKept == ASSUME CacheInv, [Next]_vars PROVE TypeOK'
<1> USE DEF CacheInv
<1>1. CASE UNCHANGED vars
  BY <1>1 DEF vars, diskVars, selfVars, TypeOK
<1>2. ASSUME NEW r \in Runners, Start(r) \/ ReadSamples(r) \/ ReachGate(r) \/ Kill(r)
      PROVE  TypeOK'
  BY ZenonT(40), <1>2 DEF Start, ReadSamples, ReachGate, Kill, Goto, diskVars, selfVars, TypeOK, Ended
<1>3. ASSUME NEW r \in Runners, HashInputs(r) \/ OpenCache(r) PROVE TypeOK'
  <2>1. <<settings[r], csv>> \in Keys
    BY DEF TypeOK, Keys
  <2>2. CASE HashInputs(r)
    <3>1. key' \in [Runners -> Keys \cup {NoKey}]
      BY <2>1, <2>2 DEF HashInputs, TypeOK
    <3> QED BY <2>2, <3>1 DEF HashInputs, Goto, diskVars, selfVars, TypeOK, Ended
  <2>3. CASE OpenCache(r)
    BY <2>3, OwnFile DEF OpenCache, Goto, diskVars, selfVars, TypeOK, Ended
  <2> QED BY <1>3, <2>2, <2>3
<1>4. ASSUME NEW r \in Runners, Hit(r) \/ Miss(r) PROVE TypeOK'
  <2>1. <<>> \in Blob /\ Len(<<>>) <= Chunks
    BY CacheAssumption DEF Blob
  <2>2. ASSUME Hit(r) PROVE fd[r].blob \in Blob /\ Len(fd[r].blob) <= Chunks
    <3>1. fd[r] \in File /\ fd[r].key = key[r] /\ fd[r].blob = fd[r].sum /\ key[r] \in Keys
      BY <2>2 DEF Hit, Verified, TypeOK, KeyIsOwn
    <3> QED BY <3>1, CacheAssumption DEF File, FilesHonest, Honest
  <2>3. CASE Hit(r)
    BY <2>2, <2>3 DEF Hit, Goto, diskVars, selfVars, TypeOK, Ended
  <2>4. CASE Miss(r)
    BY <2>1, <2>4 DEF Miss, Goto, diskVars, selfVars, TypeOK, Ended
  <2> QED BY <1>4, <2>3, <2>4
<1>5. ASSUME NEW r \in Runners, Preprocess(r) PROVE TypeOK'
  <2> DEFINE chunk == Chunk(samples[r], Len(input[r]) + 1, settings[r], version)
  <2>1. input[r] \in Seq(Bytes) /\ Len(input[r]) < Chunks
    BY <1>5 DEF Preprocess, TypeOK, Blob
  <2>2. chunk \in Bytes
    BY <2>1, CacheAssumption DEF Chunk, Bytes, TypeOK
  <2>3. Append(input[r], chunk) \in Blob /\ Len(Append(input[r], chunk)) <= Chunks
    BY <2>1, <2>2, CacheAssumption DEF Blob
  <2> HIDE DEF chunk
  <2>4. input' = [input EXCEPT ![r] = Append(input[r], chunk)]
    BY <1>5 DEF Preprocess, chunk
  <2> QED BY <1>5, <2>3, <2>4 DEF Preprocess, diskVars, selfVars, TypeOK
<1>6. ASSUME NEW r \in Runners, CreateTemp(r) \/ StoreFails(r) PROVE TypeOK'
  <2>1. temps' \in [Paths -> [Pids -> File]]
    BY <1>6, SetTempTyped, EmptyFiles DEF CreateTemp, StoreFails, TypeOK
  <2> QED BY <1>6, <2>1 DEF CreateTemp, StoreFails, Goto, selfVars, TypeOK, Ended
<1>7. ASSUME NEW r \in Runners, WriteHeader(r) PROVE TypeOK'
  <2> DEFINE f == [Temp(r) EXCEPT !.key = key[r], !.sum = input[r]]
  <2>1. f \in File
    BY <1>7, OwnFile DEF WriteHeader, File, TypeOK
  <2> HIDE DEF f
  <2>2. temps' \in [Paths -> [Pids -> File]]
    BY <1>7, <2>1, SetTempTyped DEF WriteHeader, f
  <2> QED BY <1>7, <2>2 DEF WriteHeader, Goto, selfVars, TypeOK, Ended
<1>8. ASSUME NEW r \in Runners, WriteChunk(r) PROVE TypeOK'
  <2> DEFINE b == Temp(r).blob
             f == [Temp(r) EXCEPT !.blob = Append(@, input[r][Len(@) + 1])]
  <2>1. b \in Seq(Bytes) /\ Len(b) < Chunks /\ input[r] \in Seq(Bytes) /\ Len(input[r]) = Chunks
    BY <1>8, OwnFile DEF WriteChunk, File, Blob, TypeOK, InputMade
  <2>2. Len(b) + 1 \in 1 .. Len(input[r])
    BY <2>1, CacheAssumption
  <2>3. Append(b, input[r][Len(b) + 1]) \in Seq(Bytes)
    BY <2>1, <2>2
  <2>4. f \in File
    BY <1>8, <2>3, OwnFile DEF WriteChunk, File, Blob
  <2> HIDE DEF f
  <2>5. temps' \in [Paths -> [Pids -> File]]
    BY <1>8, <2>4, SetTempTyped DEF WriteChunk, f
  <2> QED BY <1>8, <2>5 DEF WriteChunk, selfVars, TypeOK
<1>9. ASSUME NEW r \in Runners, Rename(r) PROVE TypeOK'
  <2>1. temps' \in [Paths -> [Pids -> File]] /\ files' \in [Paths -> File]
    BY <1>9, SetTempTyped, OwnFile, EmptyFiles DEF Rename, TypeOK
  <2> QED BY <1>9, <2>1 DEF Rename, Goto, selfVars, TypeOK, Ended
<1>10. ASSUME NEW p \in Paths, Damage(p) PROVE TypeOK'
  <2>1. files' \in [Paths -> File]
    BY <1>10, WrecksAreFiles DEF Damage, TypeOK
  <2> QED BY <1>10, <2>1 DEF Damage, selfVars, TypeOK
<1>11. ASSUME NEW l \in Lists, EditCsv(l) \/ EditImages \/ EditBinary PROVE TypeOK'
  <2>1. CASE EditCsv(l)
    BY <1>11, <2>1 DEF EditCsv, selfVars, TypeOK
  <2>2. CASE EditImages
    <3>1. version' \in 0 .. MaxVersion
      BY <2>2, CacheAssumption DEF EditImages, TypeOK
    <3> QED BY <2>2, <3>1 DEF EditImages, selfVars, TypeOK
  <2>3. CASE EditBinary
    BY <2>3 DEF EditBinary, diskVars, TypeOK
  <2> QED BY <1>11, <2>1, <2>2, <2>3
<1>12. Lists # {}
  BY DEF TypeOK
<1> QED BY <1>1, <1>2, <1>3, <1>4, <1>5, <1>6, <1>7, <1>8, <1>9, <1>10, <1>11, <1>12
        DEF Next, Prelude

-----------------------------------------------------------------------------
(* What was made stays made.                                               *)

\* The images only get newer, nothing moves unless somebody edits, and a process
\* keeps its settings and its pid.
LEMMA WorldMoves ==
  ASSUME CacheInv, [Next]_vars
  PROVE  /\ version \in Nat /\ version' \in Nat /\ version <= version'
         /\ ~edited' => ~edited /\ csv' = csv /\ version' = version
         /\ settings' = settings /\ pid' = pid
<1> USE DEF CacheInv
<1>1. version \in Nat /\ Lists # {}
  BY CacheAssumption DEF TypeOK
<1> DEFINE Quiet == UNCHANGED <<version, edited, csv, settings, pid>>
           Edit == /\ version' \in Nat /\ version <= version' /\ edited'
                   /\ settings' = settings /\ pid' = pid
<1>2. ASSUME UNCHANGED vars PROVE Quiet
  BY <1>2 DEF vars, diskVars, selfVars
<1>3. ASSUME NEW r \in Runners, Start(r) \/ Kill(r) PROVE Quiet
  BY <1>3 DEF Start, Kill, diskVars, selfVars
<1>4. ASSUME NEW r \in Runners, Prelude(r) PROVE Quiet
  BY <1>4 DEF Prelude, diskVars, selfVars, ReadSamples, HashInputs, OpenCache, Hit, Miss,
     Preprocess, CreateTemp, WriteHeader, WriteChunk, Rename, StoreFails, ReachGate
<1>5. ASSUME NEW p \in Paths, Damage(p) PROVE Quiet
  BY <1>5 DEF Damage, selfVars
<1>6. ASSUME NEW l \in Lists, EditCsv(l) PROVE Edit
  BY <1>1, <1>6 DEF EditCsv, selfVars
<1>7. ASSUME EditImages PROVE Edit
  <2>1. version' = version + 1
    BY <1>7 DEF EditImages
  <2> QED BY <1>1, <1>7, <2>1 DEF EditImages, selfVars
<1>8. ASSUME EditBinary PROVE Quiet
  BY <1>8 DEF EditBinary, diskVars
<1> HIDE DEF Quiet, Edit
<1>9. Quiet \/ Edit
  BY <1>2, <1>3, <1>4, <1>5, <1>6, <1>7, <1>8, Zenon DEF Next
<1>10. CASE Quiet
  BY <1>1, <1>10 DEF Quiet
<1>11. CASE Edit
  BY <1>1, <1>11 DEF Edit
<1> QED BY <1>9, <1>10, <1>11

\* What a runner has of its own changes by its own steps only.
LEMMA OwnSteps ==
  ASSUME TypeOK, [Next]_vars, NEW r \in Runners
  PROVE  \/ Start(r) \/ Prelude(r) \/ Kill(r)
         \/ /\ pc'[r] = pc[r] /\ input'[r] = input[r] /\ key'[r] = key[r]
            /\ fd'[r] = fd[r] /\ samples'[r] = samples[r]
<1>1. CASE UNCHANGED vars
  BY <1>1 DEF vars
<1>2. ASSUME NEW q \in Runners, q # r, Start(q) \/ Kill(q) \/ ReadSamples(q) \/ HashInputs(q)
               \/ OpenCache(q) \/ ReachGate(q)
      PROVE  /\ pc'[r] = pc[r] /\ input'[r] = input[r] /\ key'[r] = key[r]
             /\ fd'[r] = fd[r] /\ samples'[r] = samples[r]
  BY <1>2 DEF Start, Kill, ReadSamples, HashInputs, OpenCache, ReachGate, Goto, TypeOK
<1>3. ASSUME NEW q \in Runners, q # r, Hit(q) \/ Miss(q) \/ Preprocess(q)
      PROVE  /\ pc'[r] = pc[r] /\ input'[r] = input[r] /\ key'[r] = key[r]
             /\ fd'[r] = fd[r] /\ samples'[r] = samples[r]
  BY <1>3 DEF Hit, Miss, Preprocess, Goto, TypeOK
<1>4. ASSUME NEW q \in Runners, q # r, CreateTemp(q) \/ WriteHeader(q) \/ WriteChunk(q)
               \/ Rename(q) \/ StoreFails(q)
      PROVE  /\ pc'[r] = pc[r] /\ input'[r] = input[r] /\ key'[r] = key[r]
             /\ fd'[r] = fd[r] /\ samples'[r] = samples[r]
  BY <1>4 DEF CreateTemp, WriteHeader, WriteChunk, Rename, StoreFails, Goto, TypeOK
<1>5. ASSUME NEW p \in Paths, Damage(p)
      PROVE  UNCHANGED <<pc, input, key, fd, samples>>
  BY <1>5 DEF Damage
<1>6. ASSUME NEW l \in Lists, EditCsv(l) \/ EditImages \/ EditBinary
      PROVE  UNCHANGED <<pc, input, key, fd, samples>>
  BY <1>6 DEF EditCsv, EditImages, EditBinary
<1>7. Lists # {}
  BY DEF TypeOK
<1> QED BY <1>1, <1>2, <1>3, <1>4, <1>5, <1>6, <1>7 DEF Next, Prelude

LEMMA MadeStays ==
  ASSUME CacheInv, [Next]_vars, NEW s, NEW i, NEW c, Made(s, i, c)
  PROVE  Made(s, i, c)'
<1>1. PICK l \in Lists, v \in 0 .. version :
        c = Chunk(l, i, s, v) /\ (~edited => l = csv /\ v = 0)
  BY DEF Made
<1>2. v \in 0 .. version' /\ (~edited' => ~edited /\ csv' = csv)
  BY WorldMoves
<1> QED BY <1>1, <1>2 DEF Made, Chunk

LEMMA AllMadeStays ==
  ASSUME CacheInv, [Next]_vars, NEW s, NEW b, AllMade(s, b)
  PROVE  AllMade(s, b)'
BY MadeStays DEF AllMade

LEMMA HonestStays ==
  ASSUME CacheInv, [Next]_vars, NEW f, Honest(f)
  PROVE  Honest(f)'
<1>1. CASE f.key \in Keys
  <2>1. AllMade(f.key[1], f.sum)'
    BY <1>1, AllMadeStays DEF Honest
  <2> QED BY <1>1, <2>1 DEF Honest
<1>2. CASE f.key \notin Keys
  BY <1>2 DEF Honest
<1> QED BY <1>1, <1>2

-----------------------------------------------------------------------------
(* The parts of the invariant.                                             *)

\* A key is computed from the runner's own settings and never changes.
LEMMA KeysKept == ASSUME CacheInv, [Next]_vars PROVE KeyIsOwn'
<1> USE DEF CacheInv
<1> DEFINE Keyed == {"open", "load", "preprocess", "header", "write", "staged", "gate"}
<1> SUFFICES ASSUME NEW r \in Runners, pc'[r] \in Keyed
             PROVE  key'[r] \in Keys /\ key'[r][1] = settings[r]
  BY WorldMoves DEF KeyIsOwn
<1>1. CASE HashInputs(r)
  <2>1. key'[r] = <<settings[r], csv>>
    BY <1>1 DEF HashInputs, Goto, TypeOK
  <2> QED BY <2>1 DEF TypeOK, Keys
<1>2. CASE ~ HashInputs(r)
  <2>1. key'[r] = key[r]
    BY ZenonT(40), <1>2, OwnSteps DEF Prelude, Start, Kill, ReadSamples, OpenCache, Hit, Miss, Preprocess,
       CreateTemp, WriteHeader, WriteChunk, Rename, StoreFails, ReachGate
  <2>2. pc[r] \in Keyed
    BY <1>2, OwnSteps DEF Prelude, Start, Kill, ReadSamples, OpenCache, Hit, Miss, Preprocess,
       CreateTemp, WriteHeader, WriteChunk, Rename, StoreFails, ReachGate, Goto, TypeOK
  <2> QED BY SMTT(40), <2>1, <2>2 DEF KeyIsOwn
<1> QED BY <1>1, <1>2

\* A buffer holds what its own settings made, and is full from the store on.
LEMMA InputsKept == ASSUME CacheInv, [Next]_vars PROVE InputMade'
<1> USE DEF CacheInv
<1> SUFFICES ASSUME NEW r \in Runners
             PROVE  /\ AllMade(settings[r], input[r])'
                    /\ pc'[r] \in {"header", "write", "staged", "gate"} => Len(input'[r]) = Chunks
  BY WorldMoves DEF InputMade
<1>1. ASSUME NEW b, b = input'[r], AllMade(settings[r], b) PROVE AllMade(settings[r], input[r])'
  <2>1. PICK s : s = settings[r]
    OBVIOUS
  <2>2. settings'[r] = s
    BY <2>1, WorldMoves
  <2>3. AllMade(s, b)'
    BY <1>1, <2>1, AllMadeStays
  <2> QED BY <1>1, <2>2, <2>3
<1>2. CASE Hit(r)
  <2>1. fd[r].key = key[r] /\ fd[r].blob = fd[r].sum /\ key[r] \in Keys /\ key[r][1] = settings[r]
    BY <1>2 DEF Hit, Verified, KeyIsOwn
  <2>2. input'[r] = fd[r].sum
    BY <1>2, <2>1 DEF Hit, TypeOK
  <2>3. Len(input'[r]) = Chunks /\ AllMade(settings[r], input'[r])
    BY <2>1, <2>2 DEF FilesHonest, Honest
  <2> QED BY <1>1, <2>3
<1>3. CASE Miss(r)
  <2>1. input'[r] = <<>> /\ pc'[r] = "preprocess"
    BY <1>3 DEF Miss, Goto, TypeOK
  <2>2. AllMade(settings[r], input'[r])
    BY <2>1 DEF AllMade
  <2> QED BY <1>1, <2>1, <2>2
<1>4. CASE Preprocess(r)
  <2> DEFINE b == input[r]
             c == Chunk(samples[r], Len(b) + 1, settings[r], version)
  <2>1. b \in Seq(Bytes) /\ AllMade(settings[r], b)
    BY DEF TypeOK, Blob, InputMade
  <2>2. Made(settings[r], Len(b) + 1, c)
    BY CacheAssumption DEF Made, TypeOK, NothingEdited
  <2>3. input'[r] = Append(b, c) /\ pc'[r] = "preprocess"
    BY <1>4 DEF Preprocess, TypeOK
  <2>4. Len(Append(b, c)) = Len(b) + 1
    BY <2>1
  <2>5. \A i \in 1 .. Len(b) + 1 : Append(b, c)[i] = IF i = Len(b) + 1 THEN c ELSE b[i]
    BY <2>1
  <2> HIDE DEF c
  <2>6. AllMade(settings[r], input'[r])
    BY <2>1, <2>2, <2>3, <2>4, <2>5 DEF AllMade
  <2> QED BY <1>1, <2>3, <2>6
<1>5. CASE ~ Hit(r) /\ ~ Miss(r) /\ ~ Preprocess(r)
  <2>1. input'[r] = input[r]
    BY <1>5, OwnSteps DEF Prelude, Start, Kill, ReadSamples, HashInputs, OpenCache,
       CreateTemp, WriteHeader, WriteChunk, Rename, StoreFails, ReachGate
  <2>2. AllMade(settings[r], input'[r])
    BY <2>1 DEF InputMade
  <2>3. ASSUME pc'[r] \in {"header", "write", "staged", "gate"} PROVE Len(input[r]) = Chunks
    BY <1>5, <2>3, OwnSteps DEF InputMade, Prelude, Start, Kill, ReadSamples, HashInputs, OpenCache,
       CreateTemp, WriteHeader, WriteChunk, Rename, StoreFails, ReachGate, Goto, TypeOK
  <2> QED BY <1>1, <2>1, <2>2, <2>3
<1> QED BY <1>2, <1>3, <1>4, <1>5

\* A process starts only with a pid that no live one has.
LEMMA PidsKept == ASSUME CacheInv, [Next]_vars PROVE PidsDiffer'
<1> USE DEF CacheInv
<1>1. ASSUME NEW r \in Runners, NEW other \in Runners, r # other, Live(r)', Live(other)', ~ Live(r)
      PROVE  pid[r] # pid[other]
  <2>1. Start(r)
    BY <1>1, OwnSteps DEF Live, Ended, Prelude, Kill, ReadSamples, HashInputs, OpenCache, Hit, Miss,
       Preprocess, CreateTemp, WriteHeader, WriteChunk, Rename, StoreFails, ReachGate
  <2>2. Live(other)
    BY <1>1, <2>1 DEF Start, Goto, Live, TypeOK
  <2> QED BY <1>1, <2>1, <2>2 DEF Start
<1> QED BY <1>1, WorldMoves DEF PidsDiffer

LEMMA UneditedKept == ASSUME CacheInv, [Next]_vars PROVE NothingEdited'
<1> USE DEF CacheInv
<1>1. ASSUME NEW r \in Runners, ~edited' PROVE samples'[r] = csv'
  <2>1. CASE ReadSamples(r)
    BY <1>1, <2>1, WorldMoves DEF ReadSamples, TypeOK
  <2>2. CASE ~ ReadSamples(r)
    <3>1. samples'[r] = samples[r]
      BY <2>2, OwnSteps DEF Prelude, Start, Kill, HashInputs, OpenCache, Hit, Miss, Preprocess,
         CreateTemp, WriteHeader, WriteChunk, Rename, StoreFails, ReachGate
    <3> QED BY <1>1, <3>1, WorldMoves DEF NothingEdited
  <2> QED BY <2>1, <2>2
<1> QED BY <1>1, WorldMoves DEF NothingEdited

-----------------------------------------------------------------------------
(* Files.                                                                  *)

\* A name gets another file by a rename, and the file it has is only ever damaged.
LEMMA NameSteps ==
  ASSUME CacheInv, [Next]_vars, NEW p \in Paths
  PROVE  \/ files'[p] = files[p] /\ (p \in damaged' <=> p \in damaged)
         \/ \E r \in Runners : Rename(r) /\ p = PathIn(r) /\ files'[p] = Temp(r)
         \/ files'[p] \in Wrecks(files[p]) /\ p \in damaged'
<1> USE DEF CacheInv
<1>1. CASE UNCHANGED <<files, damaged>>
  BY <1>1
<1>2. ASSUME NEW r \in Runners, Rename(r)
      PROVE  \/ files'[p] = files[p] /\ (p \in damaged' <=> p \in damaged)
             \/ p = PathIn(r) /\ files'[p] = Temp(r)
  BY <1>2, OwnFile DEF Rename, TypeOK
<1>3. ASSUME NEW d \in Paths, Damage(d)
      PROVE  \/ files'[p] = files[p] /\ (p \in damaged' <=> p \in damaged)
             \/ files'[p] \in Wrecks(files[p]) /\ p \in damaged'
  <2>1. PICK f \in Wrecks(files[d]) : files' = [files EXCEPT ![d] = f]
    BY <1>3 DEF Damage
  <2>2. damaged' = damaged \cup {d}
    BY <1>3 DEF Damage
  <2> QED BY <2>1, <2>2 DEF TypeOK
<1>4. ASSUME NEW r \in Runners, Start(r) \/ Kill(r) PROVE UNCHANGED <<files, damaged>>
  BY <1>4 DEF Start, Kill, diskVars
<1>5. ASSUME NEW r \in Runners, Prelude(r), ~ Rename(r) PROVE UNCHANGED <<files, damaged>>
  BY <1>5 DEF Prelude, diskVars, ReadSamples, HashInputs, OpenCache, Hit, Miss, Preprocess,
     CreateTemp, WriteHeader, WriteChunk, StoreFails, ReachGate
<1>6. (\E l \in Lists : EditCsv(l)) \/ EditImages \/ EditBinary => UNCHANGED <<files, damaged>>
  BY DEF EditCsv, EditImages, EditBinary, diskVars
<1>7. UNCHANGED vars => UNCHANGED <<files, damaged>>
  BY SMTT(40) DEF vars, diskVars
<1> QED BY <1>1, <1>2, <1>3, <1>4, <1>5, <1>6, <1>7 DEF Next

\* A temporary file is touched by the process whose name it has.
LEMMA TempSteps ==
  ASSUME CacheInv, [Next]_vars, NEW p \in Paths, NEW q \in Pids
  PROVE  \/ temps'[p][q] = temps[p][q]
         \/ \E r \in Runners :
              /\ p = PathIn(r) /\ q = pid[r]
              /\ \/ CreateTemp(r) /\ temps'[p][q] = NewFile
                 \/ WriteHeader(r) /\ temps'[p][q] = [Temp(r) EXCEPT !.key = key[r], !.sum = input[r]]
                 \/ WriteChunk(r) /\ temps'[p][q] = [Temp(r) EXCEPT !.blob = Append(@, input[r][Len(@) + 1])]
                 \/ (Rename(r) \/ StoreFails(r)) /\ temps'[p][q] = NoFile
<1> USE DEF CacheInv
<1>1. ASSUME NEW r \in Runners, NEW f, SetTemp(r, f), PathIn(r) \in Paths, pid[r] \in Pids
      PROVE  temps'[p][q] = IF p = PathIn(r) /\ q = pid[r] THEN f ELSE temps[p][q]
  BY <1>1 DEF SetTemp, TypeOK
<1>2. ASSUME NEW r \in Runners, CreateTemp(r)
      PROVE  temps'[p][q] = IF p = PathIn(r) /\ q = pid[r] THEN NewFile ELSE temps[p][q]
  BY <1>1, <1>2, OwnFile DEF CreateTemp
<1>3. ASSUME NEW r \in Runners, WriteHeader(r)
      PROVE  temps'[p][q] = IF p = PathIn(r) /\ q = pid[r]
                            THEN [Temp(r) EXCEPT !.key = key[r], !.sum = input[r]] ELSE temps[p][q]
  BY <1>1, <1>3, OwnFile DEF WriteHeader
<1>4. ASSUME NEW r \in Runners, WriteChunk(r)
      PROVE  temps'[p][q] = IF p = PathIn(r) /\ q = pid[r]
                            THEN [Temp(r) EXCEPT !.blob = Append(@, input[r][Len(@) + 1])]
                            ELSE temps[p][q]
  BY <1>1, <1>4, OwnFile DEF WriteChunk
<1>5. ASSUME NEW r \in Runners, Rename(r)
      PROVE  temps'[p][q] = IF p = PathIn(r) /\ q = pid[r] THEN NoFile ELSE temps[p][q]
  BY <1>1, <1>5, OwnFile DEF Rename
<1>6. ASSUME NEW r \in Runners, StoreFails(r)
      PROVE  \/ temps'[p][q] = temps[p][q]
             \/ p = PathIn(r) /\ q = pid[r] /\ temps'[p][q] = NoFile
  <2>1. PathIn(r) \in Paths /\ pid[r] \in Pids
    BY <1>6, OwnFile DEF StoreFails
  <2> QED BY <1>1, <1>6, <2>1 DEF StoreFails
<1>7. ASSUME NEW r \in Runners, Start(r) \/ Kill(r) PROVE UNCHANGED temps
  BY <1>7 DEF Start, Kill, diskVars
<1>8. ASSUME NEW r \in Runners, ReadSamples(r) \/ HashInputs(r) \/ OpenCache(r) \/ Hit(r) \/ Miss(r)
               \/ Preprocess(r) \/ ReachGate(r)
      PROVE  UNCHANGED temps
  BY <1>8 DEF diskVars, ReadSamples, HashInputs, OpenCache, Hit, Miss, Preprocess, ReachGate
<1>9. (\E d \in Paths : Damage(d)) \/ (\E l \in Lists : EditCsv(l)) \/ EditImages \/ EditBinary
        => UNCHANGED temps
  BY DEF Damage, EditCsv, EditImages, EditBinary, diskVars
<1>10. UNCHANGED vars => UNCHANGED temps
  BY DEF vars, diskVars
<1> QED BY <1>2, <1>3, <1>4, <1>5, <1>6, <1>7, <1>8, <1>9, <1>10 DEF Next, Prelude

\* Every checksum in a header is of chunks of the settings in its key: headers are
\* written by the owner of the key only, and neither renames nor damage change that.
LEMMA HonestKept == ASSUME CacheInv, [Next]_vars PROVE FilesHonest'
<1> USE DEF CacheInv
<1>1. ASSUME NEW f, Honest(f) PROVE Honest(f)'
  BY <1>1, HonestStays
<1>2. ASSUME NEW p \in Paths PROVE Honest(files[p])'
  <2>1. PICK f : f = files'[p]
    OBVIOUS
  <2>2. Honest(f)
    <3>1. CASE f = files[p]
      BY <3>1 DEF FilesHonest
    <3>2. ASSUME NEW r \in Runners, Rename(r), f = Temp(r) PROVE Honest(f)
      BY <3>2, OwnFile DEF Rename, FilesHonest, Temp
    <3>3. CASE f \in Wrecks(files[p])
      <4>1. files[p] \in File
        BY DEF TypeOK
      <4>2. f.sum = files[p].sum /\ (f.key \in Keys => f.key = files[p].key)
        BY <3>3, <4>1, WrecksAreFiles
      <4> QED BY <4>2 DEF FilesHonest, Honest
    <3> QED BY <2>1, <3>1, <3>2, <3>3, NameSteps
  <2> QED BY <1>1, <2>1, <2>2
<1>3. ASSUME NEW p \in Paths, NEW q \in Pids PROVE Honest(temps[p][q])'
  <2>1. PICK f : f = temps'[p][q]
    BY SMTT(40)
  <2>2. Honest(f)
    <3>1. CASE f = temps[p][q] \/ f = NewFile \/ f = NoFile
      BY <3>1, EmptyFiles DEF FilesHonest
    <3>2. ASSUME NEW r \in Runners, WriteHeader(r),
                 f = [Temp(r) EXCEPT !.key = key[r], !.sum = input[r]]
          PROVE  Honest(f)
      <4>1. Temp(r) \in File /\ key[r][1] = settings[r] /\ Len(input[r]) = Chunks
        BY <3>2, OwnFile DEF WriteHeader, KeyIsOwn, InputMade
      <4>2. f.key = key[r] /\ f.sum = input[r]
        BY <3>2, <4>1 DEF File
      <4> QED BY <4>1, <4>2 DEF Honest, InputMade
    <3>3. ASSUME NEW r \in Runners, WriteChunk(r),
                 f = [Temp(r) EXCEPT !.blob = Append(@, input[r][Len(@) + 1])]
          PROVE  Honest(f)
      <4>1. Temp(r) \in File /\ PathIn(r) \in Paths /\ pid[r] \in Pids
        BY <3>3, OwnFile DEF WriteChunk
      <4>2. f.key = Temp(r).key /\ f.sum = Temp(r).sum
        BY <3>3, <4>1 DEF File
      <4>3. Honest(Temp(r))
        BY <4>1 DEF FilesHonest, Temp
      <4> QED BY <4>2, <4>3 DEF Honest
    <3> QED BY <2>1, <3>1, <3>2, <3>3, TempSteps
  <2> QED BY <1>1, <2>1, <2>2
<1>4. ASSUME NEW r \in Runners PROVE Honest(fd[r])'
  <2>1. PICK f : f = fd'[r]
    OBVIOUS
  <2>2. Honest(f)
    <3>1. CASE OpenCache(r)
      <4>1. f = files[PathIn(r)] /\ PathIn(r) \in Paths
        BY <2>1, <3>1, OwnFile DEF OpenCache, TypeOK
      <4> QED BY <4>1 DEF FilesHonest
    <3>2. CASE ~ OpenCache(r)
      <4>1. f = fd[r]
        BY <2>1, <3>2, OwnSteps DEF Prelude, Start, Kill, ReadSamples, HashInputs, Hit, Miss,
           Preprocess, CreateTemp, WriteHeader, WriteChunk, Rename, StoreFails, ReachGate
      <4> QED BY <4>1 DEF FilesHonest
    <3> QED BY <3>1, <3>2
  <2> QED BY <1>1, <2>1, <2>2
<1> QED BY <1>2, <1>3, <1>4 DEF FilesHonest

\* A store finds its temporary file as it left it: nobody else alive has its pid.
LEMMA StoresKept == ASSUME CacheInv, [Next]_vars PROVE TempGrows'
<1> USE DEF CacheInv
<1> SUFFICES ASSUME NEW r \in Runners, pc'[r] \in {"header", "write"}
             PROVE  /\ pc'[r] = "header" => Temp(r)'.blob = <<>>
                    /\ pc'[r] = "write" =>
                         /\ Temp(r)'.key = key'[r] /\ Temp(r)'.sum = input'[r]
                         /\ Len(Temp(r)'.blob) <= Chunks
                         /\ \A i \in 1 .. Len(Temp(r)'.blob) : Temp(r)'.blob[i] = input'[r][i]
  BY DEF TempGrows
<1>1. CASE CreateTemp(r)
  <2>1. pc'[r] = "header" /\ PathIn(r) \in Paths /\ pid[r] \in Pids /\ key' = key /\ pid' = pid
    BY <1>1, OwnFile DEF CreateTemp, Goto, TypeOK, selfVars
  <2>2. temps'[PathIn(r)][pid[r]] = NewFile
    BY <1>1, <2>1 DEF CreateTemp, SetTemp, TypeOK
  <2>3. Temp(r)' = NewFile
    BY <2>1, <2>2 DEF Temp, PathIn
  <2> QED BY <2>1, <2>3 DEF NewFile
<1>2. CASE WriteHeader(r)
  <2>1. pc'[r] = "write" /\ PathIn(r) \in Paths /\ pid[r] \in Pids /\ Temp(r) \in File
    BY <1>2, OwnFile DEF WriteHeader, Goto, TypeOK
  <2>2. key' = key /\ pid' = pid /\ input' = input
    BY <1>2 DEF WriteHeader, selfVars
  <2>3. temps'[PathIn(r)][pid[r]] = [Temp(r) EXCEPT !.key = key[r], !.sum = input[r]]
    BY <1>2, <2>1 DEF WriteHeader, SetTemp, TypeOK
  <2>4. Temp(r)' = [Temp(r) EXCEPT !.key = key[r], !.sum = input[r]]
    BY <2>2, <2>3 DEF Temp, PathIn
  <2>5. Temp(r)'.key = key[r] /\ Temp(r)'.sum = input[r] /\ Temp(r)'.blob = Temp(r).blob
    BY <2>1, <2>4 DEF File
  <2>6. Temp(r)'.blob = <<>>
    BY <1>2, <2>5 DEF WriteHeader, TempGrows
  <2> QED BY <2>1, <2>2, <2>5, <2>6, CacheAssumption
<1>3. CASE WriteChunk(r)
  <2> DEFINE b == Temp(r).blob
  <2>1. /\ pc'[r] = "write" /\ pc[r] = "write" /\ Len(b) < Chunks
        /\ PathIn(r) \in Paths /\ pid[r] \in Pids /\ Temp(r) \in File
    BY <1>3, OwnFile DEF WriteChunk
  <2>2. key' = key /\ pid' = pid /\ input' = input
    BY <1>3 DEF WriteChunk, selfVars
  <2>3. temps'[PathIn(r)][pid[r]] = [Temp(r) EXCEPT !.blob = Append(@, input[r][Len(@) + 1])]
    BY SMTT(40), <1>3, <2>1 DEF WriteChunk, SetTemp, TypeOK
  <2>4. Temp(r)' = [Temp(r) EXCEPT !.blob = Append(@, input[r][Len(@) + 1])]
    BY <2>2, <2>3 DEF Temp, PathIn
  <2>5. /\ Temp(r)'.key = Temp(r).key /\ Temp(r)'.sum = Temp(r).sum
        /\ Temp(r)'.blob = Append(b, input[r][Len(b) + 1])
    BY <2>1, <2>4 DEF File
  <2>6. /\ b \in Seq(Bytes) /\ Temp(r).key = key[r] /\ Temp(r).sum = input[r]
        /\ \A i \in 1 .. Len(b) : b[i] = input[r][i]
    BY <2>1 DEF File, Blob, TempGrows
  <2> HIDE DEF b
  <2>7. /\ Len(Append(b, input[r][Len(b) + 1])) = Len(b) + 1
        /\ \A i \in 1 .. Len(b) + 1 :
             Append(b, input[r][Len(b) + 1])[i] = IF i = Len(b) + 1 THEN input[r][i] ELSE b[i]
    BY <2>6
  <2>8. \A i \in 1 .. Len(b) + 1 : Append(b, input[r][Len(b) + 1])[i] = input[r][i]
    BY <2>6, <2>7
  <2>9. Len(b) + 1 <= Chunks
    BY <2>1, <2>6, CacheAssumption
  <2> QED BY <2>1, <2>2, <2>5, <2>6, <2>7, <2>8, <2>9
<1>4. CASE ~ CreateTemp(r) /\ ~ WriteHeader(r) /\ ~ WriteChunk(r)
  <2>1. /\ ~ Rename(r) /\ ~ StoreFails(r) /\ pc'[r] = pc[r]
        /\ key'[r] = key[r] /\ input'[r] = input[r]
    BY <1>4, OwnSteps DEF Prelude, Start, Kill, ReadSamples, HashInputs, OpenCache, Hit, Miss,
       Preprocess, Rename, StoreFails, ReachGate, Goto, TypeOK
  <2>2. PathIn(r) \in Paths /\ pid[r] \in Pids
    BY <2>1, OwnFile
  <2>3. temps'[PathIn(r)][pid[r]] = temps[PathIn(r)][pid[r]]
    <3>1. ASSUME NEW other \in Runners, pid[r] = pid[other],
                 CreateTemp(other) \/ WriteHeader(other) \/ WriteChunk(other)
                   \/ Rename(other) \/ StoreFails(other)
          PROVE  FALSE
      <4>1. other # r
        BY <1>4, <2>1, <3>1
      <4>2. Live(other) /\ Live(r)
        BY <2>1, <3>1 DEF Live, Ended, CreateTemp, WriteHeader, WriteChunk, Rename, StoreFails
      <4> QED BY <3>1, <4>1, <4>2 DEF PidsDiffer
    <3> QED BY ZenonT(40), <2>2, <3>1, TempSteps
  <2>4. Temp(r)' = Temp(r)
    BY <2>1, <2>3, WorldMoves DEF Temp, PathIn
  <2> QED BY <2>1, <2>4 DEF TempGrows
<1> QED BY <1>1, <1>2, <1>3, <1>4

\* A name gets only a file that is whole.
LEMMA WholeKept == ASSUME CacheInv, [Next]_vars PROVE PublishedWhole'
<1> USE DEF CacheInv
<1> SUFFICES ASSUME NEW p \in Paths, files'[p] # NoFile, p \notin damaged'
             PROVE  /\ files'[p].key \in Keys /\ PathOf[files'[p].key] = p
                    /\ files'[p].blob = files'[p].sum /\ Len(files'[p].blob) = Chunks
  BY DEF PublishedWhole
<1>1. CASE files'[p] = files[p] /\ p \notin damaged
  BY <1>1 DEF PublishedWhole
<1>2. ASSUME NEW r \in Runners, Rename(r), p = PathIn(r), files'[p] = Temp(r)
      PROVE  /\ files'[p].key \in Keys /\ PathOf[files'[p].key] = p
             /\ files'[p].blob = files'[p].sum /\ Len(files'[p].blob) = Chunks
  <2>1. /\ pc[r] = "write" /\ Len(Temp(r).blob) = Chunks /\ Temp(r) \in File
        /\ key[r] \in Keys /\ Len(input[r]) = Chunks
    BY <1>2, OwnFile DEF Rename, KeyIsOwn, InputMade
  <2>2. /\ Temp(r).key = key[r] /\ Temp(r).sum = input[r]
        /\ \A i \in 1 .. Len(Temp(r).blob) : Temp(r).blob[i] = input[r][i]
    BY <2>1 DEF TempGrows
  <2>3. Temp(r).blob \in Seq(Bytes) /\ input[r] \in Seq(Bytes)
    BY <2>1 DEF File, Blob, TypeOK
  <2>4. Temp(r).blob = input[r]
    BY <2>1, <2>2, <2>3, SeqEqual
  <2> QED BY <1>2, <2>1, <2>2, <2>4 DEF PathIn
<1> QED BY <1>1, <1>2, NameSteps

\* The invariant is inductive.
LEMMA InvKept == ASSUME CacheInv, [Next]_vars PROVE CacheInv'
BY TypesKept, WholeKept, HonestKept, KeysKept, InputsKept, StoresKept, PidsKept, UneditedKept
   DEF CacheInv

LEMMA InvHolds == Spec => []CacheInv
<1>1. CacheInv /\ [Next]_vars => CacheInv'
  BY InvKept
<1> QED BY InitHolds, <1>1, PTL DEF Spec

-----------------------------------------------------------------------------
(* Theorems.                                                               *)

\* Every variable keeps its type; in particular no blob grows past its chunks.
THEOREM TypeCorrect == Spec => []TypeOK
<1>1. CacheInv => TypeOK
  BY DEF CacheInv
<1> QED BY InvHolds, <1>1, PTL

\* A name in the cache stands for a whole file of a key of that name, unless the
\* disk lost some of it: store_image_cache publishes by a rename, and the name it
\* renames from is its own while it lives.
THEOREM FilesAreWhole == Spec => []PublishedWhole
<1>1. CacheInv => PublishedWhole
  BY DEF CacheInv
<1> QED BY InvHolds, <1>1, PTL

\* Runners of different settings never see each other's images: load_image_cache
\* takes a file by the key in its header and the checksum of its blob, and whoever
\* wrote that header made the blob of that checksum with the settings in the key.
THEOREM SettingsStayApart == Spec => []SettingsNeverMixed
<1>1. CacheInv => SettingsNeverMixed
  BY DEF CacheInv, InputMade, AllMade, Made, SettingsNeverMixed, Staged
<1> QED BY InvHolds, <1>1, PTL

\* While nobody has edited the sample CSV or the images the cache is invisible:
\* what main stages from a hit is what preprocess would have returned.
THEOREM CacheIsInvisible == Spec => []StagedAsFresh
<1>1. CacheInv => StagedAsFresh
  <2> SUFFICES ASSUME CacheInv, ~edited, NEW r \in Runners, Staged(r)
               PROVE  /\ Len(input[r]) = Chunks
                      /\ \A i \in 1 .. Chunks :
                           input[r][i] = Chunk(samples[r], i, settings[r], version)
    BY DEF StagedAsFresh
  <2>1. version = 0 /\ samples[r] = csv
    BY DEF CacheInv, NothingEdited
  <2>2. Len(input[r]) = Chunks /\ AllMade(settings[r], input[r])
    BY DEF CacheInv, InputMade, Staged
  <2> QED BY <2>1, <2>2 DEF AllMade, Made
<1> QED BY InvHolds, <1>1, PTL

=============================================================================
