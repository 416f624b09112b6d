----------------------- MODULE ProgressiveAudioProofs -----------------------
(* What a session relies on of its recording, whatever the contents of files, their
   conversion and their layout, and however often they are changed: proofs about
   ProgressiveAudio. *)
EXTENDS ProgressiveAudio, SequenceTheorems, TLAPS

-----------------------------------------------------------------------------
(* The invariant *)

\* From here on the worker knows the content that it reads windows of.
Prepared == {"linked", "checking", "proving", "layout", "publishing", "published",
             "tiling", "ready", "reading"}

\* What is read is the recording that was verified, or the conversion of just that,
\* under its name in the cache.
WavIsPrepared ==
    /\ at \in {"copying", "converting", "linked"} => ogg /\ manifest = Absent
    /\ at = "converting" => got = identity
    /\ at \in Prepared => /\ wav = IF ogg THEN Convert(identity) ELSE identity
                          /\ ogg => wav \in DOMAIN cache

\* A session that has a manifest reads what the manifest says.
AsManifest ==
    /\ at = "publishing" => manifest = Absent
    /\ at \in {"published", "tiling", "ready", "reading"} => manifest # Absent
    /\ at \in Prepared /\ manifest # Absent =>
          manifest.source = identity /\ manifest.wav = wav /\ manifest.converted = ogg

\* The copy's name is durable before a manifest names it.
CopyIsDurable ==
    /\ at \in {"checking", "proving", "layout", "publishing"} /\ ogg /\ manifest = Absent
          => wav \in cacheOnDevice
    /\ manifest # Absent /\ manifest.converted => manifest.wav \in cacheOnDevice
    /\ manifestOnDevice \in {Absent, manifest}

\* The content that the manifest freezes is made of the one it identifies.
FrozenIsPrepared ==
    manifest # Absent =>
        manifest.wav = IF manifest.converted THEN Convert(manifest.source)
                                             ELSE manifest.source

\* The block at place k of a window's read is this one of the content.
Nth(k) == IF k = 1 THEN 1 ELSE job.left + k

\* What a reader has got so far are blocks of the frozen content, of its window.
ReadsFrozen ==
    /\ at \in {"none", "magic", "linked", "layout", "publishing", "published", "tiling",
              "ready"}
          => got = <<>>
    /\ at = "reading" =>
          /\ job \in tiles
          /\ job.right <= Samples(wav) /\ Shortest <= job.right - job.left
          /\ Len(got) <= 1 + job.right - job.left
          /\ \A k \in 1..Len(got) : got[k] = wav[Nth(k)]

DeliveredAreFrozen ==
    /\ at \notin {"ready", "reading"} => DOMAIN delivered = {}
    /\ \A t \in DOMAIN delivered : delivered[t] = SubSeq(wav, t.left + 2, t.right + 1)

FilesOK ==
    /\ source \in Files
    /\ cache \in [DOMAIN cache -> Files]
    /\ DOMAIN cache \subseteq Contents /\ cacheOnDevice \subseteq DOMAIN cache
    /\ manifest \in Manifests \cup {Absent}
    /\ manifestOnDevice \in Manifests \cup {Absent}
    /\ now \in Nat /\ collided \in BOOLEAN

WorkerOK ==
    /\ at \in Steps
    /\ got \in Contents /\ identity \in Contents /\ wav \in Contents
    /\ guard \in Stamps /\ wavGuard \in Stamps
    /\ ogg \in BOOLEAN

SearchOK ==
    /\ TilingOK
    /\ job \in Tiles \cup {Absent}
    /\ delivered \in [DOMAIN delivered -> Contents] /\ DOMAIN delivered \subseteq tiles

BoundsOK ==
    /\ changes \in 0..MaxChanges
    /\ interruptions \in 0..MaxInterruptions
    /\ powerLosses \in 0..MaxPowerLosses

IInv ==
    /\ TypeOK /\ WavIsPrepared /\ AsManifest /\ CopyIsDurable
    /\ FrozenIsPrepared /\ ReadsFrozen /\ DeliveredAreFrozen
-----------------------------------------------------------------------------
LEMMA ContentsAreSequences ==
    ASSUME AudioAssumption, NEW c
    PROVE  c \in Contents <=> c \in Seq(Blocks) /\ Len(c) <= MaxBlocks
<1>1. ASSUME c \in Contents PROVE c \in Seq(Blocks) /\ Len(c) <= MaxBlocks
  <2>1. PICK n \in 0..MaxBlocks : c \in [1..n -> Blocks]
    BY <1>1 DEF Contents
  <2>2. n \in Nat
    BY DEF AudioAssumption
  <2>3. c \in Seq(Blocks)
    BY <2>1, <2>2, SeqDef
  <2>4. Len(c) = n
    BY <2>1, <2>2, <2>3, LenProperties
  <2> QED BY <2>3, <2>4, <2>2 DEF AudioAssumption
<1>2. ASSUME c \in Seq(Blocks), Len(c) <= MaxBlocks PROVE c \in Contents
  <2>1. c \in [1..Len(c) -> Blocks] /\ Len(c) \in Nat
    BY <1>2, LenProperties, ElementOfSeq
  <2>2. Len(c) \in 0..MaxBlocks
    BY <2>1, <1>2 DEF AudioAssumption
  <2> QED BY <2>1, <2>2 DEF Contents
<1> QED BY <1>1, <1>2


\* Whatever passes are over files, the files have contents.
LEMMA FilesHaveContents ==
    ASSUME AudioAssumption, NEW f \in Files
    PROVE  /\ f.data \in Contents /\ f.data \in Seq(Blocks) /\ Len(f.data) \in 0..MaxBlocks
           /\ f.time \in Nat /\ Stamp(f) \in Stamps
<1>1. f.data \in Contents /\ f.time \in Nat
  BY DEF Files
<1>2. f.data \in Seq(Blocks) /\ Len(f.data) <= MaxBlocks
  BY <1>1, ContentsAreSequences
<1>3. Len(f.data) \in Nat
  BY <1>2, LenProperties
<1> QED BY <1>1, <1>2, <1>3 DEF Stamp, Stamps, AudioAssumption

LEMMA EmptyContent ==
    ASSUME AudioAssumption
    PROVE  <<>> \in Contents /\ <<>> \in [DOMAIN <<>> -> Contents] /\ DOMAIN <<>> = {}
<1>1. <<>> \in Seq(Blocks) /\ Len(<<>>) = 0 /\ DOMAIN <<>> = {}
  OBVIOUS
<1>2. <<>> \in Contents
  <2> DEFINE e == <<>>
  <2>1. e \in Seq(Blocks) /\ Len(e) = 0
    BY <1>1
  <2> HIDE DEF e
  <2>2. Len(e) <= MaxBlocks
    BY <2>1 DEF AudioAssumption
  <2>3. e \in Contents
    BY <2>1, <2>2, ContentsAreSequences
  <2> QED BY <2>3 DEF e
<1>3. <<>> \in [DOMAIN <<>> -> Contents]
  <2> DEFINE e == <<>>
  <2>1. e \in Seq(Contents)
    OBVIOUS
  <2> HIDE DEF e
  <2>2. e \in [1..Len(e) -> Contents] /\ DOMAIN e = 1..Len(e)
    BY <2>1, LenProperties
  <2>3. e \in [DOMAIN e -> Contents]
    BY <2>2, Zenon
  <2> QED BY <2>3 DEF e
<1> QED BY <1>1, <1>2, <1>3

LEMMA TypeParts ==
    /\ TypeOK <=> FilesOK /\ WorkerOK /\ SearchOK /\ BoundsOK
    /\ TypeOK' <=> FilesOK' /\ WorkerOK' /\ SearchOK' /\ BoundsOK'
BY DEF TypeOK, FilesOK, WorkerOK, SearchOK, BoundsOK

LEMMA InitHolds == ASSUME AudioAssumption, Init PROVE IInv
<1>1. FilesOK
  <2>1. source \in Files
    BY DEF Init, AudioAssumption, Files
  <2>2. cache \in [DOMAIN cache -> Files] /\ DOMAIN cache = {}
    BY EmptyContent DEF Init
  <2> QED BY <2>1, <2>2 DEF Init, FilesOK
<1>2. WorkerOK
  BY EmptyContent DEF Init, Forgotten, WorkerOK, Steps, Stamps
<1>3. SearchOK /\ DOMAIN delivered = {}
  BY EmptyContent DEF Init, Forgotten, SearchOK, TilingOK
<1>4. BoundsOK
  BY DEF Init, BoundsOK, AudioAssumption
<1>5. at = "none" /\ manifest = Absent /\ manifestOnDevice = Absent
  BY DEF Init, Forgotten
<1>6. WavIsPrepared /\ AsManifest /\ CopyIsDurable /\ FrozenIsPrepared
  BY <1>5 DEF WavIsPrepared, AsManifest, CopyIsDurable, FrozenIsPrepared, Prepared
<1>7. ReadsFrozen /\ DeliveredAreFrozen
  BY <1>3, <1>5 DEF Init, Forgotten, ReadsFrozen, DeliveredAreFrozen
<1> QED BY <1>1, <1>2, <1>3, <1>4, <1>6, <1>7, TypeParts DEF IInv

LEMMA WavFileIsFile ==
    ASSUME AudioAssumption, TypeOK, WavIsPrepared, at \in Prepared
    PROVE  WavFile \in Files
BY DEF TypeOK, WavIsPrepared, WavFile

\* An error, a kill or a loss of power leaves no worker.
LEMMA ForgetHolds ==
    ASSUME AudioAssumption, IInv, Forget, FilesOK', BoundsOK',
           CopyIsDurable', FrozenIsPrepared'
    PROVE  IInv'
<1>1. at' = "none"
  BY DEF Forget
<1>2. WorkerOK'
  BY EmptyContent DEF Forget, WorkerOK, Steps, Stamps
<1>3. SearchOK' /\ DOMAIN delivered' = {}
  BY EmptyContent DEF Forget, SearchOK, TilingOK
<1>4. WavIsPrepared' /\ AsManifest'
  BY <1>1 DEF WavIsPrepared, AsManifest, Prepared
<1>5. ReadsFrozen' /\ DeliveredAreFrozen'
  BY <1>1, <1>3 DEF Forget, ReadsFrozen, DeliveredAreFrozen
<1> QED BY <1>2, <1>3, <1>4, <1>5, TypeParts DEF IInv

\* Nothing that the worker does not touch changes.
LEMMA OutsideStays ==
    ASSUME IInv, UNCHANGED outside
    PROVE  /\ FilesOK' /\ BoundsOK' /\ FrozenIsPrepared'
           /\ manifest' = manifest /\ manifestOnDevice' = manifestOnDevice
           /\ cache' = cache /\ cacheOnDevice' = cacheOnDevice
<1>1. UNCHANGED <<source, cache, now, collided, cacheOnDevice, manifestOnDevice, manifest,
                  changes, interruptions, powerLosses>>
  BY DEF outside, files, device, bounds
<1>2. FilesOK /\ BoundsOK /\ FrozenIsPrepared
  BY TypeParts DEF IInv
<1> QED BY <1>1, <1>2 DEF FilesOK, BoundsOK, FrozenIsPrepared

LEMMA SearchStays ==
    ASSUME IInv, UNCHANGED search
    PROVE  SearchOK' /\ tiles' = tiles /\ job' = job /\ delivered' = delivered
<1>1. UNCHANGED <<offset, tiles, job, delivered>>
  BY DEF search, tiling
<1>2. SearchOK
  BY TypeParts DEF IInv
<1> QED BY <1>1, <1>2 DEF SearchOK, TilingOK

-----------------------------------------------------------------------------
(* The steps of the worker up to the layout: it changes nothing but its own state *)

LEMMA PreparingHolds ==
    ASSUME AudioAssumption, IInv, UNCHANGED <<outside, search>>,
           at \notin {"ready", "reading"}, at' \notin {"ready", "reading"},
           WorkerOK', WavIsPrepared', AsManifest',
           at' \in {"checking", "proving", "layout", "publishing"} /\ ogg' /\ manifest = Absent
              => wav' \in cacheOnDevice,
           at' \in {"none", "magic", "linked", "layout", "publishing", "published", "tiling"}
              => got' = <<>>
    PROVE  IInv'
<1>1. FilesOK' /\ BoundsOK' /\ SearchOK' /\ FrozenIsPrepared'
  BY OutsideStays, SearchStays
<1>2. CopyIsDurable'
  BY OutsideStays DEF IInv, CopyIsDurable
<1>3. ReadsFrozen'
  BY DEF ReadsFrozen
<1>4. DeliveredAreFrozen'
  BY SearchStays DEF IInv, DeliveredAreFrozen
<1> QED BY <1>1, <1>2, <1>3, <1>4, TypeParts DEF IInv

LEMMA OpenHolds == ASSUME AudioAssumption, IInv, Open PROVE IInv'
<1>1. at = "none" /\ at' = "hashing" /\ guard' = Stamp(source)
  BY DEF Open, Goes
<1>2. UNCHANGED <<outside, search>> /\ UNCHANGED <<got, identity, ogg, wav, wavGuard>>
  BY DEF Open
<1>3. source \in Files /\ WorkerOK
  BY TypeParts DEF IInv, FilesOK
<1>4. WorkerOK'
  BY <1>1, <1>2, <1>3, FilesHaveContents DEF WorkerOK, Steps
<1>5. WavIsPrepared' /\ AsManifest'
  BY <1>1 DEF WavIsPrepared, AsManifest, Prepared
<1> QED BY <1>1, <1>2, <1>4, <1>5, PreparingHolds

LEMMA ReadBlockAppends ==
    ASSUME AudioAssumption, IInv, ReadBlock
    PROVE  /\ got' \in Contents /\ Len(got) \in Nat /\ Len(got') = Len(got) + 1
           /\ \A k \in 1..Len(got) : got'[k] = got[k]
           /\ got'[Len(got) + 1] = Passed.data[Len(got) + 1]
<1>1. /\ at \in {"hashing", "copying", "checking", "proving"}
      /\ Len(got) < Len(Passed.data)
      /\ got' = Append(got, Passed.data[Len(got) + 1])
  BY DEF ReadBlock
<1>2. source \in Files /\ got \in Contents
  BY TypeParts DEF IInv, FilesOK, WorkerOK
<1>3. Passed \in Files
  <2>1. CASE at \in {"hashing", "copying"}
    BY <2>1, <1>2 DEF Passed
  <2>2. CASE at \in {"checking", "proving"}
    BY <2>2, WavFileIsFile DEF Passed, IInv, Prepared
  <2> QED BY <1>1, <2>1, <2>2
<1>4. got \in Seq(Blocks) /\ Len(got) \in Nat
  BY <1>2, ContentsAreSequences, LenProperties
<1>5. Passed.data \in Seq(Blocks) /\ Len(Passed.data) \in 0..MaxBlocks
  BY <1>3, FilesHaveContents
<1>6. Passed.data[Len(got) + 1] \in Blocks
  BY <1>1, <1>4, <1>5, ElementOfSeq
<1>7. /\ got' \in Seq(Blocks) /\ Len(got') = Len(got) + 1
      /\ \A k \in 1..Len(got) : got'[k] = got[k]
      /\ got'[Len(got) + 1] = Passed.data[Len(got) + 1]
  BY <1>1, <1>4, <1>6, AppendProperties
<1>8. Len(got') <= MaxBlocks
  BY <1>1, <1>4, <1>5, <1>7 DEF AudioAssumption
<1> QED BY <1>4, <1>7, <1>8, ContentsAreSequences

LEMMA ReadBlockHolds == ASSUME AudioAssumption, IInv, ReadBlock PROVE IInv'
<1>1. at \in {"hashing", "copying", "checking", "proving"} /\ at' = at
  BY DEF ReadBlock
<1>2. UNCHANGED <<outside, search>> /\ UNCHANGED <<identity, guard, ogg, wav, wavGuard>>
  BY DEF ReadBlock, opened
<1>3. WorkerOK'
  BY <1>1, <1>2, ReadBlockAppends, TypeParts DEF IInv, WorkerOK
<1>4. WavIsPrepared' /\ AsManifest'
  BY <1>1, <1>2, OutsideStays DEF IInv, WavIsPrepared, AsManifest
<1>5. at' \in {"checking", "proving", "layout", "publishing"} /\ ogg' /\ manifest = Absent
         => wav' \in cacheOnDevice
  BY <1>1, <1>2 DEF IInv, CopyIsDurable
<1> QED BY <1>1, <1>2, <1>3, <1>4, <1>5, PreparingHolds

LEMMA EndHashHolds == ASSUME AudioAssumption, IInv, EndHash PROVE IInv'
<1>1. at = "hashing" /\ at' = "magic" /\ identity' = got /\ got' = <<>>
  BY DEF EndHash, Goes
<1>2. UNCHANGED <<outside, search>> /\ UNCHANGED <<guard, ogg, wav, wavGuard>>
  BY DEF EndHash
<1>3. WorkerOK'
  BY <1>1, <1>2, EmptyContent, TypeParts DEF IInv, WorkerOK, Steps
<1>4. WavIsPrepared' /\ AsManifest'
  BY <1>1 DEF WavIsPrepared, AsManifest, Prepared
<1> QED BY <1>1, <1>2, <1>3, <1>4, PreparingHolds

LEMMA ReadMagicHolds == ASSUME AudioAssumption, IInv, ReadMagic PROVE IInv'
<1>1. at = "magic" /\ (manifest # Absent => Resumable) /\ ogg' = IsOgg(source.data)
  BY DEF ReadMagic, MagicHolds
<1>2. \/ ~ogg' /\ at' = "proving" /\ wav' = identity /\ wavGuard' = guard
      \/ ogg' /\ manifest = Absent /\ at' = "copying" /\ UNCHANGED <<wav, wavGuard>>
      \/ /\ ogg' /\ manifest # Absent
         /\ at' = "checking" /\ wav' = manifest.wav /\ wavGuard' = Stamp(cache[wav'])
  BY DEF ReadMagic
<1>3. UNCHANGED <<outside, search>> /\ UNCHANGED <<got, identity, guard>>
  BY DEF ReadMagic
<1>4. FilesOK /\ WorkerOK
  BY TypeParts DEF IInv
<1>5. ogg' \in BOOLEAN
  BY <1>1, <1>4, FilesHaveContents DEF FilesOK, AudioAssumption
<1>6. CASE ~ogg' /\ at' = "proving" /\ wav' = identity /\ wavGuard' = guard
  <2>1. WorkerOK'
    BY <1>3, <1>4, <1>5, <1>6 DEF WorkerOK, Steps
  <2>2. WavIsPrepared'
    BY <1>3, <1>6 DEF WavIsPrepared
  <2>3. AsManifest'
    BY <1>1, <1>3, <1>6, OutsideStays DEF AsManifest, Resumable
  <2> QED BY <1>1, <1>3, <1>6, <2>1, <2>2, <2>3, PreparingHolds
<1>7. CASE ogg' /\ manifest = Absent /\ at' = "copying" /\ UNCHANGED <<wav, wavGuard>>
  <2>1. WorkerOK'
    BY <1>3, <1>4, <1>5, <1>7 DEF WorkerOK, Steps
  <2>2. WavIsPrepared' /\ AsManifest'
    BY <1>3, <1>7, OutsideStays DEF WavIsPrepared, AsManifest, Prepared
  <2> QED BY <1>1, <1>3, <1>7, <2>1, <2>2, PreparingHolds
<1>8. CASE /\ ogg' /\ manifest # Absent
           /\ at' = "checking" /\ wav' = manifest.wav /\ wavGuard' = Stamp(cache[wav'])
  <2>1. /\ manifest.source = identity /\ manifest.converted = ogg'
        /\ wav' \in DOMAIN cache /\ manifest.converted
    BY <1>1, <1>8 DEF Resumable
  <2>2. wav' \in Contents /\ wavGuard' \in Stamps
    BY <1>4, <1>8, <2>1, FilesHaveContents DEF FilesOK
  <2>3. WorkerOK'
    BY <1>3, <1>4, <1>5, <1>8, <2>2 DEF WorkerOK, Steps
  <2>4. WavIsPrepared'
    BY <1>3, <1>8, <2>1, OutsideStays DEF IInv, WavIsPrepared, FrozenIsPrepared
  <2>5. AsManifest'
    BY <1>3, <1>8, <2>1, OutsideStays DEF AsManifest
  <2> QED BY <1>1, <1>3, <1>8, <2>3, <2>4, <2>5, PreparingHolds
<1> QED BY <1>2, <1>6, <1>7, <1>8

LEMMA EndCopyHolds == ASSUME AudioAssumption, IInv, EndCopy PROVE IInv'
<1>1. at = "copying" /\ at' = "converting" /\ got = identity
  BY DEF EndCopy, Goes, CopyHolds
<1>2. UNCHANGED <<outside, search>> /\ UNCHANGED <<got, identity, guard, ogg, wav, wavGuard>>
  BY DEF EndCopy, opened
<1>3. WorkerOK'
  BY <1>1, <1>2, TypeParts DEF IInv, WorkerOK, Steps
<1>4. WavIsPrepared' /\ AsManifest'
  BY <1>1, <1>2, OutsideStays DEF IInv, WavIsPrepared, AsManifest, Prepared
<1> QED BY <1>1, <1>2, <1>3, <1>4, PreparingHolds

LEMMA EndCheckHolds == ASSUME AudioAssumption, IInv, EndCheck PROVE IInv'
<1>1. at = "checking" /\ at' = "proving" /\ got' = <<>>
  BY DEF EndCheck, Goes
<1>2. UNCHANGED <<outside, search>> /\ UNCHANGED <<identity, guard, ogg, wav, wavGuard>>
  BY DEF EndCheck, opened
<1>3. WorkerOK'
  BY <1>1, <1>2, EmptyContent, TypeParts DEF IInv, WorkerOK, Steps
<1>4. WavIsPrepared' /\ AsManifest'
  BY <1>1, <1>2, OutsideStays DEF IInv, WavIsPrepared, AsManifest, Prepared
<1>5. ogg' /\ manifest = Absent => wav' \in cacheOnDevice
  BY <1>1, <1>2 DEF IInv, CopyIsDurable
<1> QED BY <1>1, <1>2, <1>3, <1>4, <1>5, PreparingHolds

LEMMA EndProofHolds == ASSUME AudioAssumption, IInv, EndProof PROVE IInv'
<1>1. at = "proving" /\ at' = "layout" /\ got' = <<>>
  BY DEF EndProof, Goes
<1>2. UNCHANGED <<outside, search>> /\ UNCHANGED <<identity, guard, ogg, wav, wavGuard>>
  BY DEF EndProof, opened
<1>3. WorkerOK'
  BY <1>1, <1>2, EmptyContent, TypeParts DEF IInv, WorkerOK, Steps
<1>4. WavIsPrepared' /\ AsManifest'
  BY <1>1, <1>2, OutsideStays DEF IInv, WavIsPrepared, AsManifest, Prepared
<1>5. ogg' /\ manifest = Absent => wav' \in cacheOnDevice
  BY <1>1, <1>2 DEF IInv, CopyIsDurable
<1> QED BY <1>1, <1>2, <1>3, <1>4, <1>5, PreparingHolds

LEMMA ReadLayoutHolds == ASSUME AudioAssumption, IInv, ReadLayout PROVE IInv'
<1>1. at = "layout" /\ at' = IF manifest = Absent THEN "publishing" ELSE "tiling"
  BY DEF ReadLayout
<1>2. UNCHANGED <<outside, search>> /\ UNCHANGED <<got, identity, guard, ogg, wav, wavGuard>>
  BY DEF ReadLayout, opened
<1>3. WorkerOK'
  BY <1>1, <1>2, TypeParts DEF IInv, WorkerOK, Steps
<1>4. WavIsPrepared' /\ AsManifest'
  BY <1>1, <1>2, OutsideStays DEF IInv, WavIsPrepared, AsManifest, Prepared
<1>5. ogg' /\ manifest = Absent => wav' \in cacheOnDevice
  BY <1>1, <1>2 DEF IInv, CopyIsDurable
<1>6. got' = <<>>
  BY <1>1, <1>2 DEF IInv, ReadsFrozen
<1> QED BY <1>1, <1>2, <1>3, <1>4, <1>5, <1>6, PreparingHolds
-----------------------------------------------------------------------------
(* The steps of the worker that change the session *)

\* Files, copies and manifest, and what the worker has opened, while it has no window.
LEMMA OpeningHolds ==
    ASSUME AudioAssumption, IInv, UNCHANGED <<search, bounds>>,
           at \notin {"ready", "reading"}, at' \notin {"ready", "reading"},
           FilesOK', WorkerOK', WavIsPrepared', AsManifest', CopyIsDurable',
           FrozenIsPrepared', got' = <<>>
    PROVE  IInv'
<1>1. BoundsOK'
  BY TypeParts DEF IInv, BoundsOK, bounds
<1>2. SearchOK'
  BY SearchStays
<1>3. ReadsFrozen'
  BY DEF ReadsFrozen
<1>4. DeliveredAreFrozen'
  BY SearchStays DEF IInv, DeliveredAreFrozen
<1> QED BY <1>1, <1>2, <1>3, <1>4, TypeParts DEF IInv

LEMMA ConvertCopyHolds == ASSUME AudioAssumption, IInv, ConvertCopy PROVE IInv'
<1>1. at = "converting" /\ at' = "linked" /\ wav' = Convert(got) /\ got' = <<>>
  BY DEF ConvertCopy, Goes
<1>2. cache' = [n \in DOMAIN cache \cup {wav'} |->
                   IF n \in DOMAIN cache THEN cache[n] ELSE [data |-> n, time |-> now]]
  BY DEF ConvertCopy
<1>3. UNCHANGED <<search, bounds>>
      /\ UNCHANGED <<source, now, collided, cacheOnDevice, manifestOnDevice, manifest,
                     identity, guard, ogg, wavGuard>>
  BY DEF ConvertCopy, device
<1>4. FilesOK /\ WorkerOK
  BY TypeParts DEF IInv
<1>5. ogg /\ manifest = Absent /\ got = identity
  BY <1>1 DEF IInv, WavIsPrepared
<1>6. wav' \in Contents
  BY <1>1, <1>4 DEF WorkerOK, AudioAssumption
<1>7. DOMAIN cache' = DOMAIN cache \cup {wav'}
  BY <1>2
<1>8. FilesOK'
  <2>1. cache' \in [DOMAIN cache' -> Files]
    <3>1. [data |-> wav', time |-> now] \in Files
      BY <1>4, <1>6 DEF FilesOK, Files
    <3> QED BY <1>2, <1>4, <3>1 DEF FilesOK
  <2> QED BY <1>3, <1>4, <1>6, <1>7, <2>1 DEF FilesOK
<1>9. WorkerOK'
  BY <1>1, <1>3, <1>4, <1>6, EmptyContent DEF WorkerOK, Steps
<1>10. WavIsPrepared' /\ AsManifest'
  BY <1>1, <1>3, <1>5, <1>7 DEF WavIsPrepared, AsManifest
<1>11. CopyIsDurable' /\ FrozenIsPrepared'
  BY <1>1, <1>3, <1>5 DEF IInv, CopyIsDurable, FrozenIsPrepared
<1> QED BY <1>1, <1>3, <1>8, <1>9, <1>10, <1>11, OpeningHolds

LEMMA SyncCacheHolds == ASSUME AudioAssumption, IInv, SyncCache PROVE IInv'
<1>1. at = "linked" /\ at' = "checking" /\ wavGuard' = Stamp(cache[wav])
  BY DEF SyncCache, Goes
<1>2. cacheOnDevice' = DOMAIN cache /\ manifestOnDevice' = manifest
  BY DEF SyncCache, SyncSession
<1>3. UNCHANGED <<search, bounds>>
      /\ UNCHANGED <<source, cache, now, collided, manifest, got, identity, guard, ogg, wav>>
  BY DEF SyncCache, files
<1>4. FilesOK /\ WorkerOK
  BY TypeParts DEF IInv
<1>5. ogg /\ manifest = Absent /\ wav \in DOMAIN cache
  BY <1>1 DEF IInv, WavIsPrepared, Prepared
<1>6. wavGuard' \in Stamps
  BY <1>1, <1>4, <1>5, FilesHaveContents DEF FilesOK
<1>7. FilesOK'
  BY <1>2, <1>3, <1>4 DEF FilesOK
<1>8. WorkerOK'
  BY <1>1, <1>3, <1>4, <1>6 DEF WorkerOK, Steps
<1>9. WavIsPrepared' /\ AsManifest'
  BY <1>1, <1>3, <1>5 DEF IInv, WavIsPrepared, AsManifest, Prepared
<1>10. CopyIsDurable' /\ FrozenIsPrepared'
  BY <1>1, <1>2, <1>3, <1>5 DEF CopyIsDurable, FrozenIsPrepared
<1>11. got' = <<>>
  BY <1>1, <1>3 DEF IInv, ReadsFrozen
<1> QED BY <1>1, <1>3, <1>7, <1>8, <1>9, <1>10, <1>11, OpeningHolds

LEMMA PublishManifestHolds ==
    ASSUME AudioAssumption, IInv, PublishManifest
    PROVE  IInv'
<1>1. /\ at = "publishing" /\ at' = "published"
      /\ manifest' = [source |-> identity, wav |-> wav, converted |-> ogg]
  BY DEF PublishManifest, Goes
<1>2. UNCHANGED <<search, bounds>>
      /\ UNCHANGED <<source, cache, now, collided, cacheOnDevice, manifestOnDevice, got,
                     identity, guard, ogg, wav, wavGuard>>
  BY DEF PublishManifest, files, device, opened
<1>3. FilesOK /\ WorkerOK
  BY TypeParts DEF IInv
<1>4. manifest = Absent /\ manifestOnDevice = Absent
  BY <1>1 DEF IInv, AsManifest, CopyIsDurable
<1>5. manifest' \in Manifests /\ manifest' # Absent
  BY <1>1, <1>3 DEF WorkerOK, Manifests, AudioAssumption
<1>6. /\ wav = IF ogg THEN Convert(identity) ELSE identity
      /\ ogg => wav \in DOMAIN cache
  BY <1>1 DEF IInv, WavIsPrepared, Prepared
<1>7. FilesOK'
  BY <1>2, <1>3, <1>5 DEF FilesOK
<1>8. WorkerOK'
  BY <1>1, <1>2, <1>3 DEF WorkerOK, Steps
<1>9. WavIsPrepared' /\ AsManifest'
  BY <1>1, <1>2, <1>5, <1>6 DEF WavIsPrepared, AsManifest
<1>10. CopyIsDurable'
  BY <1>1, <1>2, <1>4 DEF IInv, CopyIsDurable
<1>11. FrozenIsPrepared'
  BY <1>1, <1>6 DEF FrozenIsPrepared
<1>12. got' = <<>>
  BY <1>1, <1>2 DEF IInv, ReadsFrozen
<1> QED BY <1>1, <1>2, <1>7, <1>8, <1>9, <1>10, <1>11, <1>12, OpeningHolds

LEMMA SyncManifestHolds ==
    ASSUME AudioAssumption, IInv, SyncManifest
    PROVE  IInv'
<1>1. /\ at = "published" /\ at' = "tiling"
      /\ cacheOnDevice' = DOMAIN cache /\ manifestOnDevice' = manifest
  BY DEF SyncManifest, SyncSession, Goes
<1>2. UNCHANGED <<search, bounds>>
      /\ UNCHANGED <<source, cache, now, collided, manifest, got, identity, guard, ogg, wav,
                     wavGuard>>
  BY DEF SyncManifest, files, opened
<1>3. FilesOK /\ WorkerOK
  BY TypeParts DEF IInv
<1>4. FilesOK'
  BY <1>1, <1>2, <1>3 DEF FilesOK
<1>5. WorkerOK'
  BY <1>1, <1>2, <1>3 DEF WorkerOK, Steps
<1>6. WavIsPrepared' /\ AsManifest'
  BY <1>1, <1>2 DEF IInv, WavIsPrepared, AsManifest, Prepared
<1>7. CopyIsDurable' /\ FrozenIsPrepared'
  BY <1>1, <1>2, <1>3 DEF IInv, CopyIsDurable, FrozenIsPrepared, FilesOK
<1>8. got' = <<>>
  BY <1>1, <1>2 DEF IInv, ReadsFrozen
<1> QED BY <1>1, <1>2, <1>4, <1>5, <1>6, <1>7, <1>8, OpeningHolds
-----------------------------------------------------------------------------
(* The steps of the worker that search *)

\* A step that changes nothing but the windows.
LEMMA SearchingHolds ==
    ASSUME AudioAssumption, IInv, UNCHANGED <<outside, opened>>,
           at \in {"tiling", "ready", "reading"}, at' \in {"tiling", "ready", "reading"},
           got' \in Contents, SearchOK', ReadsFrozen', DeliveredAreFrozen'
    PROVE  IInv'
<1>1. FilesOK' /\ BoundsOK' /\ FrozenIsPrepared'
  BY OutsideStays
<1>2. UNCHANGED <<identity, guard, ogg, wav, wavGuard>>
  BY DEF opened
<1>3. WorkerOK'
  BY <1>2, TypeParts DEF IInv, WorkerOK, Steps
<1>4. WavIsPrepared' /\ AsManifest'
  BY <1>2, OutsideStays DEF IInv, WavIsPrepared, AsManifest, Prepared
<1>5. CopyIsDurable'
  BY OutsideStays DEF IInv, CopyIsDurable
<1> QED BY <1>1, <1>3, <1>4, <1>5, TypeParts DEF IInv

LEMMA TileHolds == ASSUME AudioAssumption, IInv, Tile PROVE IInv'
<1>1. at = "tiling" /\ at' = at /\ AddTile(Samples(wav))
  BY DEF Tile
<1>2. UNCHANGED <<outside, opened>> /\ UNCHANGED <<got, job, delivered>>
  BY DEF Tile
<1>3. FilesOK /\ WorkerOK /\ SearchOK
  BY TypeParts DEF IInv
<1>4. SearchOK'
  <2>1. Samples(wav) \in Nat
    BY <1>3 DEF WorkerOK, AudioAssumption
  <2>2. offset \in Nat /\ End(Samples(wav)) \in Nat
    BY <1>1, <1>3, <2>1, WindowAssumption DEF SearchOK, TilingOK, AddTile, Continues, End
  <2>3. TilingOK' /\ tiles \subseteq tiles'
    BY <1>1, <1>3, <2>1, <2>2, WindowAssumption DEF SearchOK, TilingOK, AddTile, Tiles
  <2> QED BY <1>2, <1>3, <2>3 DEF SearchOK
<1>5. ReadsFrozen'
  BY <1>1, <1>2 DEF IInv, ReadsFrozen
<1>6. DeliveredAreFrozen'
  BY <1>1, <1>2 DEF IInv, DeliveredAreFrozen
<1>7. got' \in Contents
  BY <1>2, <1>3 DEF WorkerOK
<1> QED BY <1>1, <1>2, <1>4, <1>5, <1>6, <1>7, SearchingHolds

LEMMA EndTilingHolds == ASSUME AudioAssumption, IInv, EndTiling PROVE IInv'
<1>1. at = "tiling" /\ at' = "ready"
  BY DEF EndTiling, Goes
<1>2. UNCHANGED <<outside, opened, search>> /\ UNCHANGED <<got, wav>>
  BY DEF EndTiling, opened
<1>3. SearchOK' /\ tiles' = tiles /\ job' = job /\ delivered' = delivered
  BY <1>2, SearchStays
<1>4. ReadsFrozen' /\ DeliveredAreFrozen'
  BY <1>1, <1>2, <1>3 DEF IInv, ReadsFrozen, DeliveredAreFrozen
<1>5. got' \in Contents
  BY <1>2, TypeParts DEF IInv, WorkerOK
<1> QED BY <1>1, <1>2, <1>3, <1>4, <1>5, SearchingHolds

LEMMA BeginWindowHolds ==
    ASSUME AudioAssumption, IInv, NEW t \in tiles \ DOMAIN delivered, BeginWindow(t)
    PROVE  IInv'
<1>1. /\ at = "ready" /\ at' = "reading" /\ job' = t
      /\ t.right <= Samples(wav) /\ Shortest <= t.right - t.left
  BY DEF BeginWindow, Goes, WindowOpens
<1>2. UNCHANGED <<outside, opened>> /\ UNCHANGED <<got, wav, offset, tiles, delivered>>
  BY DEF BeginWindow, opened, tiling
<1>3. SearchOK
  BY TypeParts DEF IInv
<1>4. t \in Tiles
  BY <1>3 DEF SearchOK, TilingOK
<1>5. SearchOK'
  BY <1>1, <1>2, <1>3, <1>4 DEF SearchOK, TilingOK
<1>6. got' = <<>> /\ Len(got') = 0
  BY <1>1, <1>2 DEF IInv, ReadsFrozen
<1>7. ReadsFrozen'
  <2>1. Len(got') <= 1 + t.right - t.left
    BY <1>1, <1>4, <1>6, WindowAssumption DEF Tiles
  <2> QED BY <1>1, <1>2, <1>6, <2>1 DEF ReadsFrozen
<1>8. DeliveredAreFrozen'
  BY <1>1, <1>2 DEF IInv, DeliveredAreFrozen
<1> QED BY <1>1, <1>2, <1>5, <1>6, <1>7, <1>8, EmptyContent, SearchingHolds

\* A window lies within the samples, hence within the blocks.
LEMMA WindowInside ==
    ASSUME AudioAssumption, IInv, at = "reading"
    PROVE  /\ wav \in Seq(Blocks) /\ Len(wav) \in Nat /\ Len(wav) <= MaxBlocks
           /\ got \in Seq(Blocks) /\ Len(got) \in Nat
           /\ job.left \in Nat /\ job.right \in Nat
           /\ job.left < job.right /\ job.right < Len(wav)
<1>1. WorkerOK /\ SearchOK
  BY TypeParts DEF IInv
<1>2. /\ wav \in Seq(Blocks) /\ Len(wav) \in Nat /\ Len(wav) <= MaxBlocks
      /\ got \in Seq(Blocks) /\ Len(got) \in Nat
  BY <1>1, ContentsAreSequences, LenProperties DEF WorkerOK
<1>3. job \in Tiles /\ job.right <= Samples(wav) /\ Shortest <= job.right - job.left
  BY <1>1 DEF IInv, ReadsFrozen, SearchOK, TilingOK
<1>4. job.left \in Nat /\ job.right \in Nat /\ job.left < job.right
  BY <1>3, WindowAssumption DEF Tiles
<1>5. Samples(wav) \in Nat /\ (Samples(wav) > 0 => Samples(wav) < Len(wav))
  BY <1>1 DEF WorkerOK, AudioAssumption
<1>6. job.right < Len(wav)
  BY <1>2, <1>3, <1>4, <1>5
<1> QED BY <1>2, <1>4, <1>6

LEMMA ReadSamplesHolds == ASSUME AudioAssumption, IInv, ReadSamples PROVE IInv'
<1>1. /\ at = "reading" /\ at' = at /\ ~WindowRead /\ WavFile.data[NextBlock] = wav[NextBlock]
      /\ got' = Append(got, WavFile.data[NextBlock])
  BY DEF ReadSamples, BlockHolds
<1>2. UNCHANGED <<outside, opened, search>>
  BY DEF ReadSamples
<1>3. /\ wav' = wav /\ tiles' = tiles /\ job' = job /\ delivered' = delivered /\ SearchOK'
  BY <1>2, SearchStays DEF opened
<1>4. /\ job \in tiles
      /\ job.right <= Samples(wav) /\ Shortest <= job.right - job.left
      /\ Len(got) <= 1 + job.right - job.left
      /\ \A k \in 1..Len(got) : got[k] = wav[Nth(k)]
  BY <1>1 DEF IInv, ReadsFrozen
<1>5. Len(got) < 1 + job.right - job.left
  BY <1>1, <1>4, WindowInside DEF WindowRead
<1>6. NextBlock = Nth(Len(got) + 1)
  <2>1. got = <<>> <=> Len(got) = 0
    BY <1>1, WindowInside, EmptySeq
  <2>2. Len(got) \in Nat /\ job.left \in Nat
    BY <1>1, WindowInside
  <2>3. CASE Len(got) = 0
    BY <2>1, <2>3 DEF NextBlock, Nth
  <2>4. CASE Len(got) # 0
    <3>1. NextBlock = job.left + Len(got) + 1
      BY <2>1, <2>4 DEF NextBlock
    <3>2. Nth(Len(got) + 1) = job.left + (Len(got) + 1)
      BY <2>2, <2>4 DEF Nth
    <3> QED BY <2>2, <3>1, <3>2
  <2> QED BY <2>3, <2>4
<1>7. NextBlock \in 1..Len(wav)
  BY <1>1, <1>5, <1>6, WindowInside DEF Nth
<1>8. wav[NextBlock] \in Blocks
  BY <1>1, <1>7, WindowInside, ElementOfSeq
<1>9. /\ got' \in Seq(Blocks) /\ Len(got') = Len(got) + 1
      /\ \A k \in 1..Len(got) : got'[k] = got[k]
      /\ got'[Len(got) + 1] = wav[NextBlock]
  BY <1>1, <1>8, WindowInside, AppendProperties
<1>10. \A k \in 1..Len(got') : got'[k] = wav[Nth(k)]
  BY <1>1, <1>4, <1>6, <1>9, WindowInside
<1>11. Len(got') <= 1 + job.right - job.left
  BY <1>1, <1>5, <1>9, WindowInside
<1>12. got' \in Contents
  <2>1. Len(got') <= MaxBlocks
    BY <1>1, <1>9, <1>11, WindowInside DEF AudioAssumption
  <2> QED BY <1>9, <2>1, ContentsAreSequences
<1>13. ReadsFrozen'
  BY <1>1, <1>3, <1>4, <1>10, <1>11 DEF ReadsFrozen, Nth
<1>14. DeliveredAreFrozen'
  BY <1>1, <1>3 DEF IInv, DeliveredAreFrozen
<1> QED BY <1>1, <1>2, <1>3, <1>12, <1>13, <1>14, SearchingHolds

LEMMA EndWindowHolds == ASSUME AudioAssumption, IInv, EndWindow PROVE IInv'
<1>1. at = "reading" /\ at' = "ready" /\ WindowRead /\ got' = <<>> /\ job' = Absent
  BY DEF EndWindow, Goes
<1>2. delivered' = [t \in DOMAIN delivered \cup {job} |->
                       IF t = job THEN Tail(got) ELSE delivered[t]]
  BY DEF EndWindow
<1>3. UNCHANGED <<outside, opened>> /\ UNCHANGED <<wav, offset, tiles>>
  BY DEF EndWindow, opened, tiling
<1>4. SearchOK /\ job \in tiles
  BY <1>1, TypeParts DEF IInv, ReadsFrozen
<1>5. Len(got) = 1 + job.right - job.left /\ \A k \in 1..Len(got) : got[k] = wav[Nth(k)]
  BY <1>1 DEF IInv, ReadsFrozen, WindowRead
<1>6. /\ Tail(got) \in Seq(Blocks) /\ Len(Tail(got)) = Len(got) - 1
      /\ \A k \in 1..Len(Tail(got)) : Tail(got)[k] = got[k + 1]
  <2>1. got # <<>>
    BY <1>1, <1>5, WindowInside, EmptySeq
  <2> QED BY <1>1, <2>1, WindowInside, HeadTailProperties
<1>7. Tail(got) = SubSeq(wav, job.left + 2, job.right + 1)
  <2> DEFINE m == job.left + 2
             n == job.right + 1
  <2>1. m \in Int /\ n \in Int /\ m <= n /\ n - m + 1 = job.right - job.left
    <3>1. /\ job.left \in Nat /\ job.right \in Nat
          /\ job.left < job.right
      BY <1>1, WindowInside
    <3> QED BY <3>1
  <2>2. \A i \in m..n : wav[i] \in Blocks
    <3> TAKE i \in m..n
    <3>1. wav \in Seq(Blocks) /\ i \in 1..Len(wav)
      BY <1>1, WindowInside
    <3> QED BY <3>1, ElementOfSeq
  <2>3. /\ SubSeq(wav, m, n) \in Seq(Blocks)
        /\ Len(SubSeq(wav, m, n)) = n - m + 1
        /\ \A i \in 1..(n - m + 1) : SubSeq(wav, m, n)[i] = wav[m + i - 1]
    <3> HIDE DEF m, n
    <3> QED BY <2>1, <2>2, SubSeqProperties
  <2>4. Len(Tail(got)) = n - m + 1
    <3>1. Len(got) \in Nat /\ job.left \in Nat /\ job.right \in Nat
      BY <1>1, WindowInside
    <3> QED BY <1>5, <1>6, <2>1, <3>1
  <2>5. \A i \in 1..(n - m + 1) : Tail(got)[i] = wav[m + i - 1]
    <3> TAKE i \in 1..(n - m + 1)
    <3>1. job.left \in Nat /\ job.right \in Nat
      BY <1>1, WindowInside
    <3>2. i \in 1..Len(Tail(got)) /\ i + 1 \in 1..Len(got) /\ i + 1 # 1
      BY <1>5, <2>1, <2>4, <3>1
    <3>3. Tail(got)[i] = wav[Nth(i + 1)]
      BY <1>5, <1>6, <3>2
    <3>4. Nth(i + 1) = m + i - 1
      BY <3>1, <3>2 DEF Nth
    <3> QED BY <3>3, <3>4
  <2>6. \A i \in 1..Len(Tail(got)) : Tail(got)[i] = SubSeq(wav, m, n)[i]
    BY <2>3, <2>4, <2>5
  <2> HIDE DEF m, n
  <2>7. Tail(got) = SubSeq(wav, m, n)
    BY <1>6, <2>3, <2>4, <2>6, SeqEqual
  <2> QED BY <2>7 DEF m, n
<1>8. Tail(got) \in Contents
  <2>1. Len(Tail(got)) <= MaxBlocks
    BY <1>1, <1>5, <1>6, WindowInside DEF AudioAssumption
  <2> QED BY <1>6, <2>1, ContentsAreSequences
<1>9. SearchOK'
  <2>1. delivered' \in [DOMAIN delivered' -> Contents]
    BY <1>2, <1>4, <1>8 DEF SearchOK
  <2>2. DOMAIN delivered' = DOMAIN delivered \cup {job}
    BY <1>2
  <2> QED BY <1>1, <1>3, <1>4, <2>1, <2>2 DEF SearchOK, TilingOK
<1>10. ReadsFrozen'
  BY <1>1 DEF ReadsFrozen
<1>11. DeliveredAreFrozen'
  BY <1>1, <1>2, <1>3, <1>7 DEF IInv, DeliveredAreFrozen
<1> QED BY <1>1, <1>3, <1>9, <1>10, <1>11, EmptyContent, SearchingHolds
-----------------------------------------------------------------------------
(* The world *)

\* A step that leaves the worker alone.
LEMMA AsideHolds ==
    ASSUME AudioAssumption, IInv, UNCHANGED <<at, got, opened, search, manifest>>,
           FilesOK', BoundsOK', CopyIsDurable', DOMAIN cache' = DOMAIN cache
    PROVE  IInv'
<1>1. UNCHANGED <<at, got, identity, guard, ogg, wav, wavGuard, manifest>>
  BY DEF opened
<1>2. SearchOK' /\ tiles' = tiles /\ job' = job /\ delivered' = delivered
  BY SearchStays
<1>3. WorkerOK'
  BY <1>1, TypeParts DEF IInv, WorkerOK
<1>4. WavIsPrepared' /\ AsManifest' /\ FrozenIsPrepared'
  BY <1>1 DEF IInv, WavIsPrepared, AsManifest, FrozenIsPrepared
<1>5. ReadsFrozen'
  BY <1>1, <1>2 DEF IInv, ReadsFrozen, Nth
<1>6. DeliveredAreFrozen'
  BY <1>1, <1>2 DEF IInv, DeliveredAreFrozen
<1> QED BY <1>2, <1>3, <1>4, <1>5, <1>6, TypeParts DEF IInv

LEMMA ChangeSourceHolds == ASSUME AudioAssumption, IInv, ChangeSource PROVE IInv'
<1>1. FilesOK /\ BoundsOK
  BY TypeParts DEF IInv
<1>2. /\ changes' = changes + 1 /\ changes < MaxChanges
      /\ now' \in Nat /\ collided' \in BOOLEAN
  <2>1. Changes /\ now \in Nat /\ collided \in BOOLEAN
    BY <1>1 DEF ChangeSource, FilesOK
  <2>2. collided' \in BOOLEAN
    BY <2>1, Zenon DEF Changes
  <2> QED BY <2>1, <2>2 DEF Changes
<1>3. PICK c \in Versions : source' = [data |-> c, time |-> now']
  BY DEF ChangeSource
<1>4. UNCHANGED <<cache, cacheOnDevice, manifestOnDevice, manifest, interruptions, powerLosses>>
      /\ UNCHANGED <<at, got, opened, search>>
  BY DEF ChangeSource, device
<1>5. source' \in Files
  BY <1>2, <1>3 DEF AudioAssumption, Files
<1>6. FilesOK' /\ BoundsOK'
  BY <1>1, <1>2, <1>4, <1>5 DEF FilesOK, BoundsOK, AudioAssumption
<1>7. CopyIsDurable'
  BY <1>4 DEF IInv, CopyIsDurable, opened
<1> QED BY <1>4, <1>6, <1>7, AsideHolds

LEMMA ChangeCacheHolds == ASSUME AudioAssumption, IInv, ChangeCache PROVE IInv'
<1>1. FilesOK /\ BoundsOK
  BY TypeParts DEF IInv
<1>2. /\ changes' = changes + 1 /\ changes < MaxChanges
      /\ now' \in Nat /\ collided' \in BOOLEAN
  <2>1. Changes /\ now \in Nat /\ collided \in BOOLEAN
    BY <1>1 DEF ChangeCache, FilesOK
  <2>2. collided' \in BOOLEAN
    BY <2>1, Zenon DEF Changes
  <2> QED BY <2>1, <2>2 DEF Changes
<1>3. PICK n \in DOMAIN cache, c \in Versions :
          cache' = [cache EXCEPT ![n] = [data |-> c, time |-> now']]
  BY DEF ChangeCache
<1>4. UNCHANGED <<source, cacheOnDevice, manifestOnDevice, manifest, interruptions,
                  powerLosses>>
      /\ UNCHANGED <<at, got, opened, search>>
  BY DEF ChangeCache, device
<1>5. cache' \in [DOMAIN cache' -> Files] /\ DOMAIN cache' = DOMAIN cache
  <2>1. [data |-> c, time |-> now'] \in Files
    BY <1>2 DEF AudioAssumption, Files
  <2> QED BY <1>1, <1>3, <2>1 DEF FilesOK
<1>6. FilesOK' /\ BoundsOK'
  BY <1>1, <1>2, <1>4, <1>5 DEF FilesOK, BoundsOK, AudioAssumption
<1>7. CopyIsDurable'
  BY <1>4 DEF IInv, CopyIsDurable, opened
<1> QED BY <1>4, <1>5, <1>6, <1>7, AsideHolds

LEMMA WritebackHolds == ASSUME AudioAssumption, IInv, Writeback PROVE IInv'
<1>1. FilesOK /\ BoundsOK
  BY TypeParts DEF IInv
<1>2. /\ cacheOnDevice \subseteq cacheOnDevice' /\ cacheOnDevice' \subseteq DOMAIN cache
      /\ manifestOnDevice' \in {manifestOnDevice, manifest}
  BY <1>1 DEF Writeback, FilesOK
<1>3. UNCHANGED <<source, cache, now, collided, manifest, changes, interruptions, powerLosses>>
      /\ UNCHANGED <<at, got, opened, search>>
  BY DEF Writeback, files, bounds
<1>4. FilesOK' /\ BoundsOK'
  BY <1>1, <1>2, <1>3 DEF FilesOK, BoundsOK
<1>5. CopyIsDurable'
  BY <1>2, <1>3 DEF IInv, CopyIsDurable, opened
<1> QED BY <1>3, <1>4, <1>5, AsideHolds

LEMMA RefuseHolds == ASSUME AudioAssumption, IInv, Refuse PROVE IInv'
<1>1. Forget /\ UNCHANGED outside
  BY DEF Refuse
<1>2. CopyIsDurable'
  BY <1>1, OutsideStays DEF Forget, IInv, CopyIsDurable
<1> QED BY <1>1, <1>2, OutsideStays, ForgetHolds

LEMMA InterruptHolds == ASSUME AudioAssumption, IInv, Interrupt PROVE IInv'
<1>1. Forget /\ interruptions < MaxInterruptions /\ interruptions' = interruptions + 1
  BY DEF Interrupt
<1>2. UNCHANGED <<source, cache, now, collided, cacheOnDevice, manifestOnDevice, manifest,
                  changes, powerLosses>>
  BY DEF Interrupt, files, device
<1>3. FilesOK' /\ BoundsOK'
  BY <1>1, <1>2, TypeParts DEF IInv, FilesOK, BoundsOK, AudioAssumption
<1>4. CopyIsDurable' /\ FrozenIsPrepared'
  BY <1>1, <1>2 DEF Forget, IInv, CopyIsDurable, FrozenIsPrepared
<1> QED BY <1>1, <1>3, <1>4, ForgetHolds

LEMMA LosePowerHolds == ASSUME AudioAssumption, IInv, LosePower PROVE IInv'
<1>1. /\ Forget /\ powerLosses < MaxPowerLosses /\ powerLosses' = powerLosses + 1
      /\ cache' = [n \in cacheOnDevice |-> cache[n]] /\ manifest' = manifestOnDevice
  BY DEF LosePower
<1>2. UNCHANGED <<source, now, collided, cacheOnDevice, manifestOnDevice, changes,
                  interruptions>>
  BY DEF LosePower, device
<1>3. FilesOK /\ BoundsOK
  BY TypeParts DEF IInv
<1>4. FilesOK'
  <2>1. DOMAIN cache' = cacheOnDevice /\ cache' \in [DOMAIN cache' -> Files]
    BY <1>1, <1>3 DEF FilesOK
  <2> QED BY <1>1, <1>2, <1>3, <2>1 DEF FilesOK
<1>5. BoundsOK'
  BY <1>1, <1>2, <1>3 DEF BoundsOK, AudioAssumption
<1>6. CopyIsDurable' /\ FrozenIsPrepared'
  BY <1>1, <1>2 DEF Forget, IInv, CopyIsDurable, FrozenIsPrepared
<1> QED BY <1>1, <1>4, <1>5, <1>6, ForgetHolds

LEMMA StutterHolds == ASSUME AudioAssumption, IInv, UNCHANGED vars PROVE IInv'
<1>1. UNCHANGED <<outside, at, got, opened, search>>
  BY DEF vars
<1>2. FilesOK' /\ BoundsOK' /\ DOMAIN cache' = DOMAIN cache /\ manifest' = manifest
  BY <1>1, OutsideStays
<1>3. CopyIsDurable'
  BY <1>1, OutsideStays DEF IInv, CopyIsDurable, opened
<1> QED BY <1>1, <1>2, <1>3, AsideHolds
-----------------------------------------------------------------------------
(* The theorems *)

LEMMA NextHolds == ASSUME AudioAssumption, IInv, [Next]_vars PROVE IInv'
<1>1. CASE Worker
  BY <1>1, OpenHolds, ReadBlockHolds, EndHashHolds, ReadMagicHolds, EndCopyHolds,
     ConvertCopyHolds, SyncCacheHolds, EndCheckHolds, EndProofHolds, ReadLayoutHolds,
     PublishManifestHolds, SyncManifestHolds, TileHolds, EndTilingHolds, BeginWindowHolds,
     ReadSamplesHolds, EndWindowHolds, RefuseHolds
  DEF Worker
<1>2. CASE ChangeSource \/ ChangeCache \/ Interrupt \/ Writeback \/ LosePower
  BY <1>2, ChangeSourceHolds, ChangeCacheHolds, InterruptHolds, WritebackHolds, LosePowerHolds
<1> QED BY <1>1, <1>2, StutterHolds DEF Next

\* What is on disk and what the worker knows agree, at every place of its way.
THEOREM AudioInvariant == Spec => []IInv
<1>1. Init => IInv
  BY InitHolds, AudioAssumption
<1>2. IInv /\ [Next]_vars => IInv'
  BY NextHolds, AudioAssumption
<1> QED BY <1>1, <1>2, PTL DEF Spec

THEOREM TypeCorrect == Spec => []TypeOK
<1>1. IInv => TypeOK
  BY DEF IInv
<1> QED BY <1>1, AudioInvariant, PTL

\* Whatever is written to the recording or to its converted copy, whenever, and
\* however often the session is resumed: the windows that are searched consist of
\* the samples frozen in the manifest (get_window).
THEOREM SearchesFrozenWindows == Spec => []WindowsAreFrozen
<1>1. IInv => WindowsAreFrozen
  <2> SUFFICES ASSUME IInv, NEW t \in DOMAIN delivered
               PROVE  delivered[t] = SubSeq(manifest.wav, t.left + 2, t.right + 1)
    BY DEF WindowsAreFrozen
  <2>1. at \in {"ready", "reading"} /\ delivered[t] = SubSeq(wav, t.left + 2, t.right + 1)
    BY DEF IInv, DeliveredAreFrozen
  <2>2. manifest.wav = wav
    BY <2>1 DEF IInv, AsManifest, Prepared
  <2> QED BY <2>1, <2>2
<1> QED BY <1>1, AudioInvariant, PTL

\* The manifest freezes what the tools make of the content it identifies, and a
\* manifest that survives a loss of power finds the converted copy it names (prepare).
THEOREM ManifestStaysTrue == Spec => []ManifestIsTrue
<1>1. IInv => ManifestIsTrue
  BY DEF IInv, ManifestIsTrue, FrozenIsPrepared, CopyIsDurable
<1> QED BY <1>1, AudioInvariant, PTL
-----------------------------------------------------------------------------
(* Windows cover the recording *)

\* The next tile starts where the previous has covered more, by what two share.
Reached == offset + Width - Stride

TilingSound(samples) ==
    /\ \A t \in tiles : /\ t.right <= samples
                        /\ Shortest <= t.right - t.left
                        /\ t.right - t.left <= Width
    /\ offset = -1 => \A x \in 0..(samples - 1) : Covered(x)
    /\ offset # -1 /\ tiles = {} => offset = 0
    /\ offset # -1 /\ tiles # {} => /\ Reached < samples
                                   /\ \A t \in tiles : t.right <= Reached
                                   /\ \A x \in 0..(Reached - 1) : Covered(x)

LEMMA AddTileSound ==
    ASSUME NEW samples \in Nat, TilingOK, TilingSound(samples), AddTile(samples)
    PROVE  TilingSound(samples)'
<1> DEFINE end == End(samples)
           new == [left |-> offset, right |-> end]
<1>1. /\ offset \in Nat /\ offset < samples /\ Shortest <= end - offset
      /\ tiles' = tiles \cup {new}
      /\ offset' = IF end >= samples THEN -1 ELSE offset + Stride
  BY DEF AddTile, Continues, TilingOK
<1>2. /\ Width \in Nat /\ Stride \in Nat /\ Shortest \in Nat
      /\ 0 < Stride /\ Stride <= Width /\ 0 < Shortest /\ Shortest <= Width
  BY WindowAssumption
<1>3. end = IF offset + Width < samples THEN offset + Width ELSE samples
  BY DEF End
<1> HIDE DEF end
<1>4. end \in Nat /\ offset < end /\ end <= samples /\ end - offset <= Width
  BY <1>1, <1>2, <1>3
<1>5. \A t \in tiles : /\ t.left \in Nat /\ t.right \in Nat
                       /\ t.right <= samples
                       /\ Shortest <= t.right - t.left /\ t.right - t.left <= Width
  BY DEF TilingOK, Tiles, TilingSound
<1>6. \A x \in 0..(end - 1) : Covered(x)'
  <2> SUFFICES ASSUME NEW x \in 0..(end - 1)
               PROVE  \E t \in tiles' : t.left <= x /\ x < t.right
    BY DEF Covered
  <2>1. CASE offset <= x
    <3>1. new \in tiles' /\ new.left = offset /\ new.right = end
      BY <1>1
    <3>2. x < end
      BY <1>4
    <3> QED BY <2>1, <3>1, <3>2
  <2>2. CASE x < offset
    <3>1. tiles # {}
      BY <1>1, <2>2 DEF TilingSound
    <3>2. x \in 0..(Reached - 1)
      BY <1>1, <1>2, <2>2 DEF Reached
    <3>3. Covered(x)
      BY <1>1, <3>1, <3>2 DEF TilingSound
    <3> QED BY <1>1, <3>3 DEF Covered
  <2> QED BY <1>1, <1>4, <2>1, <2>2
<1>7. \A t \in tiles' : /\ t.right <= samples
                        /\ Shortest <= t.right - t.left /\ t.right - t.left <= Width
  BY <1>1, <1>4, <1>5
<1>8. CASE end >= samples
  <2>1. offset' = -1 /\ end = samples
    BY <1>1, <1>4, <1>8
  <2> QED BY <1>6, <1>7, <2>1 DEF TilingSound
<1>9. CASE ~(end >= samples)
  <2>1. offset' = offset + Stride /\ end = offset + Width
    BY <1>1, <1>3, <1>9
  <2>2. Reached' = end /\ offset' # -1 /\ end < samples
    BY <1>1, <1>2, <1>4, <1>9, <2>1 DEF Reached
  <2>3. \A t \in tiles : t.right <= end
    <3>1. ASSUME NEW t \in tiles PROVE t.right <= end
      <4>1. t.right <= Reached
        BY <1>1 DEF TilingSound
      <4> QED BY <1>1, <1>2, <1>5, <2>1, <4>1 DEF Reached
    <3> QED BY <3>1
  <2>4. \A t \in tiles' : t.right <= Reached'
    BY <1>1, <1>4, <2>2, <2>3
  <2> QED BY <1>1, <1>6, <1>7, <2>2, <2>4 DEF TilingSound
<1> QED BY <1>8, <1>9

LEMMA SoundTilingCovers ==
    ASSUME NEW samples \in Nat, TilingOK, TilingSound(samples)
    PROVE  TilesCover(samples)
<1>1. /\ Width \in Nat /\ Stride \in Nat /\ Shortest \in Nat
      /\ 0 < Stride /\ Stride <= Width /\ 0 < Shortest /\ Shortest <= Width
  BY WindowAssumption
<1>2. offset \in Int /\ offset >= -1
  BY DEF TilingOK
<1>3. ASSUME NEW t \in tiles, NEW x \in 0..(t.right - 1) PROVE Covered(x)
  <2>1. t.right \in Nat
    BY DEF TilingOK, Tiles
  <2>2. CASE offset = -1
    <3>1. x \in 0..(samples - 1)
      BY <2>1 DEF TilingSound
    <3> QED BY <2>2, <3>1 DEF TilingSound
  <2>3. CASE offset # -1
    <3>1. t.right <= Reached
      BY <2>3 DEF TilingSound
    <3>2. x \in 0..(Reached - 1)
      BY <1>1, <1>2, <2>1, <3>1 DEF Reached
    <3> QED BY <2>3, <3>2 DEF TilingSound
  <2> QED BY <2>2, <2>3
<1>4. ASSUME Tiled(samples), NEW x \in 0..(samples - 1), ~Covered(x)
      PROVE  x >= samples - Loss
  <2>1. offset # -1 /\ tiles # {}
    BY <1>4 DEF TilingSound, Tiled
  <2>2. offset \in Nat
    BY <1>2, <2>1
  <2>3. Reached < samples /\ ~(x \in 0..(Reached - 1))
    BY <1>4, <2>1 DEF TilingSound
  <2>4. x >= Reached
    BY <1>1, <2>2, <2>3 DEF Reached
  <2>5. ~(offset < samples /\ End(samples) - offset >= Shortest)
    BY <1>4, <2>2 DEF Tiled, Continues
  <2>6. offset < samples
    BY <1>1, <2>2, <2>3 DEF Reached
  <2>7. samples - offset < Shortest
    BY <1>1, <2>2, <2>5, <2>6 DEF End
  <2> QED BY <1>1, <2>2, <2>4, <2>7 DEF Reached, Loss
<1> QED BY <1>3, <1>4 DEF TilesCover, TilingSound

TilesInv ==
    /\ at \notin {"tiling", "ready", "reading"} => offset = 0 /\ tiles = {}
    /\ TilingSound(Samples(wav))

LEMMA TilesKept == ASSUME IInv, TilesInv, [Next]_vars PROVE TilesInv'
<1>1. TilingOK /\ Samples(wav) \in Nat
  BY AudioAssumption DEF IInv, TypeOK
<1>2. ASSUME UNCHANGED tiling,
             \/ at \notin {"tiling", "ready", "reading"}
             \/ UNCHANGED wav /\ at' \in {"tiling", "ready", "reading"}
      PROVE  TilesInv'
  <2>1. offset' = offset /\ tiles' = tiles
    BY <1>2 DEF tiling
  <2>2. CASE at \notin {"tiling", "ready", "reading"}
    BY <2>1, <2>2 DEF TilesInv, TilingSound
  <2>3. CASE UNCHANGED wav /\ at' \in {"tiling", "ready", "reading"}
    BY <2>1, <2>3 DEF TilesInv, TilingSound, Reached, Covered
  <2> QED BY <1>2, <2>2, <2>3
<1>3. ASSUME Forget PROVE TilesInv'
  BY <1>3 DEF Forget, TilesInv, TilingSound
<1>4. ASSUME Tile PROVE TilesInv'
  <2>1. /\ at = "tiling" /\ at' = at /\ wav' = wav /\ AddTile(Samples(wav))
        /\ TilingSound(Samples(wav))
    BY <1>4 DEF Tile, opened, TilesInv
  <2>2. ASSUME NEW s \in Nat, s = Samples(wav) PROVE TilesInv'
    <3>1. TilingSound(s)'
      BY <1>1, <2>1, <2>2, AddTileSound
    <3> QED BY <2>1, <2>2, <3>1 DEF TilesInv, TilingSound
  <2> QED BY <1>1, <2>2
<1>5. CASE Open \/ EndHash \/ ReadMagic \/ EndCopy \/ ConvertCopy \/ SyncCache \/ EndCheck
           \/ EndProof \/ ReadLayout \/ PublishManifest \/ SyncManifest
  BY <1>2, <1>5 DEF Open, EndHash, ReadMagic, EndCopy, ConvertCopy, SyncCache, EndCheck,
     EndProof, ReadLayout, PublishManifest, SyncManifest, Goes, search
<1>6. CASE ReadBlock
  BY <1>2, <1>6 DEF ReadBlock, search
<1>7. CASE EndTiling \/ ReadSamples \/ EndWindow
           \/ \E t \in tiles \ DOMAIN delivered : BeginWindow(t)
  BY <1>2, <1>7 DEF EndTiling, ReadSamples, EndWindow, BeginWindow, Goes, opened, search
<1>8. CASE Refuse \/ Interrupt \/ LosePower
  BY <1>3, <1>8 DEF Refuse, Interrupt, LosePower
<1>9. CASE ChangeSource \/ ChangeCache \/ Writeback \/ UNCHANGED vars
  BY <1>2, <1>9 DEF ChangeSource, ChangeCache, Writeback, vars, opened, search
<1> QED BY <1>4, <1>5, <1>6, <1>7, <1>8, <1>9 DEF Next, Worker

\* Whatever the sizes of windows and however long the recording: the windows to be
\* searched leave no sample out but of the tail (window_bounds).
THEOREM SearchAlwaysCovers == Spec => []SearchCoversRecording
<1>1. Init => TilesInv
  BY DEF Init, Forgotten, TilesInv, TilingSound
<1>2. IInv /\ TilesInv /\ [Next]_vars => TilesInv'
  BY TilesKept
<1>3. IInv /\ TilesInv => SearchCoversRecording
  <2> SUFFICES ASSUME IInv, TilesInv PROVE TilesCover(Samples(wav))
    BY DEF SearchCoversRecording
  <2>1. TilingOK /\ Samples(wav) \in Nat /\ TilingSound(Samples(wav))
    BY AudioAssumption DEF IInv, TypeOK, TilesInv
  <2> QED BY <2>1, SoundTilingCovers
<1> QED BY <1>1, <1>2, <1>3, AudioInvariant, PTL DEF Spec
-----------------------------------------------------------------------------
(* Stamps *)

\* Nothing bears a time that has not come.
TimesPast ==
    /\ source.time <= now
    /\ \A n \in DOMAIN cache : cache[n].time <= now
    /\ at # "none" => guard[2] <= now
    /\ at \in Prepared \ {"linked"} => wavGuard[2] <= now

LaidOut == {"layout", "publishing", "published", "tiling", "ready", "reading"}

\* A pass that is followed by an unchanged stamp has seen the file as it is.
PassesVouched ==
    ~collided =>
        /\ at = "hashing" /\ SourceUnchanged => \A k \in 1..Len(got) : got[k] = source.data[k]
        /\ at \notin {"none", "hashing"} /\ SourceUnchanged => source.data = identity
        /\ at = "proving" /\ WavUnchanged => \A k \in 1..Len(got) : got[k] = WavFile.data[k]
        /\ at \in LaidOut /\ WavUnchanged => WavFile.data = wav

StampsInv == TimesPast /\ PassesVouched

LEMMA NothingRead == ASSUME got' = <<>> PROVE 1..Len(got') = {}
OBVIOUS

\* A step that neither writes to files nor takes or checks a stamp.
LEMMA StampsStay ==
    ASSUME StampsInv, UNCHANGED <<files, opened>>,
           at' # "none" => at # "none",
           at' = "hashing" => at = "hashing",
           at' \notin {"none", "hashing"} => at \notin {"none", "hashing"},
           at' \in Prepared \ {"linked"} => at \in Prepared \ {"linked"},
           at' \in LaidOut => at \in LaidOut,
           at' \in {"hashing", "proving"} => got' = <<>> \/ (at' = at /\ got' = got)
    PROVE  StampsInv'
<1>1. UNCHANGED <<source, cache, now, collided, identity, guard, ogg, wav, wavGuard>>
  BY DEF files, opened
<1>2. UNCHANGED <<SourceUnchanged, WavUnchanged, WavFile>>
  BY <1>1 DEF SourceUnchanged, WavUnchanged, WavFile, Stamp
<1>3. TimesPast'
  BY <1>1 DEF StampsInv, TimesPast
<1>4. PassesVouched'
  BY <1>1, <1>2, NothingRead DEF StampsInv, PassesVouched
<1> QED BY <1>3, <1>4 DEF StampsInv

LEMMA OpenStamps == ASSUME IInv, StampsInv, Open PROVE StampsInv'
<1>1. /\ at = "none" /\ at' = "hashing" /\ guard' = Stamp(source)
      /\ UNCHANGED <<source, cache, now, got>>
  BY DEF Open, Goes, outside, files
<1>2. TimesPast'
  BY <1>1 DEF StampsInv, TimesPast, Stamp, Prepared
<1>3. got' = <<>>
  BY <1>1 DEF IInv, ReadsFrozen
<1>4. PassesVouched'
  BY <1>1, <1>3, NothingRead DEF PassesVouched, LaidOut
<1> QED BY <1>2, <1>4 DEF StampsInv

\* Only two passes are compared with a stamp alone.
LEMMA ReadBlockStamps == ASSUME IInv, StampsInv, ReadBlock PROVE StampsInv'
<1>1. /\ at \in {"hashing", "copying", "checking", "proving"} /\ at' = at
      /\ UNCHANGED <<files, opened>>
  BY DEF ReadBlock, outside
<1>2. UNCHANGED <<source, cache, now, collided, identity, guard, ogg, wav, wavGuard>>
  BY <1>1 DEF files, opened
<1>3. UNCHANGED <<SourceUnchanged, WavUnchanged, WavFile>>
  BY <1>2 DEF SourceUnchanged, WavUnchanged, WavFile, Stamp
<1>4. TimesPast'
  BY <1>1, <1>2 DEF StampsInv, TimesPast
<1>5. /\ Len(got) \in Nat /\ Len(got') = Len(got) + 1
      /\ \A k \in 1..Len(got) : got'[k] = got[k]
      /\ got'[Len(got) + 1] = Passed.data[Len(got) + 1]
  BY ReadBlockAppends, AudioAssumption
<1>6. ASSUME at = "hashing", SourceUnchanged', ~collided'
      PROVE  \A k \in 1..Len(got') : got'[k] = source'.data[k]
  <2>1. \A k \in 1..Len(got) : got[k] = source.data[k]
    BY <1>2, <1>3, <1>6 DEF StampsInv, PassesVouched
  <2>2. Passed = source
    BY <1>6 DEF Passed
  <2> QED BY <1>2, <1>5, <2>1, <2>2
<1>7. ASSUME at = "proving", WavUnchanged', ~collided'
      PROVE  \A k \in 1..Len(got') : got'[k] = WavFile'.data[k]
  <2>1. \A k \in 1..Len(got) : got[k] = WavFile.data[k]
    BY <1>2, <1>3, <1>7 DEF StampsInv, PassesVouched
  <2>2. Passed = WavFile
    BY <1>7 DEF Passed
  <2> QED BY <1>3, <1>5, <2>1, <2>2
<1>8. ASSUME at \notin {"none", "hashing"}, SourceUnchanged', ~collided'
      PROVE  source'.data = identity'
  BY <1>2, <1>3, <1>8 DEF StampsInv, PassesVouched
<1>9. PassesVouched'
  BY <1>1, <1>6, <1>7, <1>8 DEF PassesVouched, LaidOut
<1> QED BY <1>4, <1>9 DEF StampsInv

LEMMA EndHashStamps == ASSUME IInv, StampsInv, EndHash PROVE StampsInv'
<1>1. /\ at = "hashing" /\ at' = "magic" /\ identity' = got
      /\ Len(got) = guard[1] /\ SourceUnchanged
      /\ UNCHANGED <<source, cache, now, collided, guard>>
  BY DEF EndHash, Goes, SourcePassed, outside, files
<1>2. TimesPast'
  BY <1>1 DEF StampsInv, TimesPast, Prepared
<1>3. ASSUME ~collided PROVE source.data = got
  <2>1. \A k \in 1..Len(got) : got[k] = source.data[k]
    BY <1>1, <1>3 DEF StampsInv, PassesVouched
  <2>2. Len(got) = Len(source.data)
    BY <1>1 DEF SourceUnchanged, Stamp
  <2>3. got \in Seq(Blocks) /\ source.data \in Seq(Blocks)
    BY AudioAssumption, ContentsAreSequences, FilesHaveContents, TypeParts
       DEF IInv, WorkerOK, FilesOK
  <2> QED BY <2>1, <2>2, <2>3, SeqEqual
<1>4. PassesVouched'
  BY <1>1, <1>3 DEF PassesVouched, LaidOut
<1> QED BY <1>2, <1>4 DEF StampsInv

LEMMA ReadMagicStamps == ASSUME IInv, StampsInv, ReadMagic PROVE StampsInv'
<1>1. /\ at = "magic" /\ at' \in {"proving", "copying", "checking"}
      /\ UNCHANGED <<source, cache, now, collided, guard, identity, got>>
  BY DEF ReadMagic, outside, files
<1>2. /\ at' = "proving" => wavGuard' = guard
      /\ at' = "checking" => /\ manifest.wav \in DOMAIN cache
                             /\ wavGuard' = Stamp(cache[manifest.wav])
  BY DEF ReadMagic, MagicHolds, Resumable
<1>3. TimesPast'
  BY <1>1, <1>2 DEF StampsInv, TimesPast, Prepared, Stamp
<1>4. got' = <<>>
  BY <1>1 DEF IInv, ReadsFrozen
<1>5. SourceUnchanged' => SourceUnchanged
  BY <1>1 DEF SourceUnchanged
<1>6. PassesVouched'
  BY <1>1, <1>4, <1>5, NothingRead DEF StampsInv, PassesVouched, LaidOut
<1> QED BY <1>3, <1>6 DEF StampsInv

LEMMA ConvertCopyStamps == ASSUME IInv, StampsInv, ConvertCopy PROVE StampsInv'
<1>1. /\ at = "converting" /\ at' = "linked"
      /\ UNCHANGED <<source, now, collided, guard, identity>>
  BY DEF ConvertCopy, Goes
<1>2. cache' = [n \in DOMAIN cache \cup {wav'} |->
                   IF n \in DOMAIN cache THEN cache[n] ELSE [data |-> n, time |-> now]]
  BY DEF ConvertCopy
<1>3. now \in Nat
  BY DEF IInv, TypeOK
<1>4. TimesPast'
  BY <1>1, <1>2, <1>3 DEF StampsInv, TimesPast, Prepared
<1>5. SourceUnchanged' => SourceUnchanged
  BY <1>1 DEF SourceUnchanged
<1>6. PassesVouched'
  BY <1>1, <1>5 DEF StampsInv, PassesVouched, LaidOut
<1> QED BY <1>4, <1>6 DEF StampsInv

LEMMA SyncCacheStamps == ASSUME IInv, StampsInv, SyncCache PROVE StampsInv'
<1>1. /\ at = "linked" /\ at' = "checking" /\ wavGuard' = Stamp(cache[wav])
      /\ UNCHANGED <<source, cache, now, collided, guard, identity>>
  BY DEF SyncCache, Goes, files
<1>2. wav \in DOMAIN cache
  BY <1>1 DEF IInv, WavIsPrepared, Prepared
<1>3. TimesPast'
  BY <1>1, <1>2 DEF StampsInv, TimesPast, Stamp
<1>4. SourceUnchanged' => SourceUnchanged
  BY <1>1 DEF SourceUnchanged
<1>5. PassesVouched'
  BY <1>1, <1>4 DEF StampsInv, PassesVouched, LaidOut
<1> QED BY <1>3, <1>5 DEF StampsInv

LEMMA EndProofStamps == ASSUME IInv, StampsInv, EndProof PROVE StampsInv'
<1>1. /\ at = "proving" /\ at' = "layout" /\ Len(got) = wavGuard[1] /\ WavUnchanged
      /\ got = wav /\ UNCHANGED <<files, opened>>
  BY DEF EndProof, Goes, ProofHolds, WavPassed, outside
<1>2. UNCHANGED <<source, cache, now, collided, identity, guard, ogg, wav, wavGuard>>
  BY <1>1 DEF files, opened
<1>3. UNCHANGED <<SourceUnchanged, WavUnchanged, WavFile>>
  BY <1>2 DEF SourceUnchanged, WavUnchanged, WavFile, Stamp
<1>4. TimesPast'
  BY <1>1, <1>2 DEF StampsInv, TimesPast, Prepared
<1>5. ASSUME ~collided PROVE WavFile.data = wav
  <2>1. \A k \in 1..Len(got) : got[k] = WavFile.data[k]
    BY <1>1, <1>5 DEF StampsInv, PassesVouched
  <2>2. Len(got) = Len(WavFile.data)
    BY <1>1 DEF WavUnchanged, Stamp
  <2>3. WavFile \in Files
    BY <1>1, AudioAssumption, WavFileIsFile DEF IInv, Prepared
  <2>4. got \in Seq(Blocks) /\ WavFile.data \in Seq(Blocks)
    BY <2>3, AudioAssumption, ContentsAreSequences, FilesHaveContents, TypeParts
       DEF IInv, WorkerOK
  <2>5. got = WavFile.data
    BY <2>1, <2>2, <2>4, SeqEqual
  <2> QED BY <1>1, <2>5
<1>6. PassesVouched'
  BY <1>1, <1>2, <1>3, <1>5 DEF StampsInv, PassesVouched
<1> QED BY <1>4, <1>6 DEF StampsInv

\* A change that does not keep the time shows in every stamp that was taken.
LEMMA ChangeStamps ==
    ASSUME IInv, StampsInv, ChangeSource \/ ChangeCache
    PROVE  StampsInv'
<1>1. /\ UNCHANGED <<at, got, identity, guard, ogg, wav, wavGuard>>
      /\ now \in Nat /\ now' \in Nat /\ now <= now'
      /\ ~collided' => ~collided /\ now' = now + 1
  BY DEF ChangeSource, ChangeCache, Changes, opened, IInv, TypeOK
<1>2. /\ source \in Files /\ \A n \in DOMAIN cache : cache[n] \in Files
      /\ guard \in Stamps /\ wavGuard \in Stamps
  BY DEF IInv, TypeOK
<1>3. \/ source' = source
      \/ source'.time = now'
  BY DEF ChangeSource, ChangeCache
<1>4. /\ DOMAIN cache' = DOMAIN cache
      /\ \A n \in DOMAIN cache : cache'[n] = cache[n] \/ cache'[n].time = now'
  BY DEF ChangeSource, ChangeCache
<1>5. TimesPast'
  BY <1>1, <1>2, <1>3, <1>4 DEF StampsInv, TimesPast, Files, Stamps
<1>6. ASSUME ~collided', at # "none", SourceUnchanged' PROVE source' = source
  <2>1. source'.time = guard[2]
    BY <1>1, <1>6 DEF SourceUnchanged, Stamp
  <2>2. guard[2] <= now /\ guard[2] \in Nat
    BY <1>2, <1>6 DEF StampsInv, TimesPast, Stamps
  <2> QED BY <1>1, <1>3, <1>6, <2>1, <2>2
<1>7. ASSUME ~collided', at \in Prepared \ {"linked"}, WavUnchanged' PROVE WavFile' = WavFile
  <2>1. WavFile'.time = wavGuard[2] /\ (ogg => wav \in DOMAIN cache)
    BY <1>1, <1>4, <1>7 DEF WavUnchanged, Stamp
  <2>2. wavGuard[2] <= now /\ wavGuard[2] \in Nat
    BY <1>2, <1>7 DEF StampsInv, TimesPast, Stamps
  <2>3. WavFile' = WavFile \/ WavFile'.time = now'
    BY <1>1, <1>3, <1>4, <2>1 DEF WavFile
  <2> QED BY <1>1, <1>7, <2>1, <2>2, <2>3
<1>8. PassesVouched'
  <2> SUFFICES ASSUME ~collided'
               PROVE  /\ at = "hashing" /\ SourceUnchanged'
                            => \A k \in 1..Len(got) : got[k] = source'.data[k]
                      /\ at \notin {"none", "hashing"} /\ SourceUnchanged'
                            => source'.data = identity
                      /\ at = "proving" /\ WavUnchanged'
                            => \A k \in 1..Len(got) : got[k] = WavFile'.data[k]
                      /\ at \in LaidOut /\ WavUnchanged' => WavFile'.data = wav
    BY <1>1 DEF PassesVouched
  <2>1. ~collided
    BY <1>1
  <2>2. ASSUME at # "none", SourceUnchanged' PROVE source' = source /\ SourceUnchanged
    BY <1>1, <1>6, <2>2 DEF SourceUnchanged
  <2>3. ASSUME at \in Prepared \ {"linked"}, WavUnchanged'
        PROVE  WavFile' = WavFile /\ WavUnchanged
    BY <1>1, <1>4, <1>7, <2>3 DEF WavUnchanged
  <2> QED BY <2>1, <2>2, <2>3 DEF StampsInv, PassesVouched, LaidOut, Prepared
<1> QED BY <1>5, <1>8 DEF StampsInv

LEMMA ForgetStamps ==
    ASSUME StampsInv, Refuse \/ Interrupt \/ LosePower, IInv PROVE StampsInv'
<1>1. /\ at' = "none" /\ UNCHANGED <<source, now>>
      /\ \A n \in DOMAIN cache' : n \in DOMAIN cache /\ cache'[n] = cache[n]
  BY DEF Refuse, Interrupt, LosePower, Forget, outside, files, IInv, TypeOK
<1>2. TimesPast'
  BY <1>1 DEF StampsInv, TimesPast, Prepared
<1>3. PassesVouched'
  BY <1>1 DEF PassesVouched, LaidOut
<1> QED BY <1>2, <1>3 DEF StampsInv

LEMMA StampsKept == ASSUME IInv, StampsInv, [Next]_vars PROVE StampsInv'
<1>1. CASE EndCopy \/ EndCheck \/ ReadLayout \/ PublishManifest \/ SyncManifest
  BY <1>1, StampsStay DEF EndCopy, EndCheck, ReadLayout, PublishManifest, SyncManifest, Goes,
     outside, Prepared, LaidOut
<1>2. CASE Tile \/ EndTiling \/ ReadSamples \/ EndWindow
           \/ \E t \in tiles \ DOMAIN delivered : BeginWindow(t)
  BY <1>2, StampsStay DEF Tile, EndTiling, ReadSamples, EndWindow, BeginWindow, Goes,
     outside, Prepared, LaidOut
<1>3. CASE Writeback \/ UNCHANGED vars
  BY <1>3, StampsStay DEF Writeback, vars, outside, Prepared, LaidOut
<1>4. CASE Open \/ ReadBlock \/ EndHash \/ ReadMagic \/ ConvertCopy \/ SyncCache \/ EndProof
  BY <1>4, OpenStamps, ReadBlockStamps, EndHashStamps, ReadMagicStamps, ConvertCopyStamps,
     SyncCacheStamps, EndProofStamps
<1> QED BY <1>1, <1>2, <1>3, <1>4, ChangeStamps, ForgetStamps DEF Next, Worker

\* If the clock tells all changes apart, the stamps of opened audio vouch for the
\* content that was verified, of the recording and of its copy (PreparedAudio::open).
THEOREM StampsAlwaysVouch == Spec => []StampsVouch
<1>1. Init => StampsInv
  BY DEF Init, Forgotten, StampsInv, TimesPast, PassesVouched, LaidOut, Prepared
<1>2. IInv /\ StampsInv /\ [Next]_vars => StampsInv'
  BY StampsKept
<1>3. StampsInv => StampsVouch
  BY DEF StampsInv, PassesVouched, StampsVouch, LaidOut
<1> QED BY <1>1, <1>2, <1>3, AudioInvariant, PTL DEF Spec
=============================================================================
