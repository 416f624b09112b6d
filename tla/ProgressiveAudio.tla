-------------------------- MODULE ProgressiveAudio --------------------------
(* The recording of a progressive session, as src/rust/progressive_audio.rs and
   progressive_audio_integrity.rs open it: verified, converted if it is an OGG file,
   frozen in the session's manifest, and read window by window, while anybody may
   write to the recording and to the converted copy.

   A file is a sequence of blocks, the unit of the block proofs. A pass over a file
   is one step per block, so it may see blocks of different versions. A checksum is
   what it is computed from, so a name in the cache, prepared-<sha256>.wav, is the
   content it promises. A stamp is the length and the time of the last change; a
   clock may be too coarse to tell two changes apart. A file that is replaced gets
   another inode, which is as a change with a new time.

   The reader of a window shares nothing with others but the files, so one is
   enough. The first block of a file is its header, one sample follows per block. *)
EXTENDS ReceiverWindows, Sequences

CONSTANTS
    Blocks,      \* contents of a block
    MaxBlocks,   \* of a file
    Versions,    \* what writers write
    IsOgg(_),    \* a first block with the OGG magic
    Convert(_),  \* what ffmpeg makes of a content
    Samples(_),  \* what the header promises and layout() accepts, else 0
    Absent,
    MaxChanges, MaxInterruptions, MaxPowerLosses

Contents == UNION {[1..n -> Blocks] : n \in 0..MaxBlocks}
Files == [data : Contents, time : Nat]
Manifests == [source : Contents, wav : Contents, converted : BOOLEAN]

ASSUME AudioAssumption ==
    /\ MaxBlocks \in Nat
    /\ Versions \subseteq Contents \ {<<>>}
    /\ \A c \in Contents : /\ Convert(c) \in Contents
                           /\ IsOgg(c) \in BOOLEAN
                           /\ Samples(c) \in Nat
                           /\ Samples(c) > 0 => Samples(c) < Len(c)
    /\ Absent \notin Manifests
    /\ MaxChanges \in Nat /\ MaxInterruptions \in Nat /\ MaxPowerLosses \in Nat

VARIABLES
    source,            \* the recording
    cache,             \* converted files of the session, by the content in their name
    cacheOnDevice,     \* the names that survive a loss of power
    manifest, manifestOnDevice,
    now, collided,     \* the time of the last change; some change kept the time
    at,                \* where the worker is
    got,               \* the blocks that a pass has read so far
    identity, guard,   \* verified content and stamp of the recording
    ogg, wav, wavGuard,  \* is it converted; content and stamp of what is read
    job, delivered,    \* the window being read, and those handed to the search
    changes, interruptions, powerLosses

files == <<source, cache, now, collided>>
device == <<cacheOnDevice, manifestOnDevice>>
bounds == <<changes, interruptions, powerLosses>>
outside == <<files, device, manifest, bounds>>
opened == <<identity, guard, ogg, wav, wavGuard>>
search == <<tiling, job, delivered>>
vars == <<outside, at, got, opened, search>>

Stamp(f) == <<Len(f.data), f.time>>

Stamps == Nat \X Nat
Steps == {"none", "hashing", "magic", "copying", "converting", "linked", "checking",
          "proving", "layout", "publishing", "published", "tiling", "ready", "reading"}

TypeOK ==
    /\ source \in Files
    /\ cache \in [DOMAIN cache -> Files]
    /\ DOMAIN cache \subseteq Contents /\ cacheOnDevice \subseteq DOMAIN cache
    /\ manifest \in Manifests \cup {Absent}
    /\ manifestOnDevice \in Manifests \cup {Absent}
    /\ now \in Nat /\ collided \in BOOLEAN
    /\ at \in Steps
    /\ got \in Contents /\ identity \in Contents /\ wav \in Contents
    /\ guard \in Stamps /\ wavGuard \in Stamps
    /\ ogg \in BOOLEAN
    /\ TilingOK
    /\ job \in Tiles \cup {Absent}
    /\ delivered \in [DOMAIN delivered -> Contents] /\ DOMAIN delivered \subseteq tiles
    /\ changes \in 0..MaxChanges
    /\ interruptions \in 0..MaxInterruptions
    /\ powerLosses \in 0..MaxPowerLosses

\* A worker that is not there remembers nothing.
Forgotten ==
    /\ at = "none" /\ got = <<>>
    /\ identity = <<>> /\ guard = <<0, 0>> /\ ogg = FALSE
    /\ wav = <<>> /\ wavGuard = <<0, 0>>
    /\ offset = 0 /\ tiles = {} /\ job = Absent /\ delivered = <<>>

Forget ==
    /\ at' = "none" /\ got' = <<>>
    /\ identity' = <<>> /\ guard' = <<0, 0>> /\ ogg' = FALSE
    /\ wav' = <<>> /\ wavGuard' = <<0, 0>>
    /\ offset' = 0 /\ tiles' = {} /\ job' = Absent /\ delivered' = <<>>

Init ==
    /\ source \in [data : Versions, time : {0}]
    /\ cache = <<>> /\ cacheOnDevice = {}
    /\ manifest = Absent /\ manifestOnDevice = Absent
    /\ now = 0 /\ collided = FALSE
    /\ Forgotten
    /\ changes = 0 /\ interruptions = 0 /\ powerLosses = 0

-----------------------------------------------------------------------------
(* Passes over a file: the recording, or what the cache has under a name *)

WavFile == IF ogg THEN cache[wav] ELSE source

SourceUnchanged == Stamp(source) = guard
WavUnchanged == (ogg => wav \in DOMAIN cache) /\ Stamp(WavFile) = wavGuard

\* The file that the present pass reads.
Passed == IF at \in {"hashing", "copying"} THEN source ELSE WavFile

ReadBlock ==
    /\ at \in {"hashing", "copying", "checking", "proving"}
    /\ Len(got) < Len(Passed.data)
    /\ got' = Append(got, Passed.data[Len(got) + 1])
    /\ UNCHANGED <<outside, at, opened, search>>

PassOver == Len(got) >= Len(Passed.data)

\* As many blocks as the stamp says, and the stamp is still the file's.
SourcePassed == Len(got) = guard[1] /\ SourceUnchanged
WavPassed == Len(got) = wavGuard[1] /\ WavUnchanged

\* A step of the worker, which the worker takes if what it checks holds.
Goes(from, to) == at = from /\ at' = to
-----------------------------------------------------------------------------
(* PreparedAudio::open, which prepare calls with the metadata of the manifest *)

\* The stamp is taken before the content is read: verified().
Open ==
    /\ Goes("none", "hashing")
    /\ guard' = Stamp(source)
    /\ UNCHANGED <<outside, got, identity, ogg, wav, wavGuard, search>>

\* What it would be with a stamp taken afterwards, which blesses any change.
EndHash_StampsAfter ==
    /\ Goes("hashing", "magic")
    /\ PassOver
    /\ identity' = got /\ got' = <<>> /\ guard' = Stamp(source)
    /\ UNCHANGED <<outside, ogg, wav, wavGuard, search>>

EndHash ==
    /\ Goes("hashing", "magic")
    /\ PassOver /\ SourcePassed
    /\ identity' = got /\ got' = <<>>
    /\ UNCHANGED <<outside, guard, ogg, wav, wavGuard, search>>

\* A resume takes the same content in the same representation, and for an OGG
\* file the copy that the manifest names.
Resumable ==
    /\ manifest.source = identity
    /\ manifest.converted = IsOgg(source.data)
    /\ IF manifest.converted THEN manifest.wav \in DOMAIN cache
                             ELSE manifest.wav = identity

MagicHolds == SourceUnchanged /\ (manifest # Absent => Resumable)

\* The magic is read after the hash.
ReadMagic ==
    /\ at = "magic" /\ MagicHolds
    /\ ogg' = IsOgg(source.data)
    /\ \/ /\ ~ogg'
          /\ at' = "proving" /\ wav' = identity /\ wavGuard' = guard
       \/ /\ ogg' /\ manifest = Absent
          /\ at' = "copying" /\ UNCHANGED <<wav, wavGuard>>
       \/ /\ ogg' /\ manifest # Absent
          /\ at' = "checking" /\ wav' = manifest.wav /\ wavGuard' = Stamp(cache[wav'])
    /\ UNCHANGED <<outside, got, identity, guard, search>>

\* OggSnapshot::capture: both external tools read a private copy, of the blocks
\* that were hashed while they were copied.
CopyHolds_StampOnly == SourcePassed
CopyHolds == SourcePassed /\ got = identity

EndCopy ==
    /\ Goes("copying", "converting")
    /\ PassOver /\ CopyHolds
    /\ UNCHANGED <<outside, got, opened, search>>

\* The name is taken by a copy of the same content, from an earlier worker.
LinkHolds_Fresh == Convert(got) \notin DOMAIN cache
LinkHolds == TRUE

\* convert_ogg_snapshot: ffprobe and ffmpeg run, the result is verified, synced and
\* linked into the cache, unless its name is taken.
ConvertHolds == Samples(Convert(got)) > 0 /\ LinkHolds

ConvertCopy ==
    /\ Goes("converting", "linked")
    /\ ConvertHolds
    /\ wav' = Convert(got) /\ got' = <<>>
    /\ cache' = [n \in DOMAIN cache \cup {wav'} |->
                   IF n \in DOMAIN cache THEN cache[n] ELSE [data |-> n, time |-> now]]
    /\ UNCHANGED <<source, now, collided, device, manifest, bounds, identity, guard, ogg,
                   wavGuard, search>>

\* fsync of the session's directory.
SyncSession == cacheOnDevice' = DOMAIN cache /\ manifestOnDevice' = manifest

\* Also a copy that was there is synced: the worker that linked it may have died.
\* verify_cache begins with the stamp of what is under the name now.
SyncCache ==
    /\ Goes("linked", "checking")
    /\ SyncSession
    /\ wavGuard' = Stamp(cache[wav])
    /\ UNCHANGED <<files, manifest, bounds, got, identity, guard, ogg, wav, search>>

\* It has the content of its name; convert_ogg ends with another look at the source.
CheckHolds == WavPassed /\ got = wav /\ (manifest = Absent => SourceUnchanged)

EndCheck ==
    /\ Goes("checking", "proving")
    /\ PassOver /\ CheckHolds
    /\ got' = <<>>
    /\ UNCHANGED <<outside, opened, search>>

\* BlockProof::capture: a hash of every block, which together are the content.
ProofHolds == WavPassed /\ got = wav

EndProof ==
    /\ Goes("proving", "layout")
    /\ PassOver /\ ProofHolds
    /\ got' = <<>>
    /\ UNCHANGED <<outside, opened, search>>

\* A block that a reader gets: checked against the proof, or it is an error.
BlockHolds_Unproved(b) == b <= Len(WavFile.data)
BlockHolds(b) == b <= Len(WavFile.data) /\ WavFile.data[b] = wav[b]

\* layout: the header, through the proof, between two looks at the stamp.
LayoutHolds == WavUnchanged /\ BlockHolds(1) /\ Samples(wav) > 0 /\ SourceUnchanged

ReadLayout ==
    /\ at = "layout" /\ LayoutHolds
    /\ at' = IF manifest = Absent THEN "publishing" ELSE "tiling"
    /\ UNCHANGED <<outside, got, opened, search>>

\* prepare publishes the manifest of a new session.
PublishManifest ==
    /\ Goes("publishing", "published")
    /\ manifest' = [source |-> identity, wav |-> wav, converted |-> ogg]
    /\ UNCHANGED <<files, device, bounds, got, opened, search>>

SyncManifest ==
    /\ Goes("published", "tiling")
    /\ SyncSession
    /\ UNCHANGED <<files, manifest, bounds, got, opened, search>>

Tile ==
    /\ at = "tiling"
    /\ AddTile(Samples(wav))
    /\ UNCHANGED <<outside, at, got, opened, job, delivered>>

EndTiling ==
    /\ Goes("tiling", "ready")
    /\ Tiled(Samples(wav))
    /\ UNCHANGED <<outside, got, opened, search>>
-----------------------------------------------------------------------------
(* PreparedAudio::get_window *)

WindowOpens(t) ==
    /\ t.right <= Samples(wav)
    /\ Shortest <= t.right - t.left /\ t.right - t.left <= Width
    /\ SourceUnchanged /\ WavUnchanged

BeginWindow(t) ==
    /\ Goes("ready", "reading")
    /\ WindowOpens(t)
    /\ job' = t
    /\ UNCHANGED <<outside, got, opened, tiling, delivered>>

\* The header again, then the blocks of the window's samples.
NextBlock == IF got = <<>> THEN 1 ELSE job.left + Len(got) + 1
WindowRead == Len(got) = 1 + job.right - job.left

\* CheckedReader: the very copy of the block that was checked is decoded.
ReadSamples ==
    /\ at = "reading" /\ ~WindowRead
    /\ BlockHolds(NextBlock)
    /\ got' = Append(got, WavFile.data[NextBlock])
    /\ UNCHANGED <<outside, at, opened, search>>

WindowHolds == WavUnchanged /\ SourceUnchanged

EndWindow ==
    /\ Goes("reading", "ready")
    /\ WindowRead /\ WindowHolds
    /\ delivered' = [t \in DOMAIN delivered \cup {job} |->
                       IF t = job THEN Tail(got) ELSE delivered[t]]
    /\ job' = Absent /\ got' = <<>>
    /\ UNCHANGED <<outside, opened, tiling>>
-----------------------------------------------------------------------------
(* Errors, and the world *)

\* What the worker's next step checks does not hold: the error ends it.
Refused ==
    \/ at = "hashing" /\ PassOver /\ ~SourcePassed
    \/ at = "magic" /\ ~MagicHolds
    \/ at = "copying" /\ PassOver /\ ~CopyHolds
    \/ at = "converting" /\ ~ConvertHolds
    \/ at = "checking" /\ PassOver /\ ~CheckHolds
    \/ at = "proving" /\ PassOver /\ ~ProofHolds
    \/ at = "layout" /\ ~LayoutHolds
    \/ at = "tiling" /\ ~Continues(Samples(wav)) /\ tiles = {}
    \/ at = "ready" /\ \E t \in tiles \ DOMAIN delivered : ~WindowOpens(t)
    \/ at = "reading" /\ ~WindowRead /\ ~BlockHolds(NextBlock)
    \/ at = "reading" /\ WindowRead /\ ~WindowHolds

Refuse == Refused /\ Forget /\ UNCHANGED outside

Worker ==
    \/ Open \/ ReadBlock \/ EndHash \/ ReadMagic
    \/ EndCopy \/ ConvertCopy \/ SyncCache \/ EndCheck
    \/ EndProof \/ ReadLayout \/ PublishManifest \/ SyncManifest
    \/ Tile \/ EndTiling
    \/ \E t \in tiles \ DOMAIN delivered : BeginWindow(t)
    \/ ReadSamples \/ EndWindow
    \/ Refuse

\* Somebody writes to the recording, or into the cache, within a tick of the clock
\* that stamps files or after it.
Changes ==
    /\ changes < MaxChanges /\ changes' = changes + 1
    /\ \/ now' = now /\ collided' = TRUE
       \/ now' = now + 1 /\ UNCHANGED collided

ChangeSource ==
    /\ Changes
    /\ \E c \in Versions : source' = [data |-> c, time |-> now']
    /\ UNCHANGED <<cache, device, manifest, interruptions, powerLosses, at, got, opened,
                   search>>

ChangeCache ==
    /\ Changes
    /\ \E n \in DOMAIN cache, c \in Versions :
          cache' = [cache EXCEPT ![n] = [data |-> c, time |-> now']]
    /\ UNCHANGED <<source, device, manifest, interruptions, powerLosses, at, got, opened,
                   search>>

\* A kill, a signal, an error of the device or of an external tool.
Interrupt ==
    /\ at # "none"
    /\ interruptions < MaxInterruptions /\ interruptions' = interruptions + 1
    /\ Forget
    /\ UNCHANGED <<files, device, manifest, changes, powerLosses>>

\* The kernel persists entries of the directory when and in what order it likes.
Writeback ==
    /\ \/ /\ \E n \in DOMAIN cache \ cacheOnDevice : cacheOnDevice' = cacheOnDevice \cup {n}
          /\ UNCHANGED manifestOnDevice
       \/ /\ manifestOnDevice # manifest /\ manifestOnDevice' = manifest
          /\ UNCHANGED cacheOnDevice
    /\ UNCHANGED <<files, manifest, bounds, at, got, opened, search>>

LosePower ==
    /\ powerLosses < MaxPowerLosses /\ powerLosses' = powerLosses + 1
    /\ cache' = [n \in cacheOnDevice |-> cache[n]]
    /\ manifest' = manifestOnDevice
    /\ Forget
    /\ UNCHANGED <<source, now, collided, device, changes, interruptions>>

Next == Worker \/ ChangeSource \/ ChangeCache \/ Interrupt \/ Writeback \/ LosePower

Spec == Init /\ [][Next]_vars

\* The worker runs, and is started again with the same recording.
FairSpec == Spec /\ WF_vars(Worker)
-----------------------------------------------------------------------------
(* What the search can rely on *)

\* Whatever was written to the recording or to its copy, within a tick of the clock
\* or not, and however often the session was resumed: a window that is searched
\* consists of the samples frozen in the manifest.
WindowsAreFrozen ==
    \A t \in DOMAIN delivered :
        delivered[t] = SubSeq(manifest.wav, t.left + 2, t.right + 1)

\* What the manifest calls the recording's samples is what the tools make of the
\* content it names as the recording's, although that may change between the hash
\* and the conversion; and no loss of power leaves a manifest without the converted
\* copy it names.
ManifestIsTrue ==
    /\ manifest # Absent =>
           manifest.wav = IF manifest.converted THEN Convert(manifest.source)
                                                ELSE manifest.source
    /\ manifestOnDevice # Absent /\ manifestOnDevice.converted
           => manifestOnDevice.wav \in cacheOnDevice

\* If the clock tells all changes apart, an unchanged stamp vouches for the content
\* that was verified, of the recording and of its copy: the stamps of the opened
\* audio never bless bytes that nobody has hashed.
StampsVouch ==
    ~collided =>
        /\ at \notin {"none", "hashing"} /\ SourceUnchanged => source.data = identity
        /\ at \in {"layout", "publishing", "published", "tiling", "ready", "reading"}
              /\ WavUnchanged => WavFile.data = wav

\* The windows to be searched leave out at most the tail.
SearchCoversRecording == TilesCover(Samples(wav))

\* A recording that can be prepared or resumed: readable, not changed since it was
\* frozen, and its copy not changed either.
Usable ==
    LET ready(c) == IF IsOgg(c) THEN Convert(c) ELSE c IN
    /\ Samples(ready(source.data)) >= Shortest
    /\ manifest # Absent => Resumable
    /\ IsOgg(source.data) /\ ready(source.data) \in DOMAIN cache
          => cache[ready(source.data)].data = ready(source.data)

\* If the recording stays usable and interruptions end, every window is read: what
\* an interrupted preparation left behind does not stand in the way of the next.
SearchEnds == (<>[]Usable) => <>(at = "ready" /\ DOMAIN delivered = tiles)
=============================================================================
